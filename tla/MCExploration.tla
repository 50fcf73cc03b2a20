---------------------------- MODULE MCExploration ----------------------------
(* Small instances of the explorations: a MaxSAT worker with an XOR phase. *)
EXTENDS Exploration

CONSTANTS w1, v1, v2, v3

OneWorker == {w1}
ThreeVars == {v1, v2, v3}

(* All backbone; one backbone literal and two variables that are not both  *)
(* false: the best models leave a free candidate behind.                   *)
Ones == [v \in Vars |-> 1]
SomeFormulas == {{Ones}, {Ones} \union {[Ones EXCEPT ![v] = -1] : v \in {v1, v3}}}

Ascending == [w \in Workers |-> [v \in Vars |-> IF v = v1 THEN 1 ELSE IF v = v2 THEN 2 ELSE 3]]
PublishAll == [w \in Workers |-> {"backbone", "free"}]
AllAtOnce == [w \in Workers |-> 0]
NoInitialModel == [w \in Workers |-> {}]

OneRound == [w \in Workers |-> 1]
Always == [w \in Workers |-> TRUE]
TwoCalls == [w \in Workers |-> 2]
=============================================================================
