---------------------------- MODULE MCPartition ----------------------------
(* Small instances of the workers that choose their chunks by blocks.      *)
EXTENDS CadiBackPartition

CONSTANTS w1, w2, v1, v2, v3

TwoWorkers == {w1, w2}
OneWorker == {w2}
ThreeVars == {v1, v2, v3}

Ranking == [v \in Vars |-> IF v = v1 THEN 0 ELSE IF v = v2 THEN 1 ELSE 2]

(* What initCandidates makes of the natural order, for w1 and for w2: with *)
(* two parts, {v1, v3} and {v2}.                                           *)
PartOrders ==
  [w \in Workers |->
     IF w = w1 THEN [v \in Vars |-> CASE v = v1 -> 1 [] v = v3 -> 2 [] v = v2 -> 3]
               ELSE [v \in Vars |-> CASE v = v2 -> 1 [] v = v1 -> 2 [] v = v3 -> 3]]

OnePart == [w \in Workers |-> 0]
Indices == [w \in Workers |-> IF w = w1 THEN 0 ELSE 1]

AllSteal == [w \in Workers |-> "steal"]
AllSqrt == [w \in Workers |-> "sqrt"]

(* The unsatisfiable formula, and of those with the positive model the ones *)
(* with at most three others or with all.                                  *)
SomeFormulas ==
  {F \in SUBSET Assignments :
     F # {} => [v \in Vars |-> 1] \in F /\ Cardinality(F) \in 1..4 \union {8}}

(* A -model that is a model of some formulas only. *)
GivenModel == [w \in Workers |-> {<< v1, 1 >>, << v2, -1 >>}]

(* One variable of a backbone literal, the two others are free together.   *)
Positive == [v \in Vars |-> 1]
FreeTogether(vs) == {Positive, [v \in Vars |-> IF v \in vs THEN -1 ELSE 1]}
OnePairFree == {FreeTogether({v2, v3})}
(* Two such formulas, and one with one model. *)
FewModels == {FreeTogether({v2, v3}), FreeTogether({v1, v3}), {Positive}}

PublishAll == [w \in Workers |-> {"backbone", "free"}]
OneByOne == [w \in Workers |-> 1]
(* 4 = SizeMax + 1: the product wraps to 0 unless it saturates. *)
SaturatingRate == [w \in Workers |-> 4]
NoInitialModel == [w \in Workers |-> {}]
=============================================================================
