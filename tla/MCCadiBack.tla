----------------------------- MODULE MCCadiBack -----------------------------
(* Small instances of the backbone search for TLC. *)
EXTENDS CadiBack

CONSTANTS w1, w2, v1, v2

TwoVars == {v1, v2}
TwoWorkers == {w1, w2}

(* Every formula up to a renaming of the signs, which nothing in CadiBack  *)
(* can tell apart: the unsatisfiable one, and those with the positive      *)
(* model, of which a positive unit clause alone can be a consequence.      *)
FormulasUpToSign == {F \in SUBSET Assignments : F # {} => [v \in Vars |-> 1] \in F}

(* The clause that conflict analysis may learn. *)
UnitClause == {{<< v1, 1 >>}}

Ascending == [v \in Vars |-> IF v = v1 THEN 1 ELSE 2]
Descending == [v \in Vars |-> 3 - Ascending[v]]
OpposedOrders == [w \in Workers |-> IF w = w1 THEN Ascending ELSE Descending]

PublishAll == [w \in Workers |-> {"backbone", "free"}]
(* w1 takes all the candidates at once, w2 doubles its chunks. *)
MixedRates == [w \in Workers |-> IF w = w1 THEN 0 ELSE 2]

OnlyW1 == {w1}
OnlyW2 == {w2}
NoInitialModel == [w \in Workers |-> {}]
=============================================================================
