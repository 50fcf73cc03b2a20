--------------------------- MODULE MCClauseSharing ---------------------------
(* A small instance of the circulation of clauses.                         *)
EXTENDS ClauseSharing

CONSTANTS s1, s2, u, b, w

TwoSolvers == {s1, s2}
OneEach == [s \in Solvers |-> IF s = s1 THEN 0 ELSE 1]

(* A unit and two clauses of two literals, in buckets of their own; the    *)
(* unit takes three words of a buffer of four, and either of the others    *)
(* fills it to the end.                                                    *)
ThreeClauses == {u, b, w}
Sizes == [c \in Clauses |-> IF c = u THEN 1 ELSE 2]
Lbds == [c \in Clauses |-> IF c = w THEN 3 ELSE 2]

(* The unit is learnt twice, and b can only be sent once w was added.      *)
SomeLearn == [s \in Solvers |-> IF s = s1 THEN {u, b, w} ELSE {u}]
==============================================================================
