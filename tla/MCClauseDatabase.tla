--------------------------- MODULE MCClauseDatabase ---------------------------
(* Small instances of the Mallob database.                                 *)
EXTENDS ClauseDatabaseMallob

CONSTANTS a1, a2, c

TwoAdders == {a1, a2}
OneAdder == {a1}

(* Units, clauses of two literals, and bad clauses of three literals.     *)
SomeBuckets == {0, 2, 5}

===============================================================================
