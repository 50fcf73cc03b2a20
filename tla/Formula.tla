------------------------------- MODULE Formula -------------------------------
(***************************************************************************)
(* Literals, assignments and clauses of a CNF formula.  The clauses loaded *)
(* by addInitialClauses are represented by what the algorithms can observe *)
(* of them, the set of their models; the clauses that the solvers add or   *)
(* exchange later are sets of literals.                                    *)
(***************************************************************************)
EXTENDS Integers

CONSTANT Vars          \* the variables 1..m_nbVars of the formula

ASSUME VarsAssumption == Vars # {}

(* A literal is a variable with a sign, the code's v and -v. *)
Lit == Vars \X {1, -1}

VarOf(l) == l[1]
SignOf(l) == l[2]
Neg(l) == << VarOf(l), - SignOf(l) >>

(* A total assignment, what solver->val answers after a SAT call. *)
Assignments == [Vars -> {1, -1}]

Holds(m, l) == m[VarOf(l)] = SignOf(l)

Flip(m, v) == [m EXCEPT ![v] = - @]

(* The literals of a model, in the role of the code's vector of ints. *)
LiteralsOf(m) == {<< v, m[v] >> : v \in Vars}

Satisfies(m, c) == \E l \in c : Holds(m, l)

(* The models of M that satisfy every clause of C. *)
ModelsOf(M, C) == {m \in M : \A c \in C : Satisfies(m, c)}

(* The backbone of the formula with models M: the literals true in all. *)
Implied(M, l) == \A m \in M : Holds(m, l)

Backbone(M) == {l \in Lit : Implied(M, l)}

(* Both values of v appear in models: v has no backbone literal. *)
IsFree(M, v) == \E m, n \in M : m[v] # n[v]
=============================================================================
