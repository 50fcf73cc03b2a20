------------------------- MODULE BackboneExtraction -------------------------
(***************************************************************************)
(* What a parallel backbone extractor promises, whatever its algorithm.    *)
(* Every observer (a solver, or the board the solvers share) has a view of *)
(* each variable.  A view leaves "unknown" once, for the truth about the   *)
(* formula, and a solver that claims completion knows every variable.      *)
(***************************************************************************)
EXTENDS CandidateBoard

CONSTANTS Solvers,     \* the solvers, which answer
          Observers,   \* the solvers and what they share
          Formulas     \* the formulas, each given by the set of its models

VARIABLES phi,         \* the models of the formula being solved
          view,        \* [Observers -> [Vars -> Status]]
          answer       \* [Solvers -> the BackboneResult it returned, or none]

extractionVars == << phi, view, answer >>

Init ==
  /\ phi \in Formulas
  /\ view = [o \in Observers |-> EmptyBoard]
  /\ answer = [s \in Solvers |-> "none"]

(* Some observers learn the truth about one variable, in one step. *)
Decide(O, v, s) ==
  /\ s # "unknown"
  /\ StatusTrue(phi, v, s)
  /\ \A o \in O : view[o][v] = "unknown"
  /\ view' = [o \in Observers |->
                IF o \in O THEN [view[o] EXCEPT ![v] = s] ELSE view[o]]
  /\ UNCHANGED << phi, answer >>

Complete(s) ==
  /\ phi # {}
  /\ \A v \in Vars : view[s][v] # "unknown"
  /\ answer' = [answer EXCEPT ![s] = "COMPLETE"]

Refute(s) ==
  /\ phi = {}
  /\ answer' = [answer EXCEPT ![s] = "UNSAT"]

GiveUp(s) == answer' = [answer EXCEPT ![s] = "UNKNOWN"]

Answer(s) ==
  /\ answer[s] = "none"
  /\ Complete(s) \/ Refute(s) \/ GiveUp(s)
  /\ UNCHANGED << phi, view >>

Next ==
  \/ \E O \in SUBSET Observers, v \in Vars, s \in Status : Decide(O, v, s)
  \/ \E s \in Solvers : Answer(s)

Spec == Init /\ [][Next]_extractionVars
=============================================================================
