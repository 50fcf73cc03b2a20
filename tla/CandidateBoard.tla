--------------------------- MODULE CandidateBoard ---------------------------
(***************************************************************************)
(* The board of decided variables shared by the solvers of a process:      *)
(* one atomic status per variable (containers/CandidateBoard.hpp).  The    *)
(* operators below are the public operations; each touches one status by   *)
(* one atomic access, so a caller's loop over several variables must be    *)
(* modelled as several steps.                                              *)
(***************************************************************************)
EXTENDS Formula

Status == {"unknown", "positive", "negative", "free"}

EmptyBoard == [v \in Vars |-> "unknown"]

(* The status that says that l is a backbone literal. *)
BackboneStatus(l) == IF SignOf(l) = 1 THEN "positive" ELSE "negative"

(* compare_exchange from unknown: the first writer wins. *)
Publish(b, v, s) == IF b[v] = "unknown" THEN [b EXCEPT ![v] = s] ELSE b

PublishBackbone(b, l) == Publish(b, VarOf(l), BackboneStatus(l))

PublishFree(b, v) == Publish(b, v, "free")

(* What a status claims about the formula with models M. *)
StatusTrue(M, v, s) ==
  /\ s = "positive" => Implied(M, << v, 1 >>)
  /\ s = "negative" => Implied(M, << v, -1 >>)
  /\ s = "free" => IsFree(M, v)
=============================================================================
