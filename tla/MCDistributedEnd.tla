-------------------------- MODULE MCDistributedEnd --------------------------
(* Values of the constants of DistributedEnd for TLC. *)
EXTENDS DistributedEnd

Run(strategy, board, deadline, finders) ==
  [strategy |-> strategy, board |-> board, deadline |-> deadline, finders |-> finders]

(* The time is over while the root parses, or after every rank has         *)
(* launched its sharers.                                                   *)
OrderlyRuns ==
  { Run("allgather", TRUE, "never", {0, 1, 2}),
    Run("allgather", FALSE, "solving", {1}),
    Run("ring", TRUE, "solving", {}),
    Run("ring", FALSE, "never", {1, 2}),
    Run("ring", FALSE, "parsing", {}) }

AnyTime == { Run("allgather", TRUE, "any", {}) }
=============================================================================
