---------------------------- MODULE MCPortfolio ----------------------------
(* Instances of the start and the end of a run for TLC: the constants are  *)
(* numbers and Booleans, given in the .cfg files.                          *)
EXTENDS Portfolio
=============================================================================
