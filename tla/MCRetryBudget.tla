---------------------------- MODULE MCRetryBudget ---------------------------
(***************************************************************************)
(* Instances of RetryBudget for TLC, with model values as in               *)
(* MCBackgroundSync.                                                       *)
(***************************************************************************)
EXTENDS RetryBudget
=============================================================================
