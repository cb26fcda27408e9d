---------------------------- MODULE MCSalesOrders ----------------------------
(***************************************************************************)
(* Instances of SalesOrders for TLC.  Orders and calls are interchangeable *)
(* model values.                                                           *)
(***************************************************************************)
EXTENDS SalesOrders, TLC

Interchangeable == Permutations(Orders) \cup Permutations(Calls)
=============================================================================
