--------------------------- MODULE MCCloudGateway ---------------------------
(***************************************************************************)
(* Instances of CloudGateway for TLC.  Operations and calls are            *)
(* interchangeable model values.                                           *)
(***************************************************************************)
EXTENDS CloudGateway, TLC

Interchangeable == Permutations(Ops) \cup Permutations(Handlers)
=============================================================================
