-------------------------- MODULE MCBackgroundSync --------------------------
(***************************************************************************)
(* Instances of BackgroundSync for TLC.  Records, edits and callers are    *)
(* model values; FlushRecords is a subset of Records.                      *)
(***************************************************************************)
EXTENDS BackgroundSync
=============================================================================
