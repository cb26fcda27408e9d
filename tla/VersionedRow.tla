---------------------------- MODULE VersionedRow ----------------------------
(***************************************************************************)
(* What the optimistic lock of the cloud gateway promises                  *)
(* (backend/services/cloudSyncStore.cjs, upsertRow): the updates of a row  *)
(* take effect one after the other, each at most once, and each on top of  *)
(* everything that took effect before it.                                  *)
(***************************************************************************)
CONSTANT Updates

VARIABLES
  content,   \* the updates the row contains
  done       \* the updates that took effect

rowVars == <<content, done>>

RowInit == content = {} /\ done = {}

TakeEffect(o) ==
  /\ o \notin done
  /\ content' = content \cup {o}
  /\ done' = done \cup {o}

RowNext == \E o \in Updates : TakeEffect(o)

RowSpec == RowInit /\ [][RowNext]_rowVars
=============================================================================
