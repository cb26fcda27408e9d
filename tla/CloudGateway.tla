---------------------------- MODULE CloudGateway ----------------------------
(***************************************************************************)
(* The sync gateway of the backend (backend/services/cloudSyncStore.cjs):  *)
(* concurrent calls of applyOp() on one cloud row, each a sequence of HTTP *)
(* requests to the database.  A call may die between any two of them, its  *)
(* answer may be lost, and the client sends the operation again under the  *)
(* same id while the first call may still be running.                      *)
(*                                                                         *)
(* Grain: one action per database request and the code up to the next one. *)
(* A request that may fail is a choice of its outcome.                     *)
(*                                                                         *)
(* Abstractions.  The content of a row or a payload is the set of writes   *)
(* it includes: a device edits the copy it has read, so an update carries  *)
(* what that copy contained and itself.  Preconditions, sales order        *)
(* numbering, payment scope and the rename cascade are left out.           *)
(***************************************************************************)
EXTENDS Naturals, FiniteSets

CONSTANTS
  Ops,             \* operation ids
  Handlers,        \* concurrent applyOp() calls
  Kinds,           \* the kinds of write the devices send
  MaxVersion,      \* bound: row versions
  MaxGeneration,   \* bound: company resets
  None             \* no operation

ASSUME GatewayAssumption ==
  /\ Kinds \subseteq {"create", "update", "delete"}
  /\ MaxVersion \in Nat \ {0, 1}
  /\ MaxGeneration \in Nat \ {0}
  /\ None \notin Ops

VARIABLES
  row,          \* the cloud row
  keys,         \* idempotency_keys
  generation,   \* the sync_generation setting
  op,           \* the operations the devices have created
  handler,      \* the applyOp() calls in progress
  purge,        \* purgeTombstones() has collected the row
  effected,     \* history: the operations whose write reached the row
  answered,     \* the operations whose client has received ok
  outdated,     \* history: the updates, and the deletes, made from what was
  overtaken     \* read before the row was last created, replaced or purged

vars == <<row, keys, generation, op, handler, purge, effected, answered, outdated, overtaken>>

-----------------------------------------------------------------------------
Versions == 0..MaxVersion

Row == [version: Versions, content: SUBSET Ops, deleted: BOOLEAN]

Absent == [version |-> 0, content |-> {}, deleted |-> FALSE]
First == [Absent EXCEPT !.version = 1]

Exists == row.version > 0

\* base is the version the payload carries, 0 when it carries none.
NoOp == [kind |-> "none", base |-> 0, gen |-> 0, content |-> {}]

IdleHandler == [pc |-> "idle", op |-> None, seen |-> 0, data |-> {}]

Init ==
  /\ row \in {Absent, First}
  /\ keys = {}
  /\ generation = 1
  /\ op = [o \in Ops |-> NoOp]
  /\ handler = [h \in Handlers |-> IdleHandler]
  /\ purge = FALSE
  /\ effected = {}
  /\ answered = {}
  /\ outdated = {}
  /\ overtaken = {}

-----------------------------------------------------------------------------
(***************************************************************************)
(* The devices.  An operation is stamped with the generation and made from *)
(* the row its device has read; both may be old by the time it is handled. *)
(* A device that creates a record has not seen the row, though another may *)
(* have created it under the same id; it may stamp an initial version.     *)
(***************************************************************************)
Submit(o, kind) ==
  /\ op[o] = NoOp
  /\ row.version < MaxVersion
  /\ kind \in {"update", "delete"} => Exists
  /\ \E base \in (IF kind = "create" THEN {0, 1} ELSE {row.version}) :
       op' = [op EXCEPT ![o] =
         [kind |-> kind, base |-> base, gen |-> generation,
          content |-> IF kind = "update" THEN row.content \cup {o} ELSE {o}]]
  /\ UNCHANGED <<row, keys, generation, handler, purge, effected, answered, outdated, overtaken>>

\* The client sends, or sends again, until it has an ok.
Receive(h, o) ==
  /\ handler[h].pc = "idle"
  /\ op[o] # NoOp
  /\ o \notin answered
  /\ handler' = [handler EXCEPT ![h] = [IdleHandler EXCEPT !.pc = "stale", !.op = o]]
  /\ UNCHANGED <<row, keys, generation, op, purge, effected, answered, outdated, overtaken>>

-----------------------------------------------------------------------------
(***************************************************************************)
(* applyOp(): the stale check, the idempotency check, the write, the       *)
(* idempotency record.                                                     *)
(***************************************************************************)
At(h, pc) == handler[h].pc = pc
Goto(h, pc) == handler' = [handler EXCEPT ![h].pc = pc]
\* Mutant: the call is forgotten but does not end.
ForgetOperation(h) == handler' = [handler EXCEPT ![h].op = None]

Return(h) == handler' = [handler EXCEPT ![h] = IdleHandler]

\* An ok answer reaches the client, or is lost.
AnswerOk(h) == \/ answered' = answered \cup {handler[h].op}
               \/ UNCHANGED answered

\* getSyncGeneration() answers 1 when the setting cannot be read.
GenerationRead == {generation, 1}

CheckStale(h) ==
  /\ At(h, "stale")
  /\ \E current \in GenerationRead :
       IF op[handler[h].op].gen < current THEN Return(h) ELSE Goto(h, "seen")
  /\ UNCHANGED <<row, keys, generation, op, purge, effected, answered, outdated, overtaken>>

\* A failed probe counts as "not seen yet".
CheckIdempotency(h) ==
  /\ At(h, "seen")
  /\ \/ handler[h].op \in keys /\ Return(h) /\ AnswerOk(h)
     \/ Goto(h, "write") /\ UNCHANGED answered
  /\ UNCHANGED <<row, keys, generation, op, purge, effected, outdated, overtaken>>

\* A write that reaches the database: the row, and who wrote it.
Write(h, version, content, deleted) ==
  /\ row' = [version |-> version, content |-> content, deleted |-> deleted]
  /\ effected' = effected \cup {handler[h].op}

\* The row begins anew, or is gone: its versions no longer go on from the ones
\* that were read.
StartOver == /\ outdated' = {o \in Ops : op[o].kind = "update"}
             /\ overtaken' = {h \in Handlers : At(h, "tombstone")}

(***************************************************************************)
(* upsertRow().  With a version: one conditional PATCH; zero rows updated  *)
(* is a conflict, unless the row is absent.                                *)
(***************************************************************************)
IsVersioned(h) == op[handler[h].op].kind # "delete" /\ op[handler[h].op].base > 0
IsUnversioned(h) == op[handler[h].op].kind # "delete" /\ op[handler[h].op].base = 0

\* Mutant: the version is read by an earlier request, not by the PATCH.
PatchAnyVersion(h) ==
  LET o == op[handler[h].op]
  IN  /\ At(h, "write") /\ IsVersioned(h) /\ Exists
      /\ Write(h, o.base + 1, o.content, FALSE)
      /\ Goto(h, "record")
      /\ UNCHANGED <<keys, generation, op, purge, answered, outdated, overtaken>>

Patch(h) ==
  LET o == op[handler[h].op]
  IN  /\ At(h, "write")
      /\ IsVersioned(h)
      /\ IF row.version = o.base
         THEN Write(h, o.base + 1, o.content, FALSE) /\ Goto(h, "record")
         ELSE Goto(h, "reread") /\ UNCHANGED <<row, effected>>
      /\ UNCHANGED <<keys, generation, op, purge, answered, outdated, overtaken>>

\* Mutant: a conflict is answered like a success.
RereadAsSuccess(h) ==
  /\ \/ At(h, "reread")
     \/ At(h, "write") /\ IsUnversioned(h)
  /\ IF Exists THEN Goto(h, "record") ELSE Goto(h, "create")
  /\ UNCHANGED <<row, keys, generation, op, purge, effected, answered, outdated, overtaken>>

\* The row is read for the conflict answer; an absent row is a create.
Reread(h) ==
  /\ \/ At(h, "reread")
     \/ At(h, "write") /\ IsUnversioned(h)
  /\ IF Exists THEN Return(h) ELSE Goto(h, "create")
  /\ UNCHANGED <<row, keys, generation, op, purge, effected, answered, outdated, overtaken>>

\* POST with merge-duplicates: it overwrites a row that exists by now.
Create(h) ==
  /\ At(h, "create")
  /\ Write(h, 1, op[handler[h].op].content, FALSE)
  /\ StartOver
  /\ Goto(h, "record")
  /\ UNCHANGED <<keys, generation, op, purge, answered>>

(***************************************************************************)
(* softDeleteRow(): read, conditional PATCH, and an unconditional POST if  *)
(* the PATCH fails.                                                        *)
(***************************************************************************)
DeleteRead(h) ==
  /\ At(h, "write")
  /\ op[handler[h].op].kind = "delete"
  /\ row.version < MaxVersion
  /\ handler' = [handler EXCEPT ![h].pc = "tombstone", ![h].seen = row.version,
                                ![h].data = row.content]
  /\ overtaken' = overtaken \ {h}
  /\ UNCHANGED <<row, keys, generation, op, purge, effected, answered, outdated>>

WriteTombstone(h) == Write(h, handler[h].seen + 1, handler[h].data, TRUE)

\* Zero rows updated is a conflict; an error may hide a PATCH that succeeded.
DeletePatch(h) ==
  /\ At(h, "tombstone")
  /\ \/ /\ Exists /\ row.version = handler[h].seen
        /\ WriteTombstone(h)
        /\ \E pc \in {"record", "force"} : Goto(h, pc)
     \/ /\ row.version # handler[h].seen \/ ~Exists
        /\ Return(h)
        /\ UNCHANGED <<row, effected>>
     \/ Goto(h, "force") /\ UNCHANGED <<row, effected>>
  /\ UNCHANGED <<keys, generation, op, purge, answered, outdated, overtaken>>

DeleteForce(h) ==
  /\ At(h, "force")
  /\ WriteTombstone(h)
  /\ StartOver
  /\ Goto(h, "record")
  /\ UNCHANGED <<keys, generation, op, purge, answered>>

\* recordIdempotency() is best effort.
Record(h) ==
  /\ At(h, "record")
  /\ \E recorded \in SUBSET {handler[h].op} : keys' = keys \cup recorded
  /\ Return(h)
  /\ AnswerOk(h)
  /\ UNCHANGED <<row, generation, op, purge, effected, outdated, overtaken>>

\* The call dies, or a request of it fails: the client may send again.
Abort(h) ==
  /\ ~At(h, "idle")
  /\ Return(h)
  /\ UNCHANGED <<row, keys, generation, op, purge, effected, answered, outdated, overtaken>>

-----------------------------------------------------------------------------
\* purgeTombstones(): the ids are collected first and deleted afterwards.
PurgeCollect ==
  /\ row.deleted
  /\ ~purge
  /\ purge' = TRUE
  /\ UNCHANGED <<row, keys, generation, op, handler, effected, answered, outdated, overtaken>>

PurgeDelete ==
  /\ purge
  /\ purge' = FALSE
  /\ row' = Absent
  /\ StartOver
  /\ UNCHANGED <<keys, generation, op, handler, effected, answered>>

\* incrementSyncGeneration(), on a company reset.
Reset ==
  /\ \E current \in GenerationRead :
       current < MaxGeneration /\ generation' = current + 1
  /\ UNCHANGED <<row, keys, op, handler, purge, effected, answered, outdated, overtaken>>

HandlerStep(h) ==
  \/ CheckStale(h) \/ CheckIdempotency(h)
  \/ Patch(h) \/ Reread(h) \/ Create(h)
  \/ DeleteRead(h) \/ DeletePatch(h) \/ DeleteForce(h)
  \/ Record(h) \/ Abort(h)

Next ==
  \/ \E o \in Ops, kind \in Kinds : Submit(o, kind)
  \/ \E h \in Handlers, o \in Ops : Receive(h, o)
  \/ \E h \in Handlers : HandlerStep(h)
  \/ PurgeCollect \/ PurgeDelete
  \/ Reset

Spec == Init /\ [][Next]_vars

-----------------------------------------------------------------------------
\* The versions a write may start from.
Bases == 0..(MaxVersion - 1)

Operation == [kind: {"none", "create", "update", "delete"}, base: Bases,
              gen: 0..MaxGeneration, content: SUBSET Ops]
Handler == [pc: {"idle", "stale", "seen", "write", "reread", "create", "tombstone", "force", "record"},
            op: Ops \cup {None}, seen: Bases, data: SUBSET Ops]

\* Every variable keeps the shape the code gives it.
TypeOK ==
  /\ row \in Row
  /\ keys \subseteq Ops
  /\ generation \in 1..MaxGeneration
  /\ op \in [Ops -> Operation]
  /\ handler \in [Handlers -> Handler]
  /\ \A h \in Handlers : handler[h].pc # "idle" => handler[h].op \in Ops
  /\ purge \in BOOLEAN
  /\ effected \subseteq Ops
  /\ answered \subseteq Ops
  /\ outdated \subseteq Ops
  /\ overtaken \subseteq Handlers

\* No operation is acknowledged, or remembered as processed, before its write
\* has reached the row: a replayed answer is never a false success.
AcknowledgedIsEffected == answered \cup keys \subseteq effected

\* Updates of an existing row are linear: each takes effect at most once,
\* whatever is resent, and on top of all that took effect before it, although
\* the idempotency check is best effort (upsertRow: "If zero rows are updated,
\* the version moved").
Linear == INSTANCE VersionedRow WITH Updates <- Ops, content <- row.content, done <- effected

UpdatesAreLinear == Linear!RowSpec

\* A write that carries no version only ever creates a row: it never replaces
\* one that exists, live or deleted.
UnversionedOnlyCreates ==
  [][\A h \in Handlers :
       At(h, "create") /\ handler'[h].pc = "record" /\ op[handler[h].op].base = 0 => ~Exists]_vars

\* A write under a version condition never drops what the row contains,
\* whatever creates, forced deletes, purges and resends run beside it: an
\* update, or a delete, replaces the row only while it is the one that was
\* read.  Except that a row which is created again counts its versions from 1
\* again, and one read before may then match another row's version.
ConditionalWrite(h) ==
  \/ At(h, "write") /\ op[handler[h].op].kind = "update" /\ handler[h].op \notin outdated
  \/ At(h, "tombstone") /\ h \notin overtaken

ConditionalWritesKeep ==
  [][\A h \in Handlers :
       handler'[h] # handler[h] /\ ConditionalWrite(h) => row.content \subseteq row'.content]_vars
=============================================================================
