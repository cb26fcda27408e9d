-------------------------- MODULE DurableSyncQueue --------------------------
(***************************************************************************)
(* The durable queue of one browser tab                                    *)
(* (frontend/services/durableSyncQueue.ts): the IndexedDB `operations`     *)
(* store, the in-memory registry of send claims, the persisted             *)
(* authorization block, and the operations the application itself calls:   *)
(* enqueue, retryDeadLetter and cleanup.  The sync engine that drains the  *)
(* queue is in BackgroundSync, which extends this module.                  *)
(*                                                                         *)
(* Grain.  IndexedDB runs one request at a time and an async function only *)
(* yields at an await, so one action is one IndexedDB request together     *)
(* with the synchronous code that follows it.  enqueue() reads the active  *)
(* rows in one action and writes what it decided in later ones; whatever   *)
(* another caller writes in between is overwritten, as in the code.  The   *)
(* store is shared by the tabs of the origin, so an enqueue() may belong to*)
(* a tab the browser suspends between two of its requests.                 *)
(*                                                                         *)
(* Abstractions.  A row id is a number and createdAt its order.  A payload *)
(* is the set of edits the saved copy of the record contains: db.put()     *)
(* queues the whole record, so a save carries the earlier saves of the     *)
(* same record.  A sync generation is only present (stamped) or missing.   *)
(* retryCount saturates at MaxRetries, the only value it is compared with. *)
(* File uploads (fileRef) and the telemetry stores are left out.           *)
(***************************************************************************)
EXTENDS Naturals, FiniteSets

CONSTANTS
  Records,      \* (table, recordId) pairs
  Edits,        \* the edits a user makes to a record
  Writers,      \* concurrent enqueue() calls, of this tab or of another
  Upkeep,       \* concurrent retryDeadLetter() and cleanup() calls
  MaxRows,      \* bound: rows ever created
  MaxLeft,      \* bound: rows an earlier session left in the store
  MaxRetries,   \* MAX_RETRIES of retryFailed()
  Background,   \* BACKGROUND_SEND_OWNER
  None          \* no owner

ASSUME QueueAssumption ==
  /\ Records # {}
  /\ MaxRows \in Nat
  /\ MaxLeft \in 0..MaxRows
  /\ MaxRetries \in Nat \ {0}
  /\ Background \notin Records
  /\ None \notin Records \cup {Background}

VARIABLES
  operations,   \* the IndexedDB store
  created,      \* rows created so far
  sendClaims,   \* sendClaims: which sender owns a row
  authBlocked,  \* the sync_auth_blocked_at meta record
  enqueues,     \* the enqueue() calls in progress
  upkeep,       \* the retryDeadLetter() and cleanup() calls in progress
  saved,        \* the edits the local copy of a record contains
  accepted      \* history: the edits whose enqueue() has returned

queueVars == <<operations, created, sendClaims, authBlocked, enqueues, upkeep, saved, accepted>>

-----------------------------------------------------------------------------
Rows == 1..MaxRows
Owners == Records \cup {Background}

Kinds == {"upsert", "delete"}
Active == {"pending", "syncing", "failed"}
Statuses == Active \cup {"absent", "completed", "dead_letter"}
ErrorTypes == {"none", "retryable", "permanent", "unauthorized"}

Row == [rec: Records, kind: Kinds, payload: SUBSET Edits, stamped: BOOLEAN,
        status: Statuses, retries: 0..MaxRetries, err: ErrorTypes,
        deps: SUBSET Rows]

NewRow(x, kind, payload, deps) ==
  [rec |-> x, kind |-> kind, payload |-> payload, stamped |-> TRUE,
   status |-> "pending", retries |-> 0, err |-> "none", deps |-> deps]

\* A slot of the store that holds no row.
NoRow == [NewRow(CHOOSE x \in Records : TRUE, "upsert", {}, {}) EXCEPT !.status = "absent"]

\* A row an earlier session left: pending, failed, or syncing when the tab was
\* closed; an older build left rows without a generation.
LeftRow(x, stamped, status, err) ==
  [NewRow(x, "upsert", {}, {}) EXCEPT !.stamped = stamped, !.status = status, !.err = err]

LeftRows ==
  {LeftRow(x, stamped, status, "none") : x \in Records, stamped \in BOOLEAN,
                                         status \in {"pending", "syncing"}}
  \cup {LeftRow(x, stamped, "failed", err) : x \in Records, stamped \in BOOLEAN,
                                            err \in {"retryable", "unauthorized"}}

WithStatus(S) == {r \in Rows : operations[r].status \in S}

\* What one read of the store returns for the rows in S.
Snapshot(S) == [r \in Rows |-> IF r \in S THEN operations[r] ELSE NoRow]

-----------------------------------------------------------------------------
(***************************************************************************)
(* What each operation makes of the row it has read.                       *)
(***************************************************************************)
Quarantined(row) == [row EXCEPT !.status = "dead_letter", !.err = "permanent"]

Syncing(row) == [row EXCEPT !.status = "syncing"]

Pending(row) == [row EXCEPT !.status = "pending"]

Merged(row, payload) == [row EXCEPT !.payload = @ \cup payload]

\* Mutant: the error type is stored as the status.
SettledAsErrorType(row, result) ==
  [row EXCEPT !.status = IF result = "ok" THEN "completed" ELSE result]

\* markCompleted, markFailed and deadLetter; a conflict is a retryable error.
Settled(row, result) ==
  IF result = "ok" THEN [row EXCEPT !.status = "completed", !.retries = 0]
  ELSE [row EXCEPT !.status  = IF result = "permanent" THEN "dead_letter" ELSE "failed",
                   !.retries = IF @ < MaxRetries THEN @ + 1 ELSE @,
                   !.err     = IF result = "conflict" THEN "retryable" ELSE result]

\* Mutant: no retry budget.
RetriedForever(row) == IF ~row.stamped THEN Quarantined(row) ELSE Pending(row)

\* Mutant: a row whose budget is spent is left where it is.
RetriedOrLeft(row) == IF row.retries >= MaxRetries THEN row ELSE RetriedForever(row)

\* retryFailed, for a row it does not skip.
Retried(row) ==
  IF ~row.stamped THEN Quarantined(row)
  ELSE IF row.retries >= MaxRetries
       THEN [row EXCEPT !.status = "dead_letter", !.err = "permanent"]
       ELSE Pending(row)

\* resumeAfterAuth
Resumed(row) == [row EXCEPT !.status = "pending", !.err = "none"]

\* retryDeadLetter: a row without a generation only gets an explanation.
Revived(row) ==
  IF row.stamped THEN [row EXCEPT !.status = "pending", !.retries = 0, !.err = "none"] ELSE row

-----------------------------------------------------------------------------
NoSnapshot == [r \in Rows |-> NoRow]

IdleCall ==
  [pc |-> "idle", rec |-> NoRow.rec, edits |-> {}, quarantine |-> {}, drop |-> {},
   target |-> 0, value |-> NoRow, snap |-> NoSnapshot]

\* row 0: the call is over.
IdleUpkeep == [row |-> 0, value |-> NoRow]

QueueInit ==
  /\ created \in 0..MaxLeft
  /\ \E left \in [1..created -> LeftRows] :
       operations = [r \in Rows |-> IF r <= created THEN left[r] ELSE NoRow]
  /\ sendClaims = [r \in Rows |-> None]
  /\ authBlocked = FALSE
  /\ enqueues = [w \in Writers |-> IdleCall]
  /\ upkeep = [m \in Upkeep |-> IdleUpkeep]
  /\ saved = [x \in Records |-> {}]
  /\ accepted = [x \in Records |-> {}]

-----------------------------------------------------------------------------
(***************************************************************************)
(* enqueue().  The first action reads the pending, syncing and failed rows *)
(* of the record and decides everything; the writes follow one by one.     *)
(***************************************************************************)
Decide(w, x, edits, quarantine, drop, target, value) ==
  enqueues' = [enqueues EXCEPT ![w] =
    [pc |-> "writing", rec |-> x, edits |-> edits, quarantine |-> quarantine,
     drop |-> drop, target |-> target, value |-> value, snap |-> Snapshot(quarantine)]]

\* Merging prefers a pending row to a failed one.
MergeTargets(S) ==
  LET pending == {r \in S : operations[r].status = "pending"}
  IN  IF pending # {} THEN pending ELSE S

EnqueueRead(w, x, kind, payload) ==
  LET seen    == {r \in WithStatus(Active) : operations[r].rec = x}
      unsafe  == {r \in seen : ~operations[r].stamped /\ operations[r].status # "syncing"}
      usable  == seen \ unsafe
      same    == {r \in usable : operations[r].kind = kind /\ operations[r].payload = payload}
      upserts == {r \in usable : operations[r].kind = "upsert"}
      idle    == {r \in upserts : operations[r].status # "syncing"}
      foldable == IF kind = "upsert" THEN MergeTargets(idle) ELSE {}
      drop    == IF kind = "delete" THEN idle ELSE {}
      deps    == IF kind = "delete" THEN upserts \ idle ELSE {}
  IN  /\ enqueues[w].pc = "idle"
      /\ \/ /\ same # {}
            /\ Decide(w, x, payload, unsafe, {}, 0, NoRow)
            /\ UNCHANGED created
         \/ /\ same = {}
            /\ \E r \in foldable :
                 Decide(w, x, payload, unsafe, {}, r, Merged(operations[r], payload))
            /\ UNCHANGED created
         \/ /\ same = {} /\ foldable = {}
            /\ created < MaxRows
            /\ created' = created + 1
            /\ Decide(w, x, payload, unsafe, drop, created + 1, NewRow(x, kind, payload, deps))
      /\ UNCHANGED <<operations, sendClaims, authBlocked, upkeep, accepted>>

\* db.put(): the local copy is written first, then the whole record is queued.
Save(w, x, e) ==
  /\ EnqueueRead(w, x, "upsert", saved[x] \cup {e})
  /\ saved' = [saved EXCEPT ![x] = @ \cup {e}]

Delete(w, x) ==
  /\ saved[x] # {}
  /\ EnqueueRead(w, x, "delete", {})
  /\ saved' = [saved EXCEPT ![x] = {}]

EnqueueQuarantine(w) ==
  /\ enqueues[w].pc = "writing"
  /\ \E r \in enqueues[w].quarantine :
       /\ operations' = [operations EXCEPT ![r] = Quarantined(enqueues[w].snap[r])]
       /\ enqueues' = [enqueues EXCEPT ![w].quarantine = @ \ {r}, ![w].snap[r] = NoRow]
  /\ UNCHANGED <<created, sendClaims, authBlocked, upkeep, saved, accepted>>

EnqueueDrop(w) ==
  /\ enqueues[w].pc = "writing"
  /\ enqueues[w].quarantine = {}
  /\ \E r \in enqueues[w].drop :
       /\ operations' = [operations EXCEPT ![r] = NoRow]
       /\ enqueues' = [enqueues EXCEPT ![w].drop = @ \ {r}]
  /\ UNCHANGED <<created, sendClaims, authBlocked, upkeep, saved, accepted>>

\* The last write, and the return to the caller.  A delete supersedes every
\* edit accepted before it.
EnqueueReturn(w) ==
  LET call == enqueues[w]
  IN  /\ call.pc = "writing"
      /\ call.quarantine = {} /\ call.drop = {}
      /\ operations' = IF call.target = 0 THEN operations
                       ELSE [operations EXCEPT ![call.target] = call.value]
      /\ enqueues' = [enqueues EXCEPT ![w] = IdleCall]
      /\ accepted' = [accepted EXCEPT ![call.rec] =
                        IF call.edits = {} THEN {} ELSE @ \cup call.edits]
      /\ UNCHANGED <<created, sendClaims, authBlocked, upkeep, saved>>

-----------------------------------------------------------------------------
(***************************************************************************)
(* retryDeadLetter(), called from the SyncHealth page and the recovery     *)
(* tools, and cleanup() of a row past its retention, on its timer: each    *)
(* reads the row and writes or deletes it in a later request.  What a dead *)
(* letter carried when it is deleted is given up for good.                 *)
(***************************************************************************)
Keep(m, r, value) ==
  /\ upkeep[m].row = 0
  /\ upkeep' = [upkeep EXCEPT ![m] = [row |-> r, value |-> value]]
  /\ UNCHANGED <<operations, created, sendClaims, authBlocked, enqueues, saved, accepted>>

RetryDeadLetter(m, r) ==
  /\ operations[r].status = "dead_letter"
  /\ Keep(m, r, Revived(operations[r]))

Cleanup(m, r) ==
  /\ operations[r].status \in {"completed", "dead_letter"}
  /\ Keep(m, r, NoRow)

UpkeepPut(m) ==
  LET r       == upkeep[m].row
      givenUp == upkeep[m].value = NoRow /\ operations[r].status = "dead_letter"
  IN  /\ r # 0
      /\ operations' = [operations EXCEPT ![r] = upkeep[m].value]
      /\ accepted' = IF givenUp
                     THEN [accepted EXCEPT ![operations[r].rec] = @ \ operations[r].payload]
                     ELSE accepted
      /\ upkeep' = [upkeep EXCEPT ![m] = IdleUpkeep]
      /\ UNCHANGED <<created, sendClaims, authBlocked, enqueues, saved>>

QueueNext ==
  \/ \E w \in Writers, x \in Records, e \in Edits : Save(w, x, e)
  \/ \E w \in Writers, x \in Records : Delete(w, x)
  \/ \E w \in Writers : EnqueueQuarantine(w) \/ EnqueueDrop(w) \/ EnqueueReturn(w)
  \/ \E m \in Upkeep, r \in Rows : RetryDeadLetter(m, r) \/ Cleanup(m, r)
  \/ \E m \in Upkeep : UpkeepPut(m)

-----------------------------------------------------------------------------
Call == [pc: {"idle", "writing"}, rec: Records, edits: SUBSET Edits,
         quarantine: SUBSET Rows, drop: SUBSET Rows, target: Rows \cup {0},
         value: Row, snap: [Rows -> Row]]

\* Every variable of the queue has the shape the code gives it.
QueueTypeOK ==
  /\ operations \in [Rows -> Row]
  /\ created \in 0..MaxRows
  /\ sendClaims \in [Rows -> Owners \cup {None}]
  /\ authBlocked \in BOOLEAN
  /\ enqueues \in [Writers -> Call]
  /\ upkeep \in [Upkeep -> [row: Rows \cup {0}, value: Row]]
  /\ saved \in [Records -> SUBSET Edits]
  /\ accepted \in [Records -> SUBSET Edits]
=============================================================================
