--------------------------- MODULE BackgroundSync ---------------------------
(***************************************************************************)
(* The sync engine of one tab on top of its durable queue                  *)
(* (frontend/services/backgroundSyncService.ts): the background cycle      *)
(* syncOnce/processBatch, the inline flush of one record                   *)
(* (flushSalesOrderNow), the resumption after a login                      *)
(* (AuthContext.resumeSyncAfterAuth) and a restart of the tab              *)
(* (initialize).  The cycle, the flushes, the login and the enqueue() calls*)
(* of DurableSyncQueue interleave at every await.                          *)
(*                                                                         *)
(* The gateway answers each operation of a batch with "ok", "conflict",    *)
(* "retryable" or "permanent", or the request as a whole fails after any   *)
(* part of it was applied; an operation whose id it has recorded is        *)
(* answered "ok" without being applied again, and recording is best effort.*)
(* CloudGateway models what decides the answer.                            *)
(***************************************************************************)
EXTENDS DurableSyncQueue

CONSTANTS
  FlushRecords,   \* the records an inline flush may be asked for
  Logins,         \* concurrent resumeSyncAfterAuth() calls
  BatchSize,      \* the limit passed to dequeue()
  MaxBatches,     \* maxBatches of syncOnce()
  MaxRestarts     \* bound: restarts of the tab

ASSUME EngineAssumption ==
  /\ FlushRecords \subseteq Records
  /\ BatchSize \in Nat \ {0}
  /\ MaxBatches \in Nat \ {0}
  /\ MaxRestarts \in Nat

VARIABLES
  cycle,      \* the background cycle; pc # "idle" is the activeSync lock
  flush,      \* the inline flush of each record
  login,      \* the resumeSyncAfterAuth() calls in progress
  paused,     \* the engine's paused flag
  applied,    \* history: the edits the gateway has applied
  processed,  \* the rows whose operation id the gateway has recorded
  restarts    \* restarts so far

engineVars == <<cycle, flush, login, paused, applied, processed, restarts>>
vars == <<queueVars, engineVars>>

-----------------------------------------------------------------------------
Answers == {"ok", "conflict", "retryable", "permanent"}
Failures == {"retryable", "permanent", "unauthorized"}
Results == Answers \cup Failures

IdleCycle ==
  [pc |-> "idle", snap |-> NoSnapshot, todo |-> {}, batch |-> {},
   result |-> [r \in Rows |-> "ok"], left |-> 0]

IdleFlush == [pc |-> "idle", row |-> 0, sent |-> NoRow, value |-> NoRow, result |-> "ok"]

IdleLogin == [pc |-> "idle", snap |-> NoSnapshot, todo |-> {}, any |-> FALSE]

Init ==
  /\ QueueInit
  /\ cycle = IdleCycle
  /\ flush = [x \in FlushRecords |-> IdleFlush]
  /\ login = [u \in Logins |-> IdleLogin]
  /\ paused = FALSE
  /\ applied = [x \in Records |-> {}]
  /\ processed = {}
  /\ restarts = 0

\* The senders with a request for row r in transit, and the copies they sent.
FlushSends(x, r) == flush[x].pc = "send" /\ flush[x].row = r

Transit(r) ==
  (IF cycle.pc = "send" /\ r \in cycle.batch THEN {Background} ELSE {})
    \cup {x \in FlushRecords : FlushSends(x, r)}

SentCopy ==
  [r \in Rows |-> IF cycle.pc = "send" /\ r \in cycle.batch THEN cycle.snap[r]
                  ELSE IF \E x \in FlushRecords : FlushSends(x, r)
                       THEN flush[CHOOSE x \in FlushRecords : FlushSends(x, r)].sent
                       ELSE NoRow]

\* The gateway handles the rows in S, whose transmitted copies are in snap.
GatewayApplies(snap, S) ==
  /\ applied' = [x \in Records |-> applied[x] \cup
                   UNION {snap[r].payload : r \in {q \in S \ processed : snap[q].rec = x}}]
  /\ \E keys \in SUBSET S : processed' = processed \cup keys

\* createdAt order: the next row of a loop over S.
Oldest(r, S) == r \in S /\ \A q \in S : r <= q

\* Mutant: every claim is dropped, whoever holds it.
FreedAll(owner) == [r \in Rows |-> None]

Freed(owner) == [r \in Rows |-> IF sendClaims[r] = owner THEN None ELSE sendClaims[r]]

KeepCalls == UNCHANGED <<created, enqueues, upkeep, saved, accepted>>

KeepQueue == KeepCalls /\ UNCHANGED authBlocked

-----------------------------------------------------------------------------
(***************************************************************************)
(* syncOnce(): admission, retryFailed(), countPending().                   *)
(***************************************************************************)
CycleStart ==
  /\ cycle.pc = "idle"
  /\ ~paused
  /\ ~authBlocked
  /\ cycle' = [cycle EXCEPT !.pc = "retryRead"]
  /\ UNCHANGED <<queueVars, flush, login, paused, applied, processed, restarts>>

\* Stamped rows that failed with 401/403 are skipped.
RetryRead ==
  LET failed == {r \in WithStatus({"failed"}) :
                   ~operations[r].stamped \/ operations[r].err # "unauthorized"}
  IN  /\ cycle.pc = "retryRead"
      /\ cycle' = [cycle EXCEPT !.pc = "retry", !.todo = failed, !.snap = Snapshot(failed)]
      /\ UNCHANGED <<queueVars, flush, login, paused, applied, processed, restarts>>

RetryPut ==
  /\ cycle.pc = "retry"
  /\ \E r \in cycle.todo :
       /\ operations' = [operations EXCEPT ![r] = Retried(cycle.snap[r])]
       /\ cycle' = [cycle EXCEPT !.todo = @ \ {r}, !.snap[r] = NoRow]
  /\ KeepQueue
  /\ UNCHANGED <<sendClaims, flush, login, paused, applied, processed, restarts>>

\* Mutant: no early return when nothing is pending.
CountPendingOnly ==
  /\ cycle.pc = "retry" /\ cycle.todo = {}
  /\ WithStatus({"pending"}) # {}
  /\ cycle' = [IdleCycle EXCEPT !.pc = "dequeue", !.left = MaxBatches]
  /\ UNCHANGED <<queueVars, flush, login, paused, applied, processed, restarts>>

CountPending ==
  /\ cycle.pc = "retry"
  /\ cycle.todo = {}
  /\ cycle' = IF WithStatus({"pending"}) = {}
              THEN [IdleCycle EXCEPT !.pc = "unwind"]
              ELSE [IdleCycle EXCEPT !.pc = "dequeue", !.left = MaxBatches]
  /\ UNCHANGED <<queueVars, flush, login, paused, applied, processed, restarts>>

(***************************************************************************)
(* dequeue(): quarantine, selection with its claims, the syncing writes.   *)
(***************************************************************************)
\* The rows dequeue() picks out of the eligible ones: oldest first, up to the
\* limit, each with its dependencies finished or in the batch before it.
IsBatch(B, eligible, snap) ==
  \A r \in eligible :
    LET before == {q \in B : q < r}
    IN  r \in B <=> /\ Cardinality(before) < BatchSize
                    /\ snap[r].deps \subseteq WithStatus({"completed", "dead_letter"}) \cup before

ClaimBatch(candidates, snap) ==
  LET eligible == {r \in candidates : sendClaims[r] = None}
  IN  \E B \in SUBSET eligible :
        /\ IsBatch(B, eligible, snap)
        /\ sendClaims' = [r \in Rows |-> IF r \in B THEN Background ELSE sendClaims[r]]
        /\ cycle' = IF B = {} THEN [IdleCycle EXCEPT !.pc = "unwind"]
                    ELSE [cycle EXCEPT !.pc = "mark", !.batch = B, !.todo = B,
                                       !.snap = [r \in Rows |-> IF r \in B THEN snap[r] ELSE NoRow]]

\* With no legacy row and no dependency there is no await before the claims.
DequeueRead ==
  LET pending == WithStatus({"pending"})
      legacy  == {r \in pending : ~operations[r].stamped}
      direct  == legacy = {} /\ \A r \in pending : operations[r].deps = {}
  IN  /\ cycle.pc = "dequeue"
      /\ cycle.left > 0
      /\ \/ direct /\ ClaimBatch(pending, operations)
         \/ /\ ~direct
            /\ cycle' = [cycle EXCEPT !.pc = "select", !.todo = legacy, !.snap = Snapshot(pending)]
            /\ UNCHANGED sendClaims
      /\ KeepQueue
      /\ UNCHANGED <<operations, flush, login, paused, applied, processed, restarts>>

DequeueQuarantine ==
  /\ cycle.pc = "select"
  /\ \E r \in cycle.todo :
       /\ operations' = [operations EXCEPT ![r] = Quarantined(cycle.snap[r])]
       /\ cycle' = [cycle EXCEPT !.todo = @ \ {r}]
  /\ KeepQueue
  /\ UNCHANGED <<sendClaims, flush, login, paused, applied, processed, restarts>>

\* Mutant: the quarantined rows stay candidates.
SelectWithLegacy ==
  /\ cycle.pc = "select" /\ cycle.todo = {}
  /\ ClaimBatch({r \in Rows : cycle.snap[r].status = "pending"}, cycle.snap)
  /\ KeepQueue
  /\ UNCHANGED <<operations, flush, login, paused, applied, processed, restarts>>

\* The finished ids are read now; the pending rows were read before.
DequeueSelect ==
  /\ cycle.pc = "select"
  /\ cycle.todo = {}
  /\ ClaimBatch({r \in Rows : cycle.snap[r].status = "pending" /\ cycle.snap[r].stamped}, cycle.snap)
  /\ KeepQueue
  /\ UNCHANGED <<operations, flush, login, paused, applied, processed, restarts>>

MarkSyncing ==
  /\ cycle.pc = "mark"
  /\ \E r \in cycle.todo :
       /\ Oldest(r, cycle.todo)
       /\ operations' = [operations EXCEPT ![r] = Syncing(cycle.snap[r])]
       /\ cycle' = [cycle EXCEPT !.todo = @ \ {r}, !.pc = IF cycle.todo = {r} THEN "send" ELSE @]
  /\ KeepQueue
  /\ UNCHANGED <<sendClaims, flush, login, paused, applied, processed, restarts>>

(***************************************************************************)
(* processBatch(): one request for the batch, then one settlement per row. *)
(***************************************************************************)
BatchAnswered ==
  /\ cycle.pc = "send"
  /\ \E answer \in [cycle.batch -> Answers] :
       /\ GatewayApplies(cycle.snap, {r \in cycle.batch : answer[r] = "ok"})
       /\ cycle' = [cycle EXCEPT !.pc = "settle", !.todo = cycle.batch, !.snap = NoSnapshot,
                      !.result = [r \in Rows |-> IF r \in cycle.batch THEN answer[r] ELSE "ok"]]
  /\ UNCHANGED <<queueVars, flush, login, paused, restarts>>

\* The request fails after the gateway applied any part of the batch.  A
\* 401/403 is refused before anything is applied; it blocks and pauses the engine.
BatchFailed ==
  /\ cycle.pc = "send"
  /\ \E why \in Failures, done \in SUBSET cycle.batch :
       /\ why = "unauthorized" => done = {}
       /\ GatewayApplies(cycle.snap, done)
       /\ authBlocked' = (authBlocked \/ why = "unauthorized")
       /\ paused' = (paused \/ why = "unauthorized")
       /\ cycle' = [cycle EXCEPT !.pc = "settle", !.todo = cycle.batch, !.snap = NoSnapshot,
                      !.result = [r \in Rows |-> IF r \in cycle.batch THEN why ELSE "ok"]]
  /\ UNCHANGED <<operations, created, sendClaims, enqueues, upkeep, saved, accepted, flush, login,
                 restarts>>

\* settleItem() has returned for row r.  After markCompleted it evaluates the
\* undeclared name conflictOutcome: the exception leaves processBatch, and
\* syncOnce catches it.
AfterSettling(r) ==
  cycle' = IF cycle.result[r] = "ok" THEN [IdleCycle EXCEPT !.pc = "unwind"]
           ELSE IF cycle.todo = {r} THEN [IdleCycle EXCEPT !.pc = "dequeue", !.left = cycle.left - 1]
           ELSE [cycle EXCEPT !.pc = "settle", !.todo = @ \ {r}, !.snap = NoSnapshot,
                              !.result[r] = "ok"]

\* Mutant: settling a row does not release it.
KeepClaim(r) == UNCHANGED sendClaims

DropClaim(r) == sendClaims' = [sendClaims EXCEPT ![r] = IF @ = Background THEN None ELSE @]

\* A row that is gone or already terminal is left alone.
SettleRead ==
  /\ cycle.pc = "settle"
  /\ \E r \in cycle.todo :
       /\ Oldest(r, cycle.todo)
       /\ IF operations[r].status \in Active
          THEN /\ cycle' = [cycle EXCEPT !.pc = "settlePut", !.snap = Snapshot({r})]
               /\ UNCHANGED sendClaims
          ELSE AfterSettling(r) /\ DropClaim(r)
  /\ KeepQueue
  /\ UNCHANGED <<operations, flush, login, paused, applied, processed, restarts>>

SettlePut ==
  /\ cycle.pc = "settlePut"
  /\ \E r \in cycle.todo :
       /\ Oldest(r, cycle.todo)
       /\ operations' = [operations EXCEPT ![r] = Settled(cycle.snap[r], cycle.result[r])]
       /\ AfterSettling(r)
       /\ DropClaim(r)
  /\ KeepQueue
  /\ UNCHANGED <<flush, login, paused, applied, processed, restarts>>

BatchesExhausted ==
  /\ cycle.pc = "dequeue"
  /\ cycle.left = 0
  /\ cycle' = [IdleCycle EXCEPT !.pc = "unwind"]
  /\ UNCHANGED <<queueVars, flush, login, paused, applied, processed, restarts>>

\* The finally block: release what the cycle still claims, then the lock.
Unwind ==
  /\ cycle.pc = "unwind"
  /\ sendClaims' = Freed(Background)
  /\ cycle' = IdleCycle
  /\ KeepQueue
  /\ UNCHANGED <<operations, flush, login, paused, applied, processed, restarts>>

\* One step of the cycle the timer started.
CycleProgress ==
  \/ RetryRead \/ RetryPut \/ CountPending
  \/ DequeueRead \/ DequeueQuarantine \/ DequeueSelect \/ MarkSyncing
  \/ BatchAnswered \/ BatchFailed \/ SettleRead \/ SettlePut
  \/ BatchesExhausted \/ Unwind

-----------------------------------------------------------------------------
(***************************************************************************)
(* flushSalesOrderNow(x): claimForSend(), one request, settleSendClaim().  *)
(* The owner tag is the record.  A call that claims nothing changes no     *)
(* state (it waits for the owner by reading) and is left out.              *)
(***************************************************************************)
Newest(r, S) == r \in S /\ \A q \in S : q <= r

ReleaseFlush(x) ==
  /\ flush' = [flush EXCEPT ![x] = IdleFlush]
  /\ sendClaims' = [sendClaims EXCEPT ![flush[x].row] = IF @ = x THEN None ELSE @]

\* A syncing row nobody claims is an orphan of a dead sender and is stolen.
FlushClaim(x) ==
  /\ flush[x].pc = "idle"
  /\ ~paused
  /\ \E r \in Rows :
       /\ Newest(r, {q \in WithStatus(Active) : operations[q].rec = x})
       /\ operations[r].stamped
       /\ sendClaims[r] = None
       /\ sendClaims' = [sendClaims EXCEPT ![r] = x]
       /\ flush' = [flush EXCEPT ![x].pc = "get", ![x].row = r]
  /\ KeepQueue
  /\ UNCHANGED <<operations, cycle, login, paused, applied, processed, restarts>>

FlushGet(x) ==
  LET row == operations[flush[x].row]
  IN  /\ flush[x].pc = "get"
      /\ IF row.status \in Active
         THEN /\ flush' = [flush EXCEPT ![x].pc = "mark", ![x].sent = row]
              /\ UNCHANGED sendClaims
         ELSE ReleaseFlush(x)
      /\ KeepQueue
      /\ UNCHANGED <<operations, cycle, login, paused, applied, processed, restarts>>

FlushMark(x) ==
  /\ flush[x].pc = "mark"
  /\ operations' = [operations EXCEPT ![flush[x].row] = Syncing(flush[x].sent)]
  /\ flush' = [flush EXCEPT ![x].pc = "send"]
  /\ KeepQueue
  /\ UNCHANGED <<sendClaims, cycle, login, paused, applied, processed, restarts>>

FlushAnswered(x) ==
  /\ flush[x].pc = "send"
  /\ \E answer \in Answers :
       /\ flush' = [flush EXCEPT ![x].pc = "settle", ![x].result = answer]
       /\ GatewayApplies(SentCopy, IF answer = "ok" THEN {flush[x].row} ELSE {})
  /\ UNCHANGED <<queueVars, cycle, login, paused, restarts>>

\* Unlike the batch, a 401/403 blocks the queue but does not pause the engine.
FlushFailed(x) ==
  /\ flush[x].pc = "send"
  /\ \E why \in Failures :
       /\ flush' = [flush EXCEPT ![x].pc = "settle", ![x].result = why]
       /\ authBlocked' = (authBlocked \/ why = "unauthorized")
       /\ \/ GatewayApplies(SentCopy, {})
          \/ why # "unauthorized" /\ GatewayApplies(SentCopy, {flush[x].row})
  /\ UNCHANGED <<operations, created, sendClaims, enqueues, upkeep, saved, accepted, cycle, login,
                 paused, restarts>>

\* settleSendClaim(): a row that is no longer syncing, or no longer claimed,
\* is left alone; one whose payload changed goes back to pending.
FlushSettle(x) ==
  LET row     == operations[flush[x].row]
      changed == row.payload # flush[x].sent.payload
      defer   == flush[x].result = "conflict"
      mine    == row.status = "syncing" /\ sendClaims[flush[x].row] = x
  IN  /\ flush[x].pc = "settle"
      /\ \/ ~mine /\ ReleaseFlush(x)
         \/ /\ mine /\ (changed \/ defer)
            /\ flush' = [flush EXCEPT ![x].pc = "put",
                            ![x].value = IF changed THEN Resumed(row) ELSE Pending(row)]
            /\ UNCHANGED sendClaims
         \/ /\ mine /\ ~changed /\ ~defer
            /\ flush' = [flush EXCEPT ![x].pc = "reget"]
            /\ UNCHANGED sendClaims
      /\ KeepQueue
      /\ UNCHANGED <<operations, cycle, login, paused, applied, processed, restarts>>

\* Mutant: a row that became terminal is waited for.
RegetActive(x) ==
  LET row == operations[flush[x].row]
  IN  /\ flush[x].pc = "reget" /\ row.status \in Active
      /\ flush' = [flush EXCEPT ![x].pc = "put", ![x].value = Settled(row, flush[x].result)]
      /\ KeepQueue
      /\ UNCHANGED <<operations, sendClaims, cycle, login, paused, applied, processed, restarts>>

\* markCompleted() and markFailed() read the row again.
FlushReget(x) ==
  LET row == operations[flush[x].row]
  IN  /\ flush[x].pc = "reget"
      /\ IF row.status \in Active
         THEN /\ flush' = [flush EXCEPT ![x].pc = "put",
                              ![x].value = Settled(row, flush[x].result)]
              /\ UNCHANGED sendClaims
         ELSE ReleaseFlush(x)
      /\ KeepQueue
      /\ UNCHANGED <<operations, cycle, login, paused, applied, processed, restarts>>

FlushPut(x) ==
  /\ flush[x].pc = "put"
  /\ operations' = [operations EXCEPT ![flush[x].row] = flush[x].value]
  /\ ReleaseFlush(x)
  /\ KeepQueue
  /\ UNCHANGED <<cycle, login, paused, applied, processed, restarts>>

FlushProgress(x) ==
  \/ FlushGet(x) \/ FlushMark(x) \/ FlushAnswered(x) \/ FlushFailed(x)
  \/ FlushSettle(x) \/ FlushReget(x) \/ FlushPut(x)

-----------------------------------------------------------------------------
(***************************************************************************)
(* resumeSyncAfterAuth(): clearAuthBlocked(), then resumeAfterAuth().      *)
(***************************************************************************)
LoginStart(u) ==
  /\ login[u].pc = "idle"
  /\ authBlocked' = FALSE
  /\ login' = [login EXCEPT ![u].pc = "read"]
  /\ KeepCalls
  /\ UNCHANGED <<operations, sendClaims, cycle, flush, paused, applied, processed, restarts>>

LoginRead(u) ==
  LET held == {r \in WithStatus({"failed"}) : operations[r].err = "unauthorized"}
  IN  /\ login[u].pc = "read"
      /\ login' = [login EXCEPT ![u] =
                     [pc |-> "put", todo |-> held, snap |-> Snapshot(held), any |-> held # {}]]
      /\ UNCHANGED <<queueVars, cycle, flush, paused, applied, processed, restarts>>

LoginPut(u) ==
  /\ login[u].pc = "put"
  /\ \E r \in login[u].todo :
       /\ operations' = [operations EXCEPT ![r] = Resumed(login[u].snap[r])]
       /\ login' = [login EXCEPT ![u].todo = @ \ {r}, ![u].snap[r] = NoRow]
  /\ KeepCalls
  /\ UNCHANGED <<sendClaims, authBlocked, cycle, flush, paused, applied, processed, restarts>>

\* The block is cleared again only when some row was resumed.
LoginDone(u) ==
  /\ login[u].pc = "put"
  /\ login[u].todo = {}
  /\ authBlocked' = (authBlocked /\ ~login[u].any)
  /\ login' = [login EXCEPT ![u] = IdleLogin]
  /\ KeepCalls
  /\ UNCHANGED <<operations, sendClaims, cycle, flush, paused, applied, processed, restarts>>

-----------------------------------------------------------------------------
(***************************************************************************)
(* The tab is closed at any point and initialize() runs in the next one,   *)
(* before anything else touches the queue: quarantine, then the syncing    *)
(* rows older than the threshold go back to pending.  A request in transit *)
(* may still be applied; an enqueue() of another tab goes on.              *)
(***************************************************************************)
Recovered(row, old) ==
  IF row.status \in Active /\ ~row.stamped THEN Quarantined(row)
  ELSE IF row.status = "syncing" /\ old THEN Pending(row) ELSE row

Restart ==
  /\ restarts < MaxRestarts
  /\ restarts' = restarts + 1
  /\ \E done \in SUBSET {r \in Rows : Transit(r) # {}} : GatewayApplies(SentCopy, done)
  /\ \E old \in SUBSET WithStatus({"syncing"}) :
       operations' = [r \in Rows |-> Recovered(operations[r], r \in old)]
  /\ sendClaims' = [r \in Rows |-> None]
  /\ \E lost \in SUBSET Writers :
       enqueues' = [w \in Writers |-> IF w \in lost THEN IdleCall ELSE enqueues[w]]
  /\ upkeep' = [m \in Upkeep |-> IdleUpkeep]
  /\ cycle' = IdleCycle
  /\ flush' = [x \in FlushRecords |-> IdleFlush]
  /\ login' = [u \in Logins |-> IdleLogin]
  /\ paused' = FALSE
  /\ UNCHANGED <<created, authBlocked, saved, accepted>>

-----------------------------------------------------------------------------
FlushStep == \E x \in FlushRecords : FlushClaim(x) \/ FlushProgress(x)

LoginStep == \E u \in Logins : LoginStart(u) \/ LoginRead(u) \/ LoginPut(u) \/ LoginDone(u)

Next ==
  \/ QueueNext /\ UNCHANGED engineVars
  \/ CycleStart \/ CycleProgress
  \/ FlushStep
  \/ LoginStep
  \/ Restart

Spec == Init /\ [][Next]_vars

\* What the browser guarantees while the tab is open: the periodic timer
\* fires, a request answers or times out, an IndexedDB request completes.
Fairness ==
  /\ WF_vars(CycleStart)
  /\ WF_vars(CycleProgress)
  /\ \A x \in FlushRecords : WF_vars(FlushProgress(x))

FairSpec == Spec /\ Fairness

-----------------------------------------------------------------------------
(***************************************************************************)
(* Properties.                                                             *)
(***************************************************************************)
CyclePCs == {"idle", "retryRead", "retry", "dequeue", "select", "mark", "send",
             "settle", "settlePut", "unwind"}
FlushPCs == {"idle", "get", "mark", "send", "settle", "reget", "put"}

Cycle == [pc: CyclePCs, snap: [Rows -> Row], todo: SUBSET Rows, batch: SUBSET Rows,
          result: [Rows -> Results], left: 0..MaxBatches]
Flush == [pc: FlushPCs, row: Rows \cup {0}, sent: Row, value: Row, result: Results]
Login == [pc: {"idle", "read", "put"}, snap: [Rows -> Row], todo: SUBSET Rows, any: BOOLEAN]

\* Every variable keeps the shape the code gives it: statuses, error types
\* and retry counts stay in range, and the actors' local state is of its type.
TypeOK ==
  /\ QueueTypeOK
  /\ cycle \in Cycle
  /\ cycle.pc \in {"select", "mark", "send", "settle", "settlePut"} => cycle.left > 0
  /\ flush \in [FlushRecords -> Flush]
  /\ \A x \in FlushRecords : flush[x].pc # "idle" => flush[x].row \in Rows
  /\ login \in [Logins -> Login]
  /\ paused \in BOOLEAN
  /\ applied \in [Records -> SUBSET Edits]
  /\ processed \subseteq Rows
  /\ restarts \in 0..MaxRestarts

\* The claim registry and the senders agree (dequeue, claimForSend and the two
\* releases): the cycle holds the claim of every row it has yet to settle, a
\* flush holds the claim of its row, and nobody holds any other claim.
HeldByCycle(r) ==
  \/ cycle.pc \in {"mark", "send"} /\ r \in cycle.batch
  \/ cycle.pc \in {"settle", "settlePut"} /\ r \in cycle.todo

HeldByFlush(x, r) == flush[x].pc # "idle" /\ flush[x].row = r

ClaimsAgree ==
  \A r \in Rows :
    /\ HeldByCycle(r) => sendClaims[r] = Background
    /\ sendClaims[r] = Background => HeldByCycle(r) \/ cycle.pc = "unwind"
    /\ \A x \in FlushRecords : HeldByFlush(x, r) => sendClaims[r] = x
    /\ \A x \in Records : sendClaims[r] = x => x \in FlushRecords /\ HeldByFlush(x, r)

\* The claim registry implements SendOwnership: however the background cycle
\* and the inline flushes interleave, one sender at a time owns a row and only
\* the owner has a request for it in transit ("at most one sender may own a
\* specific queue operation at a time", durableSyncQueue.ts:287).
Ownership == INSTANCE SendOwnership WITH
  Operations <- Rows, Senders <- Owners, Nobody <- None,
  owner <- sendClaims, transit <- [r \in Rows |-> Transit(r)]

SingleSender == Ownership!OwnershipSpec

\* A row without a generation is never transmitted, whatever path makes it
\* actionable: dequeue's selection, a stale write of an older read, a stolen
\* orphan, a restart.
LegacyNeverSent ==
  \A r \in Rows : Transit(r) # {} => operations[r].stamped /\ SentCopy[r].stamped

\* The cycle's lock is released on every path, the exception one included.
LockReleased == []<>(cycle.pc = "idle")

\* An inline flush ends and gives its row back.
FlushEnds == \A x \in FlushRecords : flush[x].pc # "idle" ~> flush[x].pc = "idle"

\* A transient failure never parks a row: it is retried or escalated, unless
\* the engine is paused or blocked (retryFailed runs before countPending).
FailuresAreRetried ==
  \A r \in Rows :
    operations[r].status = "failed" /\ operations[r].err = "retryable"
      ~> operations[r].status # "failed" \/ operations[r].err # "retryable" \/ paused \/ authBlocked

-----------------------------------------------------------------------------
(***************************************************************************)
(* What the comments and tests say and the code does not do.               *)
(***************************************************************************)
\* When a cycle ends, every row it dequeued has settled.
CycleSettlesItsRows ==
  [][cycle.pc = "unwind" /\ cycle'.pc = "idle" =>
       \A r \in Rows : operations[r].status = "syncing" => sendClaims'[r] # None]_vars

Deleting(x) == \E w \in Writers : enqueues[w].pc = "writing" /\ enqueues[w].rec = x /\ enqueues[w].edits = {}

\* An edit whose enqueue() returned has reached the gateway or is in a row that
\* can still be sent: an edit merged while a send is in progress is not lost.
NoEditLost ==
  \A x \in Records : Deleting(x) \/
    accepted[x] \subseteq applied[x] \cup
      UNION {operations[r].payload : r \in {q \in WithStatus(Active \cup {"dead_letter"}) :
                                             operations[q].rec = x}}

\* A resend whose operation id is already recorded carries nothing the gateway
\* has not applied: answering it without applying it is safe.
ReplaySafe ==
  \A r \in processed :
    Transit(r) # {} => SentCopy[r].payload \subseteq applied[SentCopy[r].rec]

\* A login that resumes operations refused with 401/403 leaves the engine running.
LoginUnpauses ==
  [][\A u \in Logins : login[u].any /\ login'[u].pc = "idle" => ~paused']_vars
=============================================================================
