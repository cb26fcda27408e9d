# Prime ERP – formal model of the synchronization core and the ledgers beside it

Prime ERP is an offline-first ERP for a print shop: a React/TypeScript client
that keeps a full local database in IndexedDB and works without a connection,
and an Express backend that owns a cloud database (Supabase/PostgREST). What
makes it more than a set of forms is the path a local edit takes to the cloud:
a durable queue, a sync engine that shares the queue with inline senders, and a
gateway that applies each operation of many devices to versioned rows, and the
path back, a cursor pull, a realtime handler and a drain of deferred merges.
Both paths are what this directory models, checks with TLC and proves with
TLAPS, with two kinds of rows about which the database and the backend promise
more than versions: sales orders, which carry official numbers, and the
append-only events of the transport budget.

## 1. The system

| Component | Code | State | Operations |
|---|---|---|---|
| Local database facade | `frontend/services/db.ts` | IndexedDB stores of records | `put`, `delete`, `bulkPut`, `executeAtomicOperation` – write locally, then `enqueue` |
| Durable sync queue | `frontend/services/durableSyncQueue.ts` | `operations` store (`pending`, `syncing`, `failed`, `completed`, `dead_letter`), the in-memory `sendClaims` map, the `sync_auth_blocked_at` meta record | `enqueue`, `dequeue`, `claimForSend`, `settleSendClaim`, `markCompleted`, `markFailed`, `deadLetter`, `retryFailed`, `resumeAfterAuth`, `retryDeadLetter`, `cleanup`, `recoverStuckSyncing`, quarantine of rows without a generation |
| Background sync engine | `frontend/services/backgroundSyncService.ts` | `activeSync` lock, `paused`, timers | `initialize`, `syncOnce`, `processBatch`, `flushSalesOrderNow` |
| Login resumption | `frontend/context/AuthContext.tsx` | – | `resumeSyncAfterAuth` |
| Cloud gateway | `backend/services/cloudSyncStore.cjs`, `backend/routes/sync.cjs` | cloud rows with `version` and tombstones, `idempotency_keys`, the `sync_generation` setting | `applyOp`, `upsertRow`, `softDeleteRow`, `purgeTombstones`, `incrementSyncGeneration` |
| Client pull | `frontend/services/syncService.ts` | the cursor `last_synced_at:<table>`, deferred ids in memory and in the queue's meta, the local table | `runPullRemoteChanges`, the realtime handler, `deferRemoteMerge`, `drainDeferredRemoteMerges` |
| Conflict resolver | `frontend/services/syncConflictResolver.ts` | none | field-wise merge |
| Sales order numbering | `backend/services/salesOrderNumbering.cjs`, `ensureSalesOrderNumber` and the re-mint in `cloudSyncStore.cjs`, the conversions of `portalLifecycleService.cjs`, migration 0027 | the counter of a series, the numbers in `sales_orders`, their unique index | claim a value, check that it is free, store it, re-mint after a unique violation |
| Transport budget | migrations 0029 to 0037, `transportBudgetEventRepository.cjs` and the producers beside it | `transport_budget_events`, advisory and row locks | `append_transport_budget_event`, the insert trigger, direct inserts of the gateway |
| HTTP idempotency | `backend/middleware/idempotency.cjs` | keys of REST requests | replay of stored answers |
| Payments and ledger | `backend/services/paymentAllocationService.cjs`, `customerLedger.cjs` | allocations, balances | allocate, reverse |
| Financial year | `backend/services/financialYearService.cjs` | year status | close, reopen, posting guards |
| Other business services | workflow engine, portal, promotions, referrals, contracts, pricing, reports | documents, counters | mostly sequential handlers over single records |

`PROJECT.json` lists every component with what is modelled of it, and every
hazard with its line.

**How they interact.** `db.put()` writes the record locally and calls
`enqueue()`, which either deduplicates, merges into a `pending`/`failed` row of
the same record, or creates a row. The timer (and navigation, visibility and
online events) calls `syncOnce()`: it retries failed rows, takes batches with
`dequeue()`, sends each batch in one request and settles every row by its
answer. Saving a sales order online calls `flushSalesOrderNow()`, which claims
that record's row with `claimForSend()` and sends it on its own. Both senders
take a row through the same registry, `sendClaims`. On the other side
`applyOp()` checks the generation, then the idempotency key, then writes the
row with one conditional PATCH, then records the key.

**What is hard.** All of it is asynchronous code over stores whose requests are
atomic one by one only: `enqueue()`, `dequeue()` and every settlement read a row
in one request and write it in another. Requests are lost after they were
applied; a tab closes with requests in transit; a session expires in the middle
of a cycle; the gateway's handlers interleave request by request and may die in
between; its idempotency record is best effort. A unit test exercises one
interleaving of these; the models explore all of them on small instances.

**What makes the components correct.**

* Queue and engine: at most one request per row in transit and only by the
  claim's owner; no row claimed for ever; a row without a sync generation never
  sent; a row sent in vain no more often than its budget until the user asks again; no
  accepted edit lost; a resend safe; the cycle
  lock always released; failures retried; the engine running again after login.
* Gateway: an update takes effect at most once, on top of what took effect
  before; nothing acknowledged before it is written; a write without a version
  never replaces a row; deletes and purges never remove newer content; nothing
  of an old generation survives a reset.
* Pull: no silent gap behind the cursor; a version tells its value; the device
  converges once the writes end and the engine lets the drain run.
* Numbering: every number given out once and borne by one order; a stored number
  stands; a number confirmed to a customer is stored.
* Transport budget: concurrent appends are as if made one after the other, so no
  allocation is given back twice and no source consumed beyond its amount; a retry
  resolves to the event it repeats; no deadlock.
* Not modelled: payments (no over-allocation), financial year (no posting into a
  closed period).

## 2. Modules

| Module | Models | Lines of argument |
|---|---|---|
| `DurableSyncQueue` | the `operations` store, `sendClaims`, the authorization block; `enqueue`, `retryDeadLetter`, `cleanup`; what every settlement makes of a row | one action per IndexedDB request |
| `BackgroundSync` (extends it) | the background cycle, inline flushes, login, restart, the gateway's answers | composes the queue with its senders |
| `RetryBudget` (extends `BackgroundSync`) | how often the cycle has really sent a row in vain since the user asked for it | history variables beside the engine's steps; they restrict none |
| `SendOwnership` | abstract: one owner per operation, only the owner transmits | implemented by `BackgroundSync` |
| `CloudGateway` | concurrent `applyOp()` calls on one row, resends, purge, reset | one action per database request |
| `VersionedRow` | abstract: updates of a row are linear | implemented by `CloudGateway` for updates |
| `ClientPull` | one table of a device: pull, realtime handler, drain, edits, reloads, beside other devices' writes and a clock of its own | one action per request of the local database or the gateway |
| `SalesOrders` | pushes and conversions that number sales orders | one action per database request |
| `NumberRegister` | abstract: values given out one by one, an order takes one nobody bears | implemented by `SalesOrders` |
| `BudgetBook` | abstract: a book of events, each appended in one checked step | implemented by `BudgetLedger` |
| `BudgetLedger` (extends it) | concurrent transactions with their locks | one action per SQL statement that sees or locks what others may change |
| `MCBackgroundSync`, `MCRetryBudget`, `MCCloudGateway`, `MCClientPull`, `MCSalesOrders`, `MCBudgetLedger` | instances for TLC | – |
| `BackgroundSyncProofs`, `SendOwnershipProofs`, `LegacyProofs`, `BudgetProofs`, `CloudGatewayProofs`, `ClientPullProofs`, `SalesOrdersProofs`, `BudgetLedgerProofs` | theorems | section 5 |

`CloudGateway`, `ClientPull`, `SalesOrders` and `BudgetLedger` meet at the cloud
row: `CloudGateway` checks that a write under a version replaces only what was
read, and the other three take a versioned write, or an insert, as one step.
`ClientPull` meets the queue at `hasPendingMutation` and takes a queued operation
and its settlement as single steps, which `BackgroundSync` refines.

### The queue and the engine

State. `operations[r]` is the row in slot `r` (`status = "absent"`: no row),
with its record, kind, payload, status, retry count (saturating at
`MaxRetries`), error type, dependencies, and whether it has a generation
(`stamped`). Slots are numbered in the order of `createdAt`. A payload is the
set of edits the saved copy of the record contained; because `db.put()` queues
the whole record, payloads of one record grow. `sendClaims[r]` is the registry;
the owner tag of an inline flush is its record (`inline-flush:<id>`).
`accepted`, `applied` and `processed` are history: edits whose `enqueue()` has
returned, edits the gateway has applied, rows whose operation id it recorded.

Grain. JavaScript runs to the next `await` without interruption, and IndexedDB
executes one request at a time, so an action is one request with the code that
follows it. Hence `EnqueueRead` (reads the active rows, decides) and
`EnqueueReturn` (writes the decision), `RetryRead`/`RetryPut`,
`DequeueRead`/`DequeueQuarantine`/`DequeueSelect`/`MarkSyncing`,
`SettleRead`/`SettlePut`, `FlushClaim`/`FlushGet`/`FlushMark`,
`FlushSettle`/`FlushReget`/`FlushPut`, `LoginRead`/`LoginPut`,
`RetryDeadLetter`/`Cleanup`/`UpkeepPut`. Each later action writes the *copy* read by the
earlier one. Three things are
coarser on purpose: the two reads of finished ids in `dequeue()` are one; a
`cleanup()` handles one of its rows per call; and `initialize()` (`Restart`) is one
action, because it runs before anything else of that tab touches the queue.

| Action | Code |
|---|---|
| `Save`, `Delete` | `db.put`, `db.delete` and the reads of `enqueue` |
| `EnqueueQuarantine`, `EnqueueDrop`, `EnqueueReturn` | the writes of `enqueue` |
| `CycleStart`, `RetryRead`, `RetryPut`, `CountPending` | admission to `syncOnce`, `retryFailed`, `countPending` |
| `DequeueRead` … `MarkSyncing` | `dequeue` |
| `BatchAnswered`, `BatchFailed` | `sendSyncOps` answers or throws in `processBatch` |
| `SettleRead`, `SettlePut`, `AfterSettling` | `settleItem` with `markCompleted`/`markFailed`/`deadLetter`, and the release |
| `Unwind` | the `finally` of `syncOnce` |
| `FlushClaim` … `FlushPut` | `flushSalesOrderNow`, `claimForSend`, `settleSendClaim` |
| `LoginStart` … `LoginDone` | `resumeSyncAfterAuth` |
| `Restart` | the tab closes; `initialize` in the next one |

The gateway answers nondeterministically (`Answers`, `Failures`); a request that
fails may have been applied, wholly or in part, except a 401/403, which is
refused before anything. A conflict is settled as a retryable failure: the
field merge of `resolveConflict` is unreachable at this commit (see section 6).

### The gateway

One row, because operations on different rows share nothing but the generation.
`op[o]` is an operation a device has created (kind, base version, generation,
content), `handler[h]` a call of `applyOp()` on its way through `stale`, `seen`,
`write`/`reread`/`create` or `tombstone`/`force`, `record`. Any call may die at
any point (`Abort`), any answer may be lost (`AnswerOk`), and until it has seen
an ok the client sends again, also while an earlier call still runs (`Receive`).
Content is the set of operations a row includes; a device edits a copy it has
read. `incrementSyncGeneration()` is one action: resets do not overlap.
`outdated` and `overtaken` are history: the writes made from what was read before
the row was last created, replaced or purged, whose version may count again from 1.

### The pull

A record is one field, a version is named by the write that made it and so is
its value. `local[r]` may therefore hold the version of one write and the value
of another, which is what the merge does when it keeps a local value and takes
the version over. Time is the server's: `cloud[r].at` and `local[r].at` are
`updated_at`, and `local[r].time` is `_updatedAt`, which `db.put()` takes from the
clock of the device: it differs from the server's by any member of `Skews`, another
one for each edit. `pass`, `drain` and `job` are the local variables of the three
writers; `deferred`, `stored`, `persistDue` and `hydrated` are the two copies of
the deferred ids and their timers.

| Action | Code |
|---|---|
| `FetchPage`, `PageFails`, `PullRow`, `EndPage`, `PassFails` | `runPullRemoteChanges`: a page, its rows, the cursor |
| `Put`, `DeleteWrite` | the writes a merge or a tombstone ends with, for each of the three writers |
| `Receive` | the realtime handler up to its write |
| `Persist`, `HydrateFails`, `StartDrain`, `DrainFetch`, `DrainBreaks`, `DrainCheck`, `DrainRead`, `DrainRowFails`, `EndDrain` | `scheduleDeferredPersist`, `ensureDeferredHydrated` and `drainDeferredRemoteMerges` |
| `EngineStops`, `EngineSettles` | a pause, a block or an exception keeps the cycles of `syncOnce` from the drain; they come to it again |
| `Edit`, `Enqueue`, `Settle` | `db.put` before and after the local write; the queue's settlement |
| `OtherDeviceWrites`, `LateWrite` | another device's write; one whose time stamp is older than one already visible |
| `Restart` | the page is closed and opened again |

`missed[r]` is history: the causes, of a closed list, by which the device has let
go of a version of `r` it lacks: `late` (a write became visible behind the
cursor), `skipped` (rows moved under the offset of a page), `crash` (a reload
before the ids were stored), `overwritten` (stored ids replaced by those in
memory before anything read them back), `unread` (the read of the stored ids failed, which
counts as none), `failed` (an error on one row), `dropped` (more than 500 ids),
`refused` (a rate limit ended the drain before it came to this table), `stale` (a
copy read before a newer one was written). `unsent` and `ahead` are history too: rows
of which an edit was given up, or was made while the clock of the device was ahead.

One table is modelled, and the drain works on all of them in turn. What the others
do to it is one step: `StartDrain` takes the ids of every table, this one's with
them, and until `DrainFetch` comes to it, an earlier table may meet the rate limit
(`DrainBreaks`), which ends the drain and leaves the ids of the later tables in no
set. A pass reads at most `PassMax` rows (`MorePages`).

### Numbering of sales orders

Of a row only the version and the number are kept. `call[c]` is a gateway call
(`Push`) or a conversion of a portal request (`Convert`), which reads the stored
number, claims, checks whether the number is taken, writes, and re-mints once
after a unique violation. `ConvertQuotation` is one action: it claims a value and
its insert is never executed (section 4). A failed request, a lost answer and a
call that dies are alternatives of each step. `blind` and `overtaken` are
history: a read of the call failed; another call wrote the order after this one
had read it.

### The transport budget

`tx[t]` is a transaction: the statement it is at, the event it appends, whether
its lock on the target found no row, the answer. `locks[t]` are the advisory
locks on a key and on a landing cost and the row lock on a target.

| Action | Code |
|---|---|
| `Call` | `appendTransportBudgetEvent`, or a push of the gateway, which starts in the trigger |
| `LockKey`, `Lookup` | the first half of `append_transport_budget_event` (migration 0037) |
| `LockTarget`, `Check`, `LockSource` | `transport_budget_events_validate_insert` (migration 0035) |
| `ReadRow` | the gateway's read of the row: one it finds is a conflict, otherwise it inserts in a later request |
| `Insert`, `Commit` | the index entries; the end of the transaction |
| `PushAgain` | the gateway's `INSERT ... ON CONFLICT (id) DO UPDATE` meets a row committed since its read: it waits for the row lock, holding what the trigger has locked |
| `Rollback`, `Return` | a lost connection, a timeout or a deadlock report; the caller has its answer |

`Drafts`, the events callers append, is a constant: the ledger's promise is to
any producer. The producers use deterministic keys (`SALES_ALLOCATION:{id}`,
`REVERSAL:{id}:VOID`, `CONSUMPTION_CORRECTION:{target}`, …), so an event and its
repetition differ in their id only, or in their economics when the document has
changed. Rows are never changed, hence a target and the events that refer to it
may be read in one step. Two keys with one 32-bit hash share a lock; that only
delays a call and is left out.

## 3. Runs

| Run | Question | Instance |
|---|---|---|
| `senders` | `TypeOK`, `ClaimsAgree`, `LegacyNeverSent`, refinement of `SendOwnership` (`SingleSender`); `LockReleased`, `FlushEnds`, `FailuresAreRetried` under `FairSpec` | one row left by an earlier session in any state, the cycle, a flush, a login, dead-letter retries and cleanups, a restart, budget 2 |
| `queue` | `ClaimsAgree`, `LegacyNeverSent`, `BudgetRespected` (of `RetryBudget`) | one record, two rows, a writer that saves and deletes, dead-letter retries and cleanups, two batches of two per cycle, budget 2 |
| `gateway_updates` | refinement of `VersionedRow` (`UpdatesAreLinear`) | three updates, two concurrent calls, resets |
| `gateway_all` | `TypeOK`, `AcknowledgedIsEffected`, `ConditionalWritesKeep` | two operations of every kind, two calls, purge and reset |
| `client_pull` | `TypeOK`, `NoSilentGap`, `VersionTellsValue`; `Converges` under `FairSpec` | two rows of which one is written, pages of one row, passes of two, two deferred ids and one id per request, a clock that is exact, behind or ahead, one write of another device, one edit, one incident (event, failure, pause, late write or reload) |
| `sales_orders` | `TypeOK`, `FreshIsUnheld`, `ConfirmedIsStored`, `NumberStands`, refinement of `NumberRegister` (`NumbersAreRegistered`) | two orders, each absent or with a number from before the counter, two calls, three versions, two values of the counter |
| `budget_ledger` | `TypeOK`, `ReversalsWithinAllocation`, `ConsumptionWithinSource`, `RetriesConverge`, `OnlyDirectOvertakes`, `NoCircularWait`, refinement of `BudgetBook` (`AppendsAreAtomic`) | fourteen events: an allocation, repeated by a device and with another amount, two reversals of it; three consumptions of one source and two corrections; an outbound consumption and two reversals; two transactions |
| `stranded`, `lost_edit`, `replay`, `login`, `gateway_create_race` | disagreements (section 4) | the smallest instance that shows each |

*Why these bounds are enough to be interesting.* Two rows are what a batch needs
for an exception between two settlements and for a dependency (`queue`); one is what
a flush and the cycle need to contend (`senders`). One restart covers
every crash point; two are the same again, since a restart leaves nothing but
the store. `MaxRetries = 2` separates a first failure from the last one, where
the code has 10. Two concurrent gateway calls are what a race of two writers, or
of an operation with its own resend, takes; three updates make one of them act
on top of another while the third is stale. `MaxVersion` and `MaxGeneration`
stop `Submit` and `Reset`, not the handlers. In `client_pull` a page of one row
makes the offset matter, one id per request makes the drain's request too large
with two (500 deferred ids against 200 in the code), a pass of two pages ends at its
cap, a clock three ahead is ahead of the writes that follow, and each kind of
incident alone already opens a gap: all causes do so in this instance but `dropped`,
which needs more than `DeferMax` ids. Every pass can read both rows, so a cap that
keeps a third one from being read (section 4) is beyond this instance; with three rows
`Converges` has been found to need its exception `Crowded`. In `sales_orders` two
values of the counter are what a refused number and its replacement take, three
versions an insert that starts the versions again. In `budget_ledger` every family
has an event that fits alone and not with another; two transactions are what one
window between a check and an insert
takes, and rows committed earlier stand for any number of finished ones. The
proofs of section 5 remove the bounds for the properties they cover. The largest
runs have 1 to 5 million states and take two to five minutes.

Deadlock checking is off where the system may stop: once every row is created and
settled, the engine paused, every operation answered, the counter at its bound.
That the engine does not get stuck earlier is what the liveness properties of
`senders` are about. `ClientPull` may stop with nothing to read, to send or to
write. `budget_ledger` checks deadlock; the database ends a circle of waits by a
deadlock report (`Rollback`), and `NoCircularWait` says which wait can be part of one.

*What the properties say.* `ClaimsAgree` relates the registry to the local
variables of every sender, so it fails on any path that forgets a release or
releases another's claim. `SingleSender` is the promise of the comment at
`durableSyncQueue.ts:287`. `LegacyNeverSent` quantifies over what is in transit,
whatever quarantine, recovery, retry or stale write came before.
`BudgetRespected` counts the failed sends of the cycle beside the rows, instead of
trusting the `retryCount` the rows carry: whatever copies are written back, a row
is sent in vain at most `MaxRetries` times until the user asks for it again, unless
an `enqueue()` has written an older copy over it. The exception is needed (section 4).
`UpdatesAreLinear` needs only the conditional PATCH: the idempotency check may miss,
the record may be lost, two copies of one operation may be handled at once. `AcknowledgedIsEffected` says a replayed answer is never
a false success. `ConditionalWritesKeep` extends linearity to creates, deletes,
purges and resets: whoever drops content of a row is an unversioned create, a
forced delete or a purge, never a write under a version, unless the row was
created again since and counts its versions from 1.

`NoSilentGap` closes the list of causes by which a device can lack a version it
will not ask for again; `Converges` says that, without one of them, while the
drain's request fits and the rows of the cursor's own time do not fill a pass, it gets
there without realtime events, once the cycles of the engine find nothing to send.
`VersionTellsValue` is what the next versioned push relies on: a row with the
cloud's version and nothing to send has the cloud's value, unless an edit of it was
given up or made with a clock that was ahead. A clock that is behind does no harm,
which the run covers too.

`NoCircularWait` orders the locks. The one wait outside the order is the row lock of
a gateway insert that meets its own row (`RowLast`). With a correction of that event
it closes a real circle: the correction holds the row `FOR UPDATE` (migration 0035,
331-334) and waits for the source's advisory lock (419), the push holds that lock
(532) and waits for the row (`cloudSyncStore.cjs` 580-587, 664-668). PostgreSQL
reports the deadlock and one of the two is rolled back.

`NumberStands`, `ConfirmedIsStored` and the invariants of the budget state their
exceptions, and each exception is needed: without any one of them TLC finds a
counterexample. They are the reader's list of races the code leaves open.

*Fairness.* `FairSpec` assumes weak fairness of starting the cycle, of the
cycle's own steps and of a flush's own steps: the periodic timer fires, a request
answers or times out (client limits of 20 s for an inline
flush and 25 s for a batch), and an IndexedDB request completes while the tab is open.
Nothing is assumed of users, logins or
the gateway: every answer may be a failure for ever. `FailuresAreRetried`
therefore has `paused` and `authBlocked` as alternatives. `ClientPull!FairSpec`
assumes less of the engine than that a drain runs again and again, because the code
calls it only inside `syncOnce()`, where a cycle finds nothing pending
(`backgroundSyncService.ts` 1127) or after the last batch (1219), and neither is
reached while the engine is paused (1079) or blocked (1090) or when a batch throws
(524). So a drain begins only if, from some point on, the engine is not kept from it
and no operation of the table is waiting (`Quiet`); a drain that has begun goes on,
because its requests answer or fail; and the pull makes steps unless the engine
is kept again and again. `Converges` promises nothing unless `Quiet` holds. Nothing
is assumed of users, other devices, events, an operation ever being settled or a
pause ever ending. `SalesOrders` and `BudgetLedger` have no liveness property: a call
may always die.

## 4. Where the code and its comments disagree

Five have a run whose counterexample is the smallest TLC finds; `PROJECT.json`
quotes the lines.

* `stranded` – `settleItem()` ends its success branch with `return
  conflictOutcome`, a name declared nowhere. Completing one row of a batch throws;
  the rest of the batch stays `syncing` with no owner, which no later cycle
  selects. They wait for a restart at least 120 s later, or for an inline flush.
* `lost_edit` – `dequeue()` reads and claims a pending row and marks it `syncing` in
  a later request, with the copy it has read. A save in between merges into the row,
  which is still pending in the store, and returns; the `syncing` write takes its edit
  away. One sender is enough, and nothing need be sent.
* `replay` – an `enqueue()` reads a row while it is pending; the row is sent, applied and
  completed; then the `enqueue()` writes its merge, which revives the row with a
  newer edit under the old operation id. The resend is answered as a replay and the
  edit is lost. (A lost answer and a merge into the failed row lead there too, in
  more steps.)
* `login` – the comment says the login clears the pause after a 401; nothing does,
  so the engine stays off until the page is reloaded.
* `gateway_create_race` – two unversioned creates of one id both read no row; the
  second POST (`merge-duplicates`) replaces the first one's row, both answered ok.

The others are stated as exceptions or alternatives of a property, and therefore
have no run of their own.

*Retry budget.* The comment at `durableSyncQueue.ts:1055` says that after the budget
"the periodic loop stops hammering" a row. An `enqueue()` that has read the row
before its last attempt failed writes the pending copy with the old count back, over
the failed row or the dead letter, and the cycle sends it again: the exception
`rewound` of `BudgetRespected`.

*Clocks.* `fieldLevelMerge()` says it uses the server's time and "falls back" to the
client's (`syncConflictResolver.ts:90`); it compares the later of `serverUpdatedAt`
and `_updatedAt` with the server's time. A device whose clock is ahead keeps its old
value against a later write of another device and takes that write's version over;
nothing is pending, so nothing repairs it before the next remote write: the exception
`ahead` of `VersionTellsValue`.

*Pass cap.* A pass that is cut short does not resume "from just past the last page"
(`syncService.ts:996`): the next one begins with the rows of the cursor's own time, and
if they fill a pass it ends where it began, for ever: `Crowded` in `Converges`.

*Rate limit.* The drain clears the ids of every table from memory, and a rate limit at
one table ends it: the ids of the later tables are in no set, and the write that
follows stores that. The cursor has passed their rows. "Never drop work on an error"
(`syncService.ts:703`) does not hold: the cause `refused` of `NoSilentGap`.

*Pull.* More than 200 ids may wait (the limit is 500) but a request may carry 200:
the drain is then refused in every cycle. The comment on the overflow of the 500
("heals on the next full cursor pass, because the cursor has not moved past those
rows") does not hold: the cursor has. Deferred ids are lost by a reload within the
250 ms before they are stored, by a timer that overwrites the stored ones before
anything has read them, by a read of the stored ones that fails (it counts as none,
and is not repeated), and by an error on one row of a drain. Paging by offset skips a
row when another moves behind it; a write that becomes visible after one with a later
time stamp is behind the cursor. A tombstone
is applied over a queued mutation, and the local `deletedAt` stays when the cloud
row comes back. A pull or realtime write made from an old copy takes a row's version
back. Since nothing rebases a conflict (`resolvePushConflict` is never reached), the
second of two edits made before the first one's new version has been pulled
conflicts with the device's own write and ends as a dead letter.

*Numbering.* `ensureSalesOrderNumber()` takes a failed read for a create, so a
stored number may be rewritten or erased. An order stored without a number never
gets one ("the next push re-runs the mint"). `upsert()` answers a conflict like a
write, so `completeSalesOrder` may confirm a number it has not stored. The guarded
updates `WHERE id = ? AND status = ?` of the portal go through a query shim that
takes the last parameter, the status, for the id: nothing is written and one change
reported, a request never becomes `converted` ("This is the ONLY place an order
request becomes "converted"") and may be converted again, each time with a new
number. The insert of `convertToOrder` contains the word `updated_at`, is taken for
an UPDATE by the same shim and is not executed: the order is confirmed, its number
spent, and no row stored.

*Transport budget.* "concurrent reversals of the same allocation serialize here
instead of racing past the cap": the lock finds nothing to lock while the
allocation is not committed, and a reversal that looked too early is then checked
beside others. A consumption without a snapshot takes no lock on its source, so a
checked one may pass the cap beside it. The gateway inserts without the key lock,
so the second caller of the RPC does not always observe the winner's row, and its
`ON CONFLICT DO UPDATE` may wait for a row while it holds the source lock, against the
order of the corrections (`RowLast`).

Smaller disagreements met while modelling, and not given a run:

* A quarantine is not "one-way": `resumeAfterAuth()` and `retryFailed()` may write
  a copy read before it (the row is quarantined again before it is sent, which is
  what `LegacyNeverSent` checks).
* `retryFailed()` decides by the copy it read, so a row refused with 401 meanwhile
  is retried without a login.
* After a 401 the batch loop of `syncOnce()` still sends its remaining batches.
* A tab reopened within 120 s of its crash leaves its rows `syncing`.
* An operation the gateway's answer does not mention counts as completed
  (`!result || result.ok`).
* `softDeleteRow()` is described as one atomic PATCH, but any error of that PATCH
  leads to an unconditional POST that may replace a newer update.
* `purgeTombstones()` deletes by id, also a row resurrected since it was collected.
* A device whose versioned PATCH was applied but whose answer and idempotency
  record were lost conflicts with its own write.
* `cleanup()` may delete a completed row that a pending delete depends on, and a
  dead letter that was retried after `cleanup()` read it.

## 5. Proofs

The theorems hold for every number of records, edits, rows, callers, batches,
retries, restarts, operations, handlers, versions and generations, from the
assumptions `QueueAssumption`, `EngineAssumption`, `GatewayAssumption`,
`PullAssumption`, `SkewAssumption`, `OrdersAssumption` and `DraftsAssumption`: the bounds are
naturals, owner tags differ from each other and from `None`, the deferred ids an
earlier session has stored are of rows it has, each once (it stored a `Set`) and at
most `DeferMax`, ids of orders are not numbers, drafts are well-formed events.
Every invariant, action property and refinement the passing runs check is proved in
this generality, `UpdatesAreLinear` for updates, as stated below; only liveness is
not.

* `BackgroundSyncProofs!TypeCorrect`: `Spec => []TypeOK`. Lemmas give the type of
  every operator on rows, of `GatewayApplies`, of each group of actions (enqueue,
  upkeep, dequeue, cycle, flush, login, restart). `TypeOK` carries two facts that
  are needed for its own induction: while a batch is being handled
  `cycle.left > 0`, and a flush that is not idle names a row.
* `SendOwnershipProofs!ClaimsAlwaysAgree`: `Spec => []ClaimsAgree`. `ClaimsAgree`
  with `TypeOK` is inductive. The proof first reduces every step of the system to
  a step that touches neither the registry nor a sender, or to one of nine kinds
  of sender step (claim, send, answer, settle, unwind, flush
  claim, flush move, flush release, restart) that mention the registry and the
  senders' positions only, and then treats each kind.
* `SendOwnershipProofs!SingleSenderHolds`: `Spec => SingleSender`, the refinement of
  `SendOwnership` under `owner <- sendClaims` and `transit <- Transit`. It needs
  `ClaimsAgree` in both directions: a sender that transmits holds the claim, and a
  claim is only given up by a sender that is not transmitting.
* `SendOwnershipProofs!OnlyOwnerSendsHolds`: a request in transit belongs to the
  owner of its row, in every reachable state.
* `LegacyProofs!LegacyNeverSentHolds`: `Spec => []LegacyNeverSent`, with inline
  flushes and logins, which the run leaves out. A copy may outlive the row and bring
  it back, so nothing about the store alone is inductive. `LegacyRowsKnown` says:
  there is a set of rows, the ones without a generation, with which the store and
  every copy held by a call, the cycle, a flush or a login agree; a copy about to be
  rewritten is of a present row; no row of the set is in a batch or in a flush.
* `CloudGatewayProofs!TypeCorrect` and `AcknowledgedHolds`. The latter strengthens
  the invariant with `WrittenBeforeRecorded`: a call at `record` has had its
  effect. A delete's `force` step writes again, so it needs no such clause.
* `CloudGatewayProofs!UpdatesAreLinearHolds`: if only updates are submitted, the
  gateway implements `VersionedRow`. The inductive invariant (`OnlyUpdates`, with
  `MadeFrom` for each operation) says where contents come from: the row contains
  exactly the operations that took effect, an operation made from the current version
  carries the current content and itself,
  and an operation that took effect was made from an older version, so the
  conditional PATCH of a resend cannot match.

* `CloudGatewayProofs!ConditionalWritesKeepHolds`, for every mix of operations.
  The strengthening (`ReadsCurrent`) bounds versions by the row's: what an update,
  or a delete in progress, was made from has at most the current version, and if it
  has the current one, it carries what the row contains, for every operation and
  call that is not in the history sets.
* `BudgetProofs!BudgetRespectedHolds`: `BudgetSpec => []BudgetRespected`, with flushes,
  logins, upkeep calls and restarts. The count the code compares is part of the row
  and rows are rewritten from copies, so nothing about the store alone is inductive.
  `CopiesFit` compares every copy that may still be written (in the store, in the
  cycle, in a settlement) with the attempts really made: it tells at least as many, and
  if it may be sent, one is left, unless the row is `rewound`. What `enqueue()` writes
  is compared when it is written, which is when a row becomes `rewound`; a flush is the
  user's own attempt and starts the count again, and the cycle makes none beside it,
  which needs `ClaimsAgree`.
* `ClientPullProofs!NoSilentGapHolds`, `VersionTellsValueHolds` and `TypeCorrect`,
  from one inductive invariant `IInv` (on the instance of `client_pull`, TLC finds
  that it holds). Neither property is inductive:
  - `Kept` strengthens `NoSilentGap`. "Not behind the cursor" is not enough, for the
    cursor moves to the last time stamp of the pass: a row whose last version the
    device lacks, without a cause, is held by the drain (waiting, asked for, in the
    answer, or being stored) or, while it is not behind the cursor, the pull holds
    that very version or has yet to come to it.
  - `Told` strengthens `VersionTellsValue` for the table. It needs `Clocks`: a copy
    is of a version its row has had and equal to the row if of the last one
    (`Past`), and only an edit gives a record a time after the row's in the cloud
    (`Behind`): one that is on its way, was given up, or was made with a clock that
    was ahead. So a merge takes the version over and keeps another value only in these
    cases (`Dirty`), also when it merges with a record it read long ago.
  - `Bounds` counts: the clock ticks once for a write of another device and twice
    for an edit, so what it has still to tick is owed by the waiting operations.
  - `Shape` and `Phases` say what is empty when, and that the copies of a page are of
    different rows, since the rows `bulkPut()` stores at its end are found by id.

  Two definitions are proved about first. The listing of `listPullPage()` is a
  `CHOOSE` of the row of each rank; `ListingIs` shows it enumerates the rows from the
  cursor on in order, and `PageIs` what a page leaves out. The ids of
  `applyDeferred()` are a recursive function; `AddToIs` and the lemmas after it show
  that ids are lost only by the clamp, and none is there twice.
* `SalesOrdersProofs!TypeCorrect`, `FreshIsUnheldHolds` and
  `NumbersAreRegisteredHolds`, the refinement of `NumberRegister`. The invariant
  `Numbered` says that every number borne, seen or carried was given out by the
  counter, and that a number just taken is in no order, was never in one, and is
  with no other call. Steps are first reduced to three kinds (quiet, claim, store) that
  mention numbers only.
* `SalesOrdersProofs!ConfirmedIsStoredHolds` and `NumberStandsHolds`, from the
  invariant `History`: what each call knows of its order (`Steady`), unless one of
  its reads failed or another call wrote the order since. A conversion about to write
  has the order as it is, one that is confirmed its number; a push about to write has
  its number, or the order has none. `WhoWrites` finds the call behind any change
  of an order, `WriterIsAccountable` shows that if it changes a number it is one of the
  exceptions.
* `BudgetLedgerProofs`: `TypeCorrect`, `AppendsAreAtomicHolds` (the refinement of
  `BudgetBook`), `RetriesConvergeHolds`, `OnlyDirectOvertakesHolds` and
  `NoCircularWaitHolds`, for every set of drafts and any number of transactions.
  One invariant carries all five. For each transaction it says which locks it
  holds at each statement, and what of its check is still true (`Checked`): a
  reversal's cap holds because its target is locked, or the exception applies; a
  correction or an undo still matches its target because rows do not change, and
  is still the only one because the index entries of inserts in progress differ
  (`Clear`, `Apart`); a consumption's cap holds because its source is locked. The
  lemma `CommitKeepsGood` is the heart: another transaction's commit takes none of
  it away. Sums of amounts stay opaque: the set of rows summed does not change.
* `BudgetLedgerProofs!ReversalsWithinAllocationHolds` and
  `ConsumptionWithinSourceHolds` are proved of `BudgetBook`, whose steps are few
  (`BookInv`, `BookKeepsCaps`), and carried over by the refinement. Here the sums are
  computed. The library's induction takes an operator as a parameter and
  cannot be used, so a sum, a fold over a set, is shown to count units (a row of
  amount n stands for n pairs), by a smallest counterexample among the subsets of
  rows; what a new row adds is then a fact about cardinalities.

Only model-checked: the liveness properties, `LockReleased`, `FlushEnds`,
`FailuresAreRetried` and `Converges` (liveness is beyond the prover), that
`budget_ledger` does not deadlock, although `NoCircularWait` excludes every reason
for it but one, and of course the counterexamples.

## 6. Not modelled, and why

* File uploads (`fileRef`), metrics, notifications, diagnostics, wording: no effect
  on the properties.
* `resolveConflict()`: nothing calls it at this commit; `settleItem` treats a
  conflict as a retryable failure.
* `waitForOwnedCompletion()` only reads. `navigator.onLine` only delays a cycle.
* `enqueueWithCache`, `requeue`, `remove`, `invalidateStaleOperations`,
  `clearAllOperations`, `rebuildDependencyGraph`: the first is unused by `db.ts`, the
  second only called by `resolveConflict`, the next belong to the company reset
  (planned), the last repairs cycles that `enqueue()` never creates.
* In the gateway: business preconditions, payment scope and the rename
  cascade. They reject or enrich a write; they do not change how writes interleave.
* Pricing and reports: floating point and read-only derivations.
* In the pull: full passes after the first, the pause of the pull after a 429, realtime
  DELETE events, a read of the cursor that fails, the pull of several tables (each has its own cursor; the drain they
  share is modelled), the reset of a company (`handleGenerationMismatch`), deletions by
  this device, and the time of a deletion (a deleted record stays deleted).
* In the transport budget: the producers and the frontend's own ledger. Met there
  and not modelled: `sameKeyEconomicPayload` compares `occurredAt`, which migration
  0037 excludes, so a retry with a new time stamp conflicts locally; two devices, or
  a device and the backend, may append one key under two ids: the cloud refuses the
  second, the device keeps it, pulls the other, and its KPIs sum both; the hooks in
  `backend/index.cjs` are not awaited, so a void whose lookup runs before the
  allocation's append finds none and only the frontend's recovery reverses it.
* `baseService.cjs`: `_transaction` keeps `_txActive` and `_txPreImages` in the
  object all requests share, and its rollback writes the pre-image with the old
  version, which conflicts and is taken for a success. What the payment services do
  under it depends on that more than on their own code.
* The HTTP idempotency middleware, payment requests, referrals, promotions and
  the financial year: reads and writes in separate requests without a condition
  (two first calls both run; a request may be published although its versioned
  write conflicted; a reward may be credited twice; a lost RPC answer counts a
  redemption again). A model would restate that there is no guard.
* The rest of the repository. Measured in lines, most of it is user interface, PDF
  rendering, settings, reports and one generated renderer of 246,000 lines
  (`primeRenderer.cjs`): rendering and derivations with no state to violate. The
  modules cover between a third and a half of the main files they model, and a small
  share of the whole.

## 7. Plan

Done: queue, engine, gateway, pull, numbering, the transport budget ledger; four
abstract specifications; eight modules of proofs, for every property that is not
liveness. What is left, in this order:

1. **Company reset** across `CloudGateway`, the queue and the pull:
   `setSyncGeneration`, `clearAllOperations`, the stale check racing a reset,
   `getSyncGeneration()` answering 1 on an error.
2. **Two devices' ledgers** over `BudgetBook`: the frontend's copy, boot recovery on
   two devices, the refused duplicate that stays local.
3. **Deletes**: a `VersionedRow` with tombstones, with the fallback POST and the purge
   as stated disagreements; a delete that waits for a cleaned-up dependency.
4. **Payment allocation** (no document over-allocated by two concurrent payments) and
   the **financial year** close against postings, over the shim of `baseService.cjs`.

To reproduce: `tlc -config <run's cfg> <module>` for each run of `PROJECT.json`, and
`tlapm <module>` for the eight proof modules. The longest run takes almost five
minutes with two workers, the longest proof module about three.
