------------------------ MODULE BackgroundSyncProofs ------------------------
(***************************************************************************)
(* Proofs about the sync engine for every value of its constants: any      *)
(* number of records, rows, callers, batches and restarts.                 *)
(***************************************************************************)
EXTENDS BackgroundSync, TLAPS

USE QueueAssumption, EngineAssumption

-----------------------------------------------------------------------------
(***************************************************************************)
(* The operators on rows.                                                  *)
(***************************************************************************)
\* A row enqueue() creates, and an empty slot, are rows.
LEMMA NewRowType ==
  ASSUME NEW x \in Records, NEW kind \in Kinds, NEW payload \in SUBSET Edits,
         NEW deps \in SUBSET Rows
  PROVE  NewRow(x, kind, payload, deps) \in Row
BY DEF NewRow, Row, Statuses, Active, ErrorTypes

LEMMA NoRowType == NoRow \in Row /\ NoRow.rec \in Records
<1>1. NewRow(CHOOSE x \in Records : TRUE, "upsert", {}, {}) \in Row
  BY NewRowType DEF Kinds
<1> QED BY <1>1 DEF NoRow, Row, Statuses

\* So are the rows an earlier session left.
LEMMA LeftRowsType == LeftRows \subseteq Row
<1>1. ASSUME NEW x \in Records, NEW stamped \in BOOLEAN,
             NEW status \in Active, NEW err \in ErrorTypes
      PROVE  LeftRow(x, stamped, status, err) \in Row
  <2>1. NewRow(x, "upsert", {}, {}) \in Row
    BY NewRowType DEF Kinds
  <2> QED BY <2>1 DEF LeftRow, Row, Statuses
<1> QED BY <1>1 DEF LeftRows, Active, ErrorTypes

\* What the operations make of a row is a row.
LEMMA RowOperationsType ==
  ASSUME NEW row \in Row
  PROVE  /\ Quarantined(row) \in Row
         /\ Syncing(row) \in Row
         /\ Pending(row) \in Row
         /\ Retried(row) \in Row
         /\ Resumed(row) \in Row
         /\ Revived(row) \in Row
         /\ \A old \in BOOLEAN : Recovered(row, old) \in Row
         /\ \A payload \in SUBSET Edits : Merged(row, payload) \in Row
         /\ \A result \in Results : Settled(row, result) \in Row
<1> USE DEF Row, Statuses, Active, ErrorTypes
<1>1. Quarantined(row) \in Row /\ Syncing(row) \in Row /\ Pending(row) \in Row
  BY DEF Quarantined, Syncing, Pending
<1>2. Resumed(row) \in Row
  BY DEF Resumed
<1>3. Retried(row) \in Row
  BY <1>1 DEF Retried
<1>4. ASSUME NEW old \in BOOLEAN PROVE Recovered(row, old) \in Row
  BY <1>1 DEF Recovered
<1>5. ASSUME NEW payload \in SUBSET Edits PROVE Merged(row, payload) \in Row
  BY DEF Merged
<1>6. ASSUME NEW result \in Results PROVE Settled(row, result) \in Row
  <2>1. (IF row.retries < MaxRetries THEN row.retries + 1 ELSE row.retries) \in 0..MaxRetries
    OBVIOUS
  <2>2. CASE result = "ok"
    <3>1. Settled(row, result) = [row EXCEPT !.status = "completed", !.retries = 0]
      BY <2>2 DEF Settled
    <3>2. 0 \in 0..MaxRetries
      OBVIOUS
    <3> QED BY <3>1, <3>2
  <2>3. CASE result # "ok"
    <3> DEFINE err == IF result = "conflict" THEN "retryable" ELSE result
               status == IF result = "permanent" THEN "dead_letter" ELSE "failed"
               retries == IF row.retries < MaxRetries THEN row.retries + 1 ELSE row.retries
    <3>1. err \in ErrorTypes /\ status \in Statuses
      BY <2>3 DEF Results, Answers, Failures
    <3>2. Settled(row, result) = [row EXCEPT !.status = status, !.retries = retries, !.err = err]
      BY <2>3 DEF Settled
    <3> QED BY <2>1, <3>1, <3>2
  <2> QED BY <2>2, <2>3
<1>7. Revived(row) \in Row
  <2>1. 0 \in 0..MaxRetries
    OBVIOUS
  <2> QED BY <2>1 DEF Revived
<1> QED BY <1>1, <1>2, <1>3, <1>4, <1>5, <1>6, <1>7

\* A read of the store returns rows.
LEMMA SnapshotType ==
  ASSUME operations \in [Rows -> Row], NEW S
  PROVE  Snapshot(S) \in [Rows -> Row]
BY NoRowType DEF Snapshot

LEMMA NoSnapshotType == NoSnapshot \in [Rows -> Row]
BY NoRowType DEF NoSnapshot

\* The idle actors have their types.
LEMMA IdleTypes ==
  /\ IdleCall \in Call /\ IdleUpkeep \in [row: Rows \cup {0}, value: Row]
  /\ IdleCycle \in Cycle /\ IdleFlush \in Flush /\ IdleLogin \in Login
<1>1. IdleCall \in Call
  BY NoRowType, NoSnapshotType DEF IdleCall, Call
<1>2. IdleCycle \in Cycle
  BY NoSnapshotType DEF IdleCycle, Cycle, CyclePCs, Results, Answers
<1>3. IdleFlush \in Flush
  BY NoRowType DEF IdleFlush, Flush, FlushPCs, Results, Answers
<1>4. IdleLogin \in Login
  BY NoSnapshotType DEF IdleLogin, Login
<1>5. IdleUpkeep \in [row: Rows \cup {0}, value: Row]
  BY NoRowType DEF IdleUpkeep
<1> QED BY <1>1, <1>2, <1>3, <1>4, <1>5

\* The gateway applies edits of the rows it is sent.
LEMMA GatewayType ==
  ASSUME TypeOK, NEW snap \in [Rows -> Row], NEW S \in SUBSET Rows, GatewayApplies(snap, S)
  PROVE  applied' \in [Records -> SUBSET Edits] /\ processed' \subseteq Rows
<1>1. \A r \in Rows : snap[r].payload \subseteq Edits
  BY DEF Row
<1>2. applied' \in [Records -> SUBSET Edits]
  BY <1>1 DEF GatewayApplies, TypeOK
<1>3. processed' \subseteq Rows
  BY DEF GatewayApplies, TypeOK
<1> QED BY <1>2, <1>3

-----------------------------------------------------------------------------
(***************************************************************************)
(* Type correctness.                                                       *)
(***************************************************************************)
LEMMA InitType == Init => TypeOK
<1> SUFFICES ASSUME Init PROVE TypeOK
  OBVIOUS
<1> USE DEF Init, QueueInit
<1>1. created \in 0..MaxRows
  OBVIOUS
<1>2. operations \in [Rows -> Row]
  <2>1. PICK left \in [1..created -> LeftRows] :
          operations = [r \in Rows |-> IF r <= created THEN left[r] ELSE NoRow]
    OBVIOUS
  <2>2. \A r \in Rows : r <= created => left[r] \in Row
    BY <1>1, LeftRowsType DEF Rows
  <2> QED BY <2>1, <2>2, NoRowType
<1>3. QueueTypeOK
  BY <1>1, <1>2, IdleTypes DEF QueueTypeOK
<1>4. cycle \in Cycle /\ flush \in [FlushRecords -> Flush] /\ login \in [Logins -> Login]
  BY IdleTypes
<1>6. cycle.pc = "idle" /\ \A x \in FlushRecords : flush[x].pc = "idle"
  BY DEF IdleCycle, IdleFlush
<1>5. applied \in [Records -> SUBSET Edits] /\ processed \subseteq Rows /\ restarts \in 0..MaxRestarts
  OBVIOUS
<1> QED BY <1>3, <1>4, <1>5, <1>6 DEF TypeOK

\* enqueue()
LEMMA EnqueueReadType ==
  ASSUME TypeOK, NEW w \in Writers, NEW x \in Records, NEW kind \in Kinds,
         NEW payload \in SUBSET Edits, EnqueueRead(w, x, kind, payload)
  PROVE  created' \in 0..MaxRows /\ enqueues' \in [Writers -> Call]
<1>1. operations \in [Rows -> Row] /\ enqueues \in [Writers -> Call] /\ created \in 0..MaxRows
  BY DEF TypeOK, QueueTypeOK
<1>2. ASSUME NEW quarantine \in SUBSET Rows, NEW drop \in SUBSET Rows, NEW target \in Rows \cup {0},
             NEW value \in Row, Decide(w, x, payload, quarantine, drop, target, value)
      PROVE  enqueues' \in [Writers -> Call]
  BY <1>1, <1>2, SnapshotType DEF Decide, Call
<1> DEFINE seen == {r \in WithStatus(Active) : operations[r].rec = x}
           unsafe == {r \in seen : ~operations[r].stamped /\ operations[r].status # "syncing"}
           usable == seen \ unsafe
           same == {r \in usable : operations[r].kind = kind /\ operations[r].payload = payload}
           upserts == {r \in usable : operations[r].kind = "upsert"}
           idle == {r \in upserts : operations[r].status # "syncing"}
           foldable == IF kind = "upsert" THEN MergeTargets(idle) ELSE {}
           drop == IF kind = "delete" THEN idle ELSE {}
           deps == IF kind = "delete" THEN upserts \ idle ELSE {}
<1>3. /\ unsafe \in SUBSET Rows /\ foldable \in SUBSET Rows
      /\ drop \in SUBSET Rows /\ deps \in SUBSET Rows
  BY DEF WithStatus, MergeTargets
<1> HIDE DEF unsafe, foldable, drop, deps, same
<1>4. \/ Decide(w, x, payload, unsafe, {}, 0, NoRow) /\ UNCHANGED created
      \/ /\ \E r \in foldable : Decide(w, x, payload, unsafe, {}, r, Merged(operations[r], payload))
         /\ UNCHANGED created
      \/ /\ created < MaxRows /\ created' = created + 1
         /\ Decide(w, x, payload, unsafe, drop, created + 1, NewRow(x, kind, payload, deps))
  BY DEF EnqueueRead, unsafe, foldable, drop, deps, same
<1>5. CASE Decide(w, x, payload, unsafe, {}, 0, NoRow) /\ UNCHANGED created
  BY <1>1, <1>2, <1>3, <1>5, NoRowType
<1>6. CASE /\ \E r \in foldable : Decide(w, x, payload, unsafe, {}, r, Merged(operations[r], payload))
           /\ UNCHANGED created
  <2>1. PICK r \in foldable : Decide(w, x, payload, unsafe, {}, r, Merged(operations[r], payload))
    BY <1>6
  <2>2. r \in Rows /\ Merged(operations[r], payload) \in Row
    BY <1>1, <1>3, RowOperationsType
  <2> QED BY <1>1, <1>2, <1>3, <1>6, <2>1, <2>2
<1>7. CASE /\ created < MaxRows /\ created' = created + 1
           /\ Decide(w, x, payload, unsafe, drop, created + 1, NewRow(x, kind, payload, deps))
  <2>1. created + 1 \in Rows
    BY <1>1, <1>7 DEF Rows
  <2>2. NewRow(x, kind, payload, deps) \in Row
    BY <1>3, NewRowType
  <2>3. enqueues' \in [Writers -> Call]
    BY <1>2, <1>3, <1>7, <2>1, <2>2
  <2> QED BY <1>1, <1>7, <2>3
<1> QED BY <1>4, <1>5, <1>6, <1>7

LEMMA QueueStepType ==
  ASSUME TypeOK, QueueNext, UNCHANGED engineVars
  PROVE  TypeOK'
<1>0. UNCHANGED <<cycle, flush, login, paused, applied, processed, restarts>>
  BY DEF engineVars
<1>t. QueueTypeOK
  BY DEF TypeOK
<1>q. QueueTypeOK' => TypeOK'
  BY <1>0 DEF TypeOK
<1>o. /\ operations \in [Rows -> Row] /\ enqueues \in [Writers -> Call]
      /\ upkeep \in [Upkeep -> [row: Rows \cup {0}, value: Row]]
  BY <1>t DEF QueueTypeOK
<1>s. saved \in [Records -> SUBSET Edits] /\ accepted \in [Records -> SUBSET Edits]
  BY <1>t DEF QueueTypeOK
<1>1. ASSUME NEW w \in Writers, NEW x \in Records, NEW e \in Edits, Save(w, x, e)
      PROVE  TypeOK'
  <2>1. saved[x] \cup {e} \in SUBSET Edits
    BY <1>s
  <2>2. created' \in 0..MaxRows /\ enqueues' \in [Writers -> Call]
    BY <1>1, <2>1, EnqueueReadType DEF Save, Kinds
  <2>3. saved' \in [Records -> SUBSET Edits]
    BY <1>1, <1>s, <2>1 DEF Save
  <2> QED BY <1>q, <1>t, <1>1, <2>2, <2>3 DEF QueueTypeOK, Save, EnqueueRead
<1>2. ASSUME NEW w \in Writers, NEW x \in Records, Delete(w, x)
      PROVE  TypeOK'
  <2>1. created' \in 0..MaxRows /\ enqueues' \in [Writers -> Call]
    BY <1>2, EnqueueReadType DEF Delete, Kinds
  <2>2. saved' \in [Records -> SUBSET Edits]
    BY <1>2, <1>s DEF Delete
  <2> QED BY <1>q, <1>t, <1>2, <2>1, <2>2 DEF QueueTypeOK, Delete, EnqueueRead
<1>3. ASSUME NEW w \in Writers, EnqueueQuarantine(w)
      PROVE  TypeOK'
  <2>1. PICK r \in enqueues[w].quarantine :
          /\ operations' = [operations EXCEPT ![r] = Quarantined(enqueues[w].snap[r])]
          /\ enqueues' = [enqueues EXCEPT ![w].quarantine = @ \ {r}, ![w].snap[r] = NoRow]
    BY <1>3 DEF EnqueueQuarantine
  <2>2. r \in Rows /\ enqueues[w].snap \in [Rows -> Row]
    BY <1>o, <2>1 DEF Call
  <2>3. operations' \in [Rows -> Row]
    BY <1>o, <2>1, <2>2, RowOperationsType
  <2>4. enqueues' \in [Writers -> Call]
    <3> DEFINE snap == [enqueues[w].snap EXCEPT ![r] = NoRow]
               call == [enqueues[w] EXCEPT !.quarantine = @ \ {r}, !.snap = snap]
    <3>1. snap \in [Rows -> Row]
      BY <2>2, NoRowType
    <3>2. enqueues' = [enqueues EXCEPT ![w] = call]
      BY <1>o, <2>1 DEF Call
    <3> HIDE DEF snap
    <3>3. enqueues[w] \in Call
      BY <1>o
    <3>4. call \in Call
      BY <3>1, <3>3 DEF Call
    <3> QED BY <1>o, <3>2, <3>4
  <2> QED BY <1>q, <1>t, <1>3, <2>3, <2>4 DEF QueueTypeOK, EnqueueQuarantine
<1>4. ASSUME NEW w \in Writers, EnqueueDrop(w)
      PROVE  TypeOK'
  <2>1. PICK r \in enqueues[w].drop :
          /\ operations' = [operations EXCEPT ![r] = NoRow]
          /\ enqueues' = [enqueues EXCEPT ![w].drop = @ \ {r}]
    BY <1>4 DEF EnqueueDrop
  <2>2. operations' \in [Rows -> Row]
    BY <1>o, <2>1, NoRowType
  <2>3. enqueues' \in [Writers -> Call]
    <3> DEFINE call == [enqueues[w] EXCEPT !.drop = @ \ {r}]
    <3>1. call \in Call
      BY <1>o DEF Call
    <3>2. enqueues' = [enqueues EXCEPT ![w] = call]
      BY <1>o, <2>1 DEF Call
    <3> QED BY <1>o, <3>1, <3>2
  <2> QED BY <1>q, <1>t, <1>4, <2>2, <2>3 DEF QueueTypeOK, EnqueueDrop
<1>5. ASSUME NEW w \in Writers, EnqueueReturn(w)
      PROVE  TypeOK'
  <2>1. enqueues[w] \in Call
    BY <1>o
  <2>2. operations' \in [Rows -> Row]
    BY <1>5, <1>o, <2>1 DEF EnqueueReturn, Call
  <2>3. enqueues' \in [Writers -> Call]
    BY <1>5, <1>o, IdleTypes DEF EnqueueReturn
  <2>4. accepted' \in [Records -> SUBSET Edits]
    BY <1>5, <1>s, <2>1 DEF EnqueueReturn, Call
  <2> QED BY <1>q, <1>t, <1>5, <2>2, <2>3, <2>4 DEF QueueTypeOK, EnqueueReturn
<1>6. ASSUME NEW m \in Upkeep, NEW r \in Rows, RetryDeadLetter(m, r) \/ Cleanup(m, r)
      PROVE  TypeOK'
  <2>1. PICK value \in Row : Keep(m, r, value)
    BY <1>6, <1>o, NoRowType, RowOperationsType DEF RetryDeadLetter, Cleanup
  <2>2. upkeep' \in [Upkeep -> [row: Rows \cup {0}, value: Row]]
    BY <1>o, <2>1 DEF Keep
  <2> QED BY <1>q, <1>t, <2>1, <2>2 DEF QueueTypeOK, Keep
<1>7. ASSUME NEW m \in Upkeep, UpkeepPut(m)
      PROVE  TypeOK'
  <2>1. upkeep[m].value \in Row /\ upkeep[m].row \in Rows
    BY <1>7, <1>o DEF UpkeepPut
  <2>2. operations' \in [Rows -> Row]
    BY <1>7, <1>o, <2>1 DEF UpkeepPut
  <2>3. accepted' \in [Records -> SUBSET Edits]
    BY <1>7, <1>s DEF UpkeepPut
  <2>4. upkeep' \in [Upkeep -> [row: Rows \cup {0}, value: Row]]
    BY <1>7, <1>o, IdleTypes DEF UpkeepPut
  <2> QED BY <1>q, <1>t, <1>7, <2>2, <2>3, <2>4 DEF QueueTypeOK, UpkeepPut
<1> QED BY <1>1, <1>2, <1>3, <1>4, <1>5, <1>6, <1>7 DEF QueueNext

\* dequeue()
LEMMA ClaimBatchType ==
  ASSUME TypeOK, cycle.left > 0, NEW candidates \in SUBSET Rows, NEW snap \in [Rows -> Row],
         ClaimBatch(candidates, snap)
  PROVE  /\ sendClaims' \in [Rows -> Owners \cup {None}]
         /\ cycle' \in Cycle
         /\ cycle'.pc = "mark" => cycle'.left > 0
         /\ cycle'.pc \in {"mark", "unwind"}
<1>1. PICK B \in SUBSET candidates :
        /\ sendClaims' = [r \in Rows |-> IF r \in B THEN Background ELSE sendClaims[r]]
        /\ cycle' = IF B = {} THEN [IdleCycle EXCEPT !.pc = "unwind"]
                    ELSE [cycle EXCEPT !.pc = "mark", !.batch = B, !.todo = B,
                                       !.snap = [r \in Rows |-> IF r \in B THEN snap[r] ELSE NoRow]]
  BY DEF ClaimBatch
<1>2. sendClaims' \in [Rows -> Owners \cup {None}]
  BY <1>1 DEF TypeOK, QueueTypeOK, Owners
<1>3. cycle \in Cycle
  BY DEF TypeOK
<1>4. CASE B = {}
  <2>1. cycle' = [IdleCycle EXCEPT !.pc = "unwind"]
    BY <1>1, <1>4
  <2> QED BY <1>2, <2>1, IdleTypes DEF Cycle, CyclePCs
<1>5. CASE B # {}
  <2> DEFINE copies == [r \in Rows |-> IF r \in B THEN snap[r] ELSE NoRow]
  <2>1. copies \in [Rows -> Row]
    BY NoRowType
  <2>2. cycle' = [cycle EXCEPT !.pc = "mark", !.batch = B, !.todo = B, !.snap = copies]
    BY <1>1, <1>5
  <2> HIDE DEF copies
  <2> QED BY <1>2, <1>3, <2>1, <2>2 DEF Cycle, CyclePCs
<1> QED BY <1>4, <1>5

\* settleItem()
LEMMA AfterSettlingType ==
  ASSUME TypeOK, cycle.left > 0, NEW r \in Rows, AfterSettling(r)
  PROVE  /\ cycle' \in Cycle
         /\ cycle'.pc = "settle" => cycle'.left > 0
         /\ cycle'.pc \in {"unwind", "dequeue", "settle"}
<1>1. cycle \in Cycle
  BY DEF TypeOK
<1>2. CASE cycle' = [IdleCycle EXCEPT !.pc = "unwind"]
  BY <1>2, IdleTypes DEF Cycle, CyclePCs
<1>3. CASE cycle' = [IdleCycle EXCEPT !.pc = "dequeue", !.left = cycle.left - 1]
  <2>1. cycle.left - 1 \in 0..MaxBatches
    BY <1>1 DEF Cycle
  <2> QED BY <1>3, <2>1, IdleTypes DEF Cycle, CyclePCs
<1>4. CASE cycle' = [cycle EXCEPT !.pc = "settle", !.todo = @ \ {r}, !.snap = NoSnapshot,
                                  !.result[r] = "ok"]
  <2> DEFINE results == [cycle.result EXCEPT ![r] = "ok"]
  <2>1. results \in [Rows -> Results]
    BY <1>1 DEF Cycle, Results, Answers
  <2>2. cycle' = [cycle EXCEPT !.pc = "settle", !.todo = @ \ {r}, !.snap = NoSnapshot,
                               !.result = results]
    BY <1>1, <1>4 DEF Cycle
  <2> HIDE DEF results
  <2> QED BY <1>1, <2>1, <2>2, NoSnapshotType DEF Cycle, CyclePCs
<1> QED BY <1>2, <1>3, <1>4 DEF AfterSettling

LEMMA CycleStepType ==
  ASSUME TypeOK, CycleStart \/ CycleProgress
  PROVE  TypeOK'
<1> DEFINE Busy == {"select", "mark", "send", "settle", "settlePut"}
<1>t. /\ QueueTypeOK /\ cycle \in Cycle /\ (cycle.pc \in Busy => cycle.left > 0)
      /\ operations \in [Rows -> Row] /\ cycle.snap \in [Rows -> Row]
      /\ cycle.todo \in SUBSET Rows /\ cycle.batch \in SUBSET Rows
      /\ sendClaims \in [Rows -> Owners \cup {None}]
      /\ cycle.result \in [Rows -> Results]
  BY DEF TypeOK, QueueTypeOK, Cycle
<1>u. ASSUME UNCHANGED queueVars PROVE QueueTypeOK'
  BY <1>t, <1>u DEF queueVars, QueueTypeOK
<1>v. ASSUME KeepQueue, operations' \in [Rows -> Row], sendClaims' \in [Rows -> Owners \cup {None}]
      PROVE  QueueTypeOK'
  BY <1>t, <1>v DEF KeepQueue, KeepCalls, QueueTypeOK
<1>w. ASSUME QueueTypeOK', cycle' \in Cycle, cycle'.pc \in Busy => cycle'.left > 0,
             UNCHANGED <<flush, login, paused, applied, processed, restarts>>
      PROVE  TypeOK'
  BY <1>w DEF TypeOK
<1>1. CASE CycleStart
  <2>1. cycle' \in Cycle /\ cycle'.pc \notin Busy
    BY <1>t, <1>1 DEF CycleStart, Cycle, CyclePCs
  <2> QED BY <1>1, <1>u, <1>w, <2>1 DEF CycleStart
<1>2. CASE RetryRead
  <2>1. PICK failed \in SUBSET Rows :
          cycle' = [cycle EXCEPT !.pc = "retry", !.todo = failed, !.snap = Snapshot(failed)]
    BY <1>2 DEF RetryRead, WithStatus
  <2>2. Snapshot(failed) \in [Rows -> Row]
    BY <1>t, SnapshotType
  <2>3. cycle' \in Cycle /\ cycle'.pc \notin Busy
    BY <1>t, <2>1, <2>2 DEF Cycle, CyclePCs
  <2> QED BY <1>2, <1>u, <1>w, <2>3 DEF RetryRead
<1>3. CASE RetryPut
  <2>1. PICK r \in cycle.todo :
          /\ operations' = [operations EXCEPT ![r] = Retried(cycle.snap[r])]
          /\ cycle' = [cycle EXCEPT !.todo = @ \ {r}, !.snap[r] = NoRow]
    BY <1>3 DEF RetryPut
  <2>2. operations' \in [Rows -> Row]
    BY <1>t, <2>1, RowOperationsType
  <2>3. cycle' \in Cycle /\ cycle'.pc = cycle.pc
    <3> DEFINE snap == [cycle.snap EXCEPT ![r] = NoRow]
    <3>1. snap \in [Rows -> Row]
      BY <1>t, NoRowType
    <3>2. cycle' = [cycle EXCEPT !.todo = @ \ {r}, !.snap = snap]
      BY <1>t, <2>1 DEF Cycle
    <3> HIDE DEF snap
    <3> QED BY <1>t, <3>1, <3>2 DEF Cycle
  <2> QED BY <1>3, <1>t, <1>v, <1>w, <2>2, <2>3 DEF RetryPut
<1>4. CASE CountPending
  <2>1. cycle' \in Cycle /\ cycle'.pc \notin Busy
    <3>1. MaxBatches \in 0..MaxBatches
      OBVIOUS
    <3>2. \/ cycle' = [IdleCycle EXCEPT !.pc = "unwind"]
          \/ cycle' = [IdleCycle EXCEPT !.pc = "dequeue", !.left = MaxBatches]
      BY <1>4 DEF CountPending
    <3> QED BY <3>1, <3>2, IdleTypes DEF Cycle, CyclePCs
  <2> QED BY <1>4, <1>u, <1>w, <2>1 DEF CountPending
<1>5. CASE DequeueRead
  <2> DEFINE pending == WithStatus({"pending"})
             legacy == {r \in pending : ~operations[r].stamped}
  <2>1. pending \in SUBSET Rows /\ legacy \in SUBSET Rows
    BY DEF WithStatus
  <2> HIDE DEF pending, legacy
  <2>2. CASE ClaimBatch(pending, operations)
    BY <1>5, <1>t, <1>v, <1>w, <2>1, <2>2, ClaimBatchType DEF DequeueRead
  <2>3. CASE /\ cycle' = [cycle EXCEPT !.pc = "select", !.todo = legacy, !.snap = Snapshot(pending)]
             /\ UNCHANGED sendClaims
    <3>1. Snapshot(pending) \in [Rows -> Row]
      BY <1>t, SnapshotType
    <3>2. cycle' \in Cycle /\ cycle'.left > 0
      BY <1>5, <1>t, <2>1, <2>3, <3>1 DEF DequeueRead, Cycle, CyclePCs
    <3> QED BY <1>5, <1>t, <1>v, <1>w, <2>3, <3>2 DEF DequeueRead
  <2> QED BY <1>5, <2>2, <2>3 DEF DequeueRead, pending, legacy
<1>6. CASE DequeueQuarantine
  <2>1. PICK r \in cycle.todo :
          /\ operations' = [operations EXCEPT ![r] = Quarantined(cycle.snap[r])]
          /\ cycle' = [cycle EXCEPT !.todo = @ \ {r}]
    BY <1>6 DEF DequeueQuarantine
  <2>2. operations' \in [Rows -> Row]
    BY <1>t, <2>1, RowOperationsType
  <2>3. cycle' \in Cycle /\ cycle'.left = cycle.left
    BY <1>t, <2>1 DEF Cycle
  <2> QED BY <1>6, <1>t, <1>v, <1>w, <2>2, <2>3 DEF DequeueQuarantine
<1>7. CASE DequeueSelect
  BY <1>7, <1>t, <1>v, <1>w, ClaimBatchType DEF DequeueSelect
<1>8. CASE MarkSyncing
  <2>1. PICK r \in cycle.todo :
          /\ operations' = [operations EXCEPT ![r] = Syncing(cycle.snap[r])]
          /\ cycle' = [cycle EXCEPT !.todo = @ \ {r}, !.pc = IF cycle.todo = {r} THEN "send" ELSE @]
    BY <1>8 DEF MarkSyncing
  <2>2. operations' \in [Rows -> Row]
    BY <1>t, <2>1, RowOperationsType
  <2>3. cycle' \in Cycle /\ cycle'.left = cycle.left
    BY <1>t, <2>1 DEF Cycle, CyclePCs
  <2> QED BY <1>8, <1>t, <1>v, <1>w, <2>2, <2>3 DEF MarkSyncing
<1>9. ASSUME NEW result \in [Rows -> Results],
             cycle.pc = "send",
             cycle' = [cycle EXCEPT !.pc = "settle", !.todo = cycle.batch, !.snap = NoSnapshot,
                                    !.result = result]
      PROVE  cycle' \in Cycle /\ cycle'.left > 0
  BY <1>t, <1>9, NoSnapshotType DEF Cycle, CyclePCs
<1>10. CASE BatchAnswered
  <2>1. PICK answer \in [cycle.batch -> Answers] :
          /\ GatewayApplies(cycle.snap, {r \in cycle.batch : answer[r] = "ok"})
          /\ cycle' = [cycle EXCEPT !.pc = "settle", !.todo = cycle.batch, !.snap = NoSnapshot,
                         !.result = [r \in Rows |-> IF r \in cycle.batch THEN answer[r] ELSE "ok"]]
    BY <1>10 DEF BatchAnswered
  <2>2. [r \in Rows |-> IF r \in cycle.batch THEN answer[r] ELSE "ok"] \in [Rows -> Results]
    BY DEF Results, Answers
  <2>3. cycle' \in Cycle /\ cycle'.left > 0
    BY <1>9, <1>10, <2>1, <2>2 DEF BatchAnswered
  <2>4. applied' \in [Records -> SUBSET Edits] /\ processed' \subseteq Rows
    <3>1. {r \in cycle.batch : answer[r] = "ok"} \in SUBSET Rows
      BY <1>t
    <3> QED BY <1>t, <2>1, <3>1, GatewayType
  <2> QED BY <1>10, <1>u, <2>3, <2>4 DEF BatchAnswered, TypeOK
<1>11. CASE BatchFailed
  <2>1. PICK why \in Failures, done \in SUBSET cycle.batch :
          /\ GatewayApplies(cycle.snap, done)
          /\ authBlocked' = (authBlocked \/ why = "unauthorized")
          /\ paused' = (paused \/ why = "unauthorized")
          /\ cycle' = [cycle EXCEPT !.pc = "settle", !.todo = cycle.batch, !.snap = NoSnapshot,
                         !.result = [r \in Rows |-> IF r \in cycle.batch THEN why ELSE "ok"]]
    BY <1>11 DEF BatchFailed
  <2>2. [r \in Rows |-> IF r \in cycle.batch THEN why ELSE "ok"] \in [Rows -> Results]
    BY DEF Results, Answers
  <2>3. cycle' \in Cycle /\ cycle'.left > 0
    BY <1>9, <1>11, <2>1, <2>2 DEF BatchFailed
  <2>4. applied' \in [Records -> SUBSET Edits] /\ processed' \subseteq Rows
    <3>1. done \in SUBSET Rows
      BY <1>t
    <3> QED BY <1>t, <2>1, <3>1, GatewayType
  <2>5. authBlocked' \in BOOLEAN /\ paused' \in BOOLEAN
    BY <2>1
  <2>6. QueueTypeOK'
    BY <1>11, <1>t, <2>5 DEF BatchFailed, QueueTypeOK
  <2> QED BY <1>11, <2>3, <2>4, <2>5, <2>6 DEF BatchFailed, TypeOK
<1>12. ASSUME NEW r \in Rows, DropClaim(r)
       PROVE  sendClaims' \in [Rows -> Owners \cup {None}]
  BY <1>t, <1>12 DEF DropClaim
<1>13. CASE SettleRead
  <2>1. PICK r \in cycle.todo :
          IF operations[r].status \in Active
          THEN /\ cycle' = [cycle EXCEPT !.pc = "settlePut", !.snap = Snapshot({r})]
               /\ UNCHANGED sendClaims
          ELSE AfterSettling(r) /\ DropClaim(r)
    BY <1>13 DEF SettleRead
  <2>2. r \in Rows /\ cycle.left > 0
    BY <1>13, <1>t, <2>1 DEF SettleRead
  <2>3. CASE operations[r].status \in Active
    <3>1. Snapshot({r}) \in [Rows -> Row]
      BY <1>t, SnapshotType
    <3>2. cycle' \in Cycle /\ cycle'.left > 0
      BY <1>t, <2>1, <2>2, <2>3, <3>1 DEF Cycle, CyclePCs
    <3> QED BY <1>13, <1>t, <1>v, <1>w, <2>1, <2>3, <3>2 DEF SettleRead
  <2>4. CASE operations[r].status \notin Active
    BY <1>13, <1>t, <1>v, <1>w, <1>12, <2>1, <2>2, <2>4, AfterSettlingType DEF SettleRead
  <2> QED BY <2>3, <2>4
<1>14. CASE SettlePut
  <2>1. PICK r \in cycle.todo :
          /\ operations' = [operations EXCEPT ![r] = Settled(cycle.snap[r], cycle.result[r])]
          /\ AfterSettling(r)
          /\ DropClaim(r)
    BY <1>14 DEF SettlePut
  <2>2. r \in Rows /\ cycle.left > 0
    BY <1>14, <1>t, <2>1 DEF SettlePut
  <2>3. operations' \in [Rows -> Row]
    BY <1>t, <2>1, <2>2, RowOperationsType
  <2> QED BY <1>14, <1>v, <1>w, <1>12, <2>1, <2>2, <2>3, AfterSettlingType DEF SettlePut
<1>15. CASE BatchesExhausted
  <2>1. cycle' \in Cycle /\ cycle'.pc \notin Busy
    BY <1>15, IdleTypes DEF BatchesExhausted, Cycle, CyclePCs
  <2> QED BY <1>15, <1>u, <1>w, <2>1 DEF BatchesExhausted
<1>16. CASE Unwind
  <2>1. cycle' \in Cycle /\ cycle'.pc \notin Busy
    BY <1>16, IdleTypes DEF Unwind, IdleCycle
  <2>2. sendClaims' \in [Rows -> Owners \cup {None}]
    BY <1>16, <1>t DEF Unwind, Freed
  <2> QED BY <1>16, <1>t, <1>v, <1>w, <2>1, <2>2 DEF Unwind
<1> QED BY <1>1, <1>2, <1>3, <1>4, <1>5, <1>6, <1>7, <1>8, <1>10, <1>11, <1>13, <1>14, <1>15, <1>16
        DEF CycleProgress

\* The inline flush.
LEMMA SentCopyType ==
  ASSUME TypeOK
  PROVE  SentCopy \in [Rows -> Row]
<1>1. cycle.snap \in [Rows -> Row] /\ \A x \in FlushRecords : flush[x].sent \in Row
  BY DEF TypeOK, Cycle, Flush
<1>2. ASSUME NEW r \in Rows, \E x \in FlushRecords : FlushSends(x, r)
      PROVE  flush[CHOOSE x \in FlushRecords : FlushSends(x, r)].sent \in Row
  BY <1>1, <1>2
<1> QED BY <1>1, <1>2, NoRowType DEF SentCopy

LEMMA FlushStepType ==
  ASSUME TypeOK, FlushStep
  PROVE  TypeOK'
<1> DEFINE FlushOK == /\ flush \in [FlushRecords -> Flush]
                      /\ \A x \in FlushRecords : flush[x].pc # "idle" => flush[x].row \in Rows
<1>t. /\ QueueTypeOK /\ operations \in [Rows -> Row]
      /\ sendClaims \in [Rows -> Owners \cup {None}]
      /\ FlushOK
  BY DEF TypeOK, QueueTypeOK
<1>v. ASSUME KeepQueue, operations' \in [Rows -> Row], sendClaims' \in [Rows -> Owners \cup {None}],
             FlushOK', UNCHANGED <<cycle, login, paused, applied, processed, restarts>>
      PROVE  TypeOK'
  BY <1>t, <1>v DEF KeepQueue, KeepCalls, QueueTypeOK, TypeOK
<1>w. ASSUME NEW x \in FlushRecords, ReleaseFlush(x)
      PROVE  sendClaims' \in [Rows -> Owners \cup {None}] /\ FlushOK'
  BY <1>t, <1>w, IdleTypes DEF ReleaseFlush, IdleFlush
<1>1. ASSUME NEW x \in FlushRecords, FlushClaim(x) PROVE TypeOK'
  <2>1. PICK r \in Rows :
          /\ sendClaims' = [sendClaims EXCEPT ![r] = x]
          /\ flush' = [flush EXCEPT ![x].pc = "get", ![x].row = r]
    BY <1>1 DEF FlushClaim
  <2>2. sendClaims' \in [Rows -> Owners \cup {None}]
    BY <1>t, <2>1 DEF Owners
  <2>3. FlushOK'
    BY <1>t, <2>1 DEF Flush, FlushPCs
  <2> QED BY <1>1, <1>t, <1>v, <2>2, <2>3 DEF FlushClaim
<1>2. ASSUME NEW x \in FlushRecords, FlushGet(x) PROVE TypeOK'
  <2>1. CASE ReleaseFlush(x)
    BY <1>2, <1>t, <1>v, <1>w, <2>1 DEF FlushGet
  <2>2. CASE /\ flush' = [flush EXCEPT ![x].pc = "mark", ![x].sent = operations[flush[x].row]]
             /\ UNCHANGED sendClaims
    <3>1. operations[flush[x].row] \in Row
      BY <1>2, <1>t DEF FlushGet
    <3>2. FlushOK'
      BY <1>2, <1>t, <2>2, <3>1 DEF FlushGet, Flush, FlushPCs
    <3> QED BY <1>2, <1>t, <1>v, <2>2, <3>2 DEF FlushGet
  <2> QED BY <1>2, <2>1, <2>2 DEF FlushGet
<1>3. ASSUME NEW x \in FlushRecords, FlushMark(x) PROVE TypeOK'
  <2>1. flush[x].sent \in Row
    BY <1>t DEF Flush
  <2>2. operations' \in [Rows -> Row]
    BY <1>3, <1>t, <2>1, RowOperationsType DEF FlushMark
  <2>3. FlushOK'
    BY <1>3, <1>t DEF FlushMark, Flush, FlushPCs
  <2> QED BY <1>3, <1>t, <1>v, <2>2, <2>3 DEF FlushMark
<1>4. ASSUME NEW x \in FlushRecords, FlushAnswered(x) PROVE TypeOK'
  <2>1. PICK answer \in Answers :
          /\ flush' = [flush EXCEPT ![x].pc = "settle", ![x].result = answer]
          /\ GatewayApplies(SentCopy, IF answer = "ok" THEN {flush[x].row} ELSE {})
    BY <1>4 DEF FlushAnswered
  <2>2. FlushOK'
    <3>1. answer \in Results
      BY DEF Results
    <3>2. flush'[x].row = flush[x].row /\ flush' \in [FlushRecords -> Flush]
      BY <1>t, <2>1, <3>1 DEF Flush, FlushPCs
    <3>3. flush[x].row \in Rows /\ \A y \in FlushRecords : y # x => flush'[y] = flush[y]
      BY <1>4, <1>t, <2>1 DEF FlushAnswered
    <3> QED BY <1>t, <3>2, <3>3
  <2>3. (IF answer = "ok" THEN {flush[x].row} ELSE {}) \in SUBSET Rows
    BY <1>4, <1>t DEF FlushAnswered
  <2>4. applied' \in [Records -> SUBSET Edits] /\ processed' \subseteq Rows
    BY <2>1, <2>3, SentCopyType, GatewayType
  <2> QED BY <1>4, <1>t, <2>2, <2>4 DEF FlushAnswered, TypeOK, QueueTypeOK, queueVars
<1>5. ASSUME NEW x \in FlushRecords, FlushFailed(x) PROVE TypeOK'
  <2>1. PICK why \in Failures, S \in {{}, {flush[x].row}} :
          /\ flush' = [flush EXCEPT ![x].pc = "settle", ![x].result = why]
          /\ authBlocked' = (authBlocked \/ why = "unauthorized")
          /\ GatewayApplies(SentCopy, S)
    BY <1>5 DEF FlushFailed
  <2>2. FlushOK'
    <3>1. why \in Results
      BY DEF Results
    <3>2. flush'[x].row = flush[x].row /\ flush' \in [FlushRecords -> Flush]
      BY <1>t, <2>1, <3>1 DEF Flush, FlushPCs
    <3>3. flush[x].row \in Rows /\ \A y \in FlushRecords : y # x => flush'[y] = flush[y]
      BY <1>5, <1>t, <2>1 DEF FlushFailed
    <3> QED BY <1>t, <3>2, <3>3
  <2>3. S \in SUBSET Rows
    BY <1>5, <1>t DEF FlushFailed
  <2>4. applied' \in [Records -> SUBSET Edits] /\ processed' \subseteq Rows
    BY <2>1, <2>3, SentCopyType, GatewayType
  <2>5. authBlocked' \in BOOLEAN
    BY <2>1
  <2> QED BY <1>5, <1>t, <2>2, <2>4, <2>5 DEF FlushFailed, TypeOK, QueueTypeOK
<1>6. ASSUME NEW x \in FlushRecords, FlushSettle(x) PROVE TypeOK'
  <2> DEFINE row == operations[flush[x].row]
  <2>1. row \in Row
    BY <1>6, <1>t DEF FlushSettle
  <2>2. Resumed(row) \in Row /\ Pending(row) \in Row
    BY <2>1, RowOperationsType
  <2>3. CASE ReleaseFlush(x)
    BY <1>6, <1>t, <1>v, <1>w, <2>3 DEF FlushSettle
  <2>4. ASSUME NEW value \in Row, flush' = [flush EXCEPT ![x].pc = "put", ![x].value = value],
               UNCHANGED sendClaims
        PROVE  TypeOK'
    <3>1. FlushOK'
      BY <1>6, <1>t, <2>4 DEF FlushSettle, Flush, FlushPCs
    <3> QED BY <1>6, <1>t, <1>v, <2>4, <3>1 DEF FlushSettle
  <2>5. CASE flush' = [flush EXCEPT ![x].pc = "reget"] /\ UNCHANGED sendClaims
    <3>1. FlushOK'
      BY <1>6, <1>t, <2>5 DEF FlushSettle, Flush, FlushPCs
    <3> QED BY <1>6, <1>t, <1>v, <2>5, <3>1 DEF FlushSettle
  <2> QED BY <1>6, <2>2, <2>3, <2>4, <2>5 DEF FlushSettle
<1>7. ASSUME NEW x \in FlushRecords, FlushReget(x) PROVE TypeOK'
  <2> DEFINE value == Settled(operations[flush[x].row], flush[x].result)
  <2>1. value \in Row
    <3>1. operations[flush[x].row] \in Row /\ flush[x].result \in Results
      BY <1>7, <1>t DEF FlushReget, Flush
    <3> QED BY <3>1, RowOperationsType
  <2>2. CASE ReleaseFlush(x)
    BY <1>7, <1>t, <1>v, <1>w, <2>2 DEF FlushReget
  <2>3. CASE flush' = [flush EXCEPT ![x].pc = "put", ![x].value = value] /\ UNCHANGED sendClaims
    <3> HIDE DEF value
    <3>1. FlushOK'
      BY <1>7, <1>t, <2>1, <2>3 DEF FlushReget, Flush, FlushPCs
    <3> QED BY <1>7, <1>t, <1>v, <2>3, <3>1 DEF FlushReget
  <2> QED BY <1>7, <2>2, <2>3 DEF FlushReget
<1>8. ASSUME NEW x \in FlushRecords, FlushPut(x) PROVE TypeOK'
  <2>1. flush[x].value \in Row
    BY <1>t DEF Flush
  <2>2. operations' \in [Rows -> Row]
    BY <1>8, <1>t, <2>1 DEF FlushPut
  <2> QED BY <1>8, <1>v, <1>w, <2>2 DEF FlushPut
<1> QED BY <1>1, <1>2, <1>3, <1>4, <1>5, <1>6, <1>7, <1>8 DEF FlushStep, FlushProgress

\* resumeSyncAfterAuth()
LEMMA LoginStepType ==
  ASSUME TypeOK, LoginStep
  PROVE  TypeOK'
<1>t. /\ QueueTypeOK /\ operations \in [Rows -> Row] /\ login \in [Logins -> Login]
      /\ authBlocked \in BOOLEAN
  BY DEF TypeOK, QueueTypeOK
<1>v. ASSUME KeepCalls, operations' \in [Rows -> Row], UNCHANGED sendClaims, authBlocked' \in BOOLEAN,
             login' \in [Logins -> Login],
             UNCHANGED <<cycle, flush, paused, applied, processed, restarts>>
      PROVE  TypeOK'
  BY <1>t, <1>v DEF KeepCalls, QueueTypeOK, TypeOK
<1>1. ASSUME NEW u \in Logins, LoginStart(u) PROVE TypeOK'
  <2>1. login' \in [Logins -> Login]
    BY <1>1, <1>t DEF LoginStart, Login
  <2> QED BY <1>1, <1>t, <1>v, <2>1 DEF LoginStart
<1>2. ASSUME NEW u \in Logins, LoginRead(u) PROVE TypeOK'
  <2>1. PICK held \in SUBSET Rows :
          login' = [login EXCEPT ![u] =
                     [pc |-> "put", todo |-> held, snap |-> Snapshot(held), any |-> held # {}]]
    BY <1>2 DEF LoginRead, WithStatus
  <2>2. login' \in [Logins -> Login]
    <3>1. Snapshot(held) \in [Rows -> Row]
      BY <1>t, SnapshotType
    <3> QED BY <1>t, <2>1, <3>1 DEF Login
  <2> QED BY <1>2, <1>t, <1>v, <2>2 DEF LoginRead, queueVars, KeepCalls
<1>3. ASSUME NEW u \in Logins, LoginPut(u) PROVE TypeOK'
  <2>1. PICK r \in login[u].todo :
          /\ operations' = [operations EXCEPT ![r] = Resumed(login[u].snap[r])]
          /\ login' = [login EXCEPT ![u].todo = @ \ {r}, ![u].snap[r] = NoRow]
    BY <1>3 DEF LoginPut
  <2>2. r \in Rows /\ login[u].snap \in [Rows -> Row]
    BY <1>t, <2>1 DEF Login
  <2>3. operations' \in [Rows -> Row]
    BY <1>t, <2>1, <2>2, RowOperationsType
  <2>4. login' \in [Logins -> Login]
    <3> DEFINE snap == [login[u].snap EXCEPT ![r] = NoRow]
               call == [login[u] EXCEPT !.todo = @ \ {r}, !.snap = snap]
    <3>1. snap \in [Rows -> Row]
      BY <2>2, NoRowType
    <3>2. login' = [login EXCEPT ![u] = call]
      BY <1>t, <2>1 DEF Login
    <3> HIDE DEF snap
    <3>3. call \in Login
      BY <1>t, <3>1 DEF Login
    <3> QED BY <1>t, <3>2, <3>3
  <2> QED BY <1>3, <1>t, <1>v, <2>3, <2>4 DEF LoginPut
<1>4. ASSUME NEW u \in Logins, LoginDone(u) PROVE TypeOK'
  <2>1. login' \in [Logins -> Login]
    BY <1>4, <1>t, IdleTypes DEF LoginDone
  <2> QED BY <1>4, <1>t, <1>v, <2>1 DEF LoginDone
<1> QED BY <1>1, <1>2, <1>3, <1>4 DEF LoginStep

LEMMA RestartType ==
  ASSUME TypeOK, Restart
  PROVE  TypeOK'
<1>t. /\ QueueTypeOK /\ operations \in [Rows -> Row] /\ enqueues \in [Writers -> Call]
  BY DEF TypeOK, QueueTypeOK
<1>1. operations' \in [Rows -> Row]
  <2>1. PICK old : operations' = [r \in Rows |-> Recovered(operations[r], r \in old)]
    BY DEF Restart
  <2>2. ASSUME NEW r \in Rows PROVE Recovered(operations[r], r \in old) \in Row
    <3>1. (r \in old) \in BOOLEAN
      OBVIOUS
    <3> QED BY <1>t, <3>1, RowOperationsType
  <2> QED BY <2>1, <2>2
<1>2. enqueues' \in [Writers -> Call] /\ upkeep' \in [Upkeep -> [row: Rows \cup {0}, value: Row]]
  BY <1>t, IdleTypes DEF Restart
<1>3. sendClaims' \in [Rows -> Owners \cup {None}]
  BY DEF Restart
<1>4. QueueTypeOK'
  BY <1>t, <1>1, <1>2, <1>3 DEF Restart, QueueTypeOK
<1>5. applied' \in [Records -> SUBSET Edits] /\ processed' \subseteq Rows
  <2>1. PICK done \in SUBSET {r \in Rows : Transit(r) # {}} : GatewayApplies(SentCopy, done)
    BY DEF Restart
  <2>2. done \in SUBSET Rows
    BY <2>1
  <2> QED BY <2>1, <2>2, SentCopyType, GatewayType
<1>6. restarts' \in 0..MaxRestarts
  BY DEF Restart, TypeOK
<1>7. cycle' \in Cycle /\ flush' \in [FlushRecords -> Flush] /\ login' \in [Logins -> Login]
  BY IdleTypes DEF Restart
<1>8. cycle'.pc = "idle" /\ \A x \in FlushRecords : flush'[x].pc = "idle"
  BY DEF Restart, IdleCycle, IdleFlush
<1> QED BY <1>4, <1>5, <1>6, <1>7, <1>8 DEF Restart, TypeOK

\* Whatever the interleaving, every variable of the queue and of the engine
\* keeps the shape the code gives it.
THEOREM TypeCorrect == Spec => []TypeOK
<1>1. Init => TypeOK
  BY InitType
<1>2. TypeOK /\ [Next]_vars => TypeOK'
  <2> SUFFICES ASSUME TypeOK, [Next]_vars PROVE TypeOK'
    OBVIOUS
  <2>1. CASE QueueNext /\ UNCHANGED engineVars
    BY <2>1, QueueStepType
  <2>2. CASE CycleStart \/ CycleProgress
    BY <2>2, CycleStepType
  <2>3. CASE FlushStep
    BY <2>3, FlushStepType
  <2>4. CASE LoginStep
    BY <2>4, LoginStepType
  <2>5. CASE Restart
    BY <2>5, RestartType
  <2>6. CASE UNCHANGED vars
    BY <2>6 DEF vars, queueVars, engineVars, TypeOK, QueueTypeOK
  <2> QED BY <2>1, <2>2, <2>3, <2>4, <2>5, <2>6 DEF Next
<1> QED BY <1>1, <1>2, PTL DEF Spec
=============================================================================
