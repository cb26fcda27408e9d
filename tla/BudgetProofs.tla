---------------------------- MODULE BudgetProofs ----------------------------
(***************************************************************************)
(* The retry budget, for every value of the constants: the cycle never     *)
(* sends a row it has sent MaxRetries times in vain since the user asked,  *)
(* unless an enqueue() has written an older copy over it.  The count the   *)
(* code compares is part of the row, and rows are rewritten from copies,   *)
(* so the invariant compares every copy the cycle may still write with the *)
(* attempts really made.                                                   *)
(***************************************************************************)
EXTENDS SendOwnershipProofs, RetryBudget

USE QueueAssumption, EngineAssumption

-----------------------------------------------------------------------------
\* A copy of row r tells at least the attempts made, and leaves one if it may
\* be sent.
Fits(c, r) ==
  \/ r \in rewound
  \/ /\ c.status \in Active => attempts[r] <= c.retries
     /\ c.status \in {"pending", "syncing"} => attempts[r] < MaxRetries

Counted == attempts \in [Rows -> 0..MaxRetries]

StoreFits == \A r \in Rows : Fits(operations[r], r)

\* What enqueue() writes is compared when it is written; what the upkeep calls
\* write is either asked for by the user or no longer sent.
CallsFit ==
  /\ \A w \in Writers : enqueues[w].value.status # "syncing"
  /\ \A m \in Upkeep : upkeep[m].value.status \in {"absent", "pending", "dead_letter"}

\* The copies of the cycle: failed ones in retryFailed(), pending ones from
\* dequeue() on, an active one in a settlement.
CycleFits ==
  /\ \A r \in Rows : Fits(cycle.snap[r], r)
  /\ cycle.pc = "retry" => \A r \in cycle.todo : cycle.snap[r].status = "failed"
  /\ cycle.pc = "mark" => cycle.todo \subseteq cycle.batch
  /\ cycle.pc \in {"mark", "send"} => \A r \in cycle.batch : cycle.snap[r].status = "pending"
  /\ cycle.pc = "settlePut" =>
       \A r \in cycle.todo : Oldest(r, cycle.todo) => cycle.snap[r].status \in Active

\* A flush is the user's own attempt, and the cycle makes none beside it.
FlushesFit ==
  \A x \in FlushRecords :
    flush[x].pc \in {"send", "settle", "reget", "put"} => attempts[flush[x].row] = 0

\* The inductive invariant.
CopiesFit == Counted /\ StoreFits /\ CallsFit /\ CycleFits /\ FlushesFit

-----------------------------------------------------------------------------
(***************************************************************************)
(* Copies and the operators on rows.                                       *)
(***************************************************************************)
LEMMA OthersFit ==
  ASSUME NEW c, c.status \notin Active, NEW r
  PROVE  Fits(c, r)
BY DEF Fits, Active

LEMMA EmptySlotFits == NoRow.status = "absent" /\ \A r : Fits(NoRow, r)
<1>1. NoRow.status = "absent"
  BY DEF NoRow, NewRow
<1> QED BY <1>1, OthersFit DEF Active

LEMMA QuarantinedFits ==
  ASSUME NEW c \in Row, NEW r
  PROVE  Fits(Quarantined(c), r)
<1>1. Quarantined(c).status = "dead_letter"
  BY DEF Quarantined, Row
<1> QED BY <1>1, OthersFit DEF Active

\* retryFailed() requeues a failed row only while an attempt is left.
LEMMA RetriedFits ==
  ASSUME Counted, NEW r \in Rows, NEW c \in Row, c.status = "failed", Fits(c, r)
  PROVE  Fits(Retried(c), r)
<1>1. attempts[r] \in 0..MaxRetries /\ c.retries \in 0..MaxRetries
  BY DEF Counted, Row
<1>2. CASE ~c.stamped
  BY <1>2, QuarantinedFits DEF Retried
<1>3. CASE c.stamped /\ c.retries >= MaxRetries
  <2>1. Retried(c).status = "dead_letter"
    BY <1>3 DEF Retried, Row
  <2> QED BY <2>1, OthersFit DEF Active
<1>4. CASE c.stamped /\ ~(c.retries >= MaxRetries)
  <2>1. Retried(c).status = "pending" /\ Retried(c).retries = c.retries
    BY <1>4 DEF Retried, Pending, Row
  <2> QED BY <1>1, <1>4, <2>1 DEF Fits, Active
<1> QED BY <1>2, <1>3, <1>4

LEMMA MarkedFits ==
  ASSUME NEW r, NEW c \in Row, Fits(c, r)
  PROVE  /\ c.status = "pending" => Fits(Syncing(c), r)
         /\ c.status = "syncing" => Fits(Pending(c), r)
BY DEF Fits, Syncing, Pending, Row, Active

LEMMA FitTypes ==
  ASSUME TypeOK
  PROVE  /\ operations \in [Rows -> Row]
         /\ enqueues \in [Writers -> Call]
         /\ upkeep \in [Upkeep -> [row: Rows \cup {0}, value: Row]]
         /\ saved \in [Records -> SUBSET Edits]
         /\ cycle \in Cycle /\ cycle.snap \in [Rows -> Row]
         /\ cycle.result \in [Rows -> Results]
         /\ cycle.todo \subseteq Rows /\ cycle.batch \subseteq Rows
         /\ flush \in [FlushRecords -> Flush]
         /\ \A x \in FlushRecords : flush[x].pc # "idle" => flush[x].row \in Rows
         /\ login \in [Logins -> Login]
BY DEF TypeOK, QueueTypeOK, Cycle

LEMMA SnapshotFits ==
  ASSUME StoreFits, NEW Q
  PROVE  \A r \in Rows : Fits(Snapshot(Q)[r], r)
BY EmptySlotFits DEF StoreFits, Snapshot

LEMMA NoSnapshotFits == \A r \in Rows : Fits(NoSnapshot[r], r)
BY EmptySlotFits DEF NoSnapshot

LEMMA FitsInit == BudgetInit => CopiesFit
<1> SUFFICES ASSUME BudgetInit PROVE CopiesFit
  OBVIOUS
<1>0. Init /\ attempts = [r \in Rows |-> 0]
  BY DEF BudgetInit
<1>1. Counted
  BY <1>0 DEF Counted
<1>2. TypeOK
  BY <1>0, InitType
<1>3. ASSUME NEW c \in Row, NEW r \in Rows PROVE Fits(c, r)
  BY <1>0 DEF Fits, Row
<1>4. StoreFits
  BY <1>2, <1>3, FitTypes DEF StoreFits
<1>5. CallsFit
  BY <1>0, EmptySlotFits DEF Init, QueueInit, IdleCall, IdleUpkeep, CallsFit
<1>6. CycleFits
  BY <1>0, NoSnapshotFits DEF Init, IdleCycle, CycleFits
<1>7. FlushesFit
  BY <1>0 DEF Init, IdleFlush, FlushesFit
<1> QED BY <1>1, <1>4, <1>5, <1>6, <1>7 DEF CopiesFit

-----------------------------------------------------------------------------
(***************************************************************************)
(* What a step does to the history.                                        *)
(***************************************************************************)
LEMMA CountedKeeps ==
  ASSUME Counted, Record
  PROVE  Counted'
BY DEF Counted, Record

LEMMA AskedFor ==
  ASSUME Counted, Record, NEW r \in Rows, r \in AskedNow
  PROVE  attempts'[r] = 0 /\ \A c \in Row : Fits(c, r)'
<1>1. attempts'[r] = 0
  BY DEF Record
<1> QED BY <1>1 DEF Fits, Row

\* Without a failed send, a copy that tells the attempts still does.
LEMMA QuietKeeps ==
  ASSUME Counted, Record, NEW r \in Rows, r \notin FailedNow
  PROVE  /\ attempts'[r] \in {0, attempts[r]}
         /\ \A c \in Row : Fits(c, r) => Fits(c, r)'
<1>1. CASE r \in AskedNow
  BY <1>1, AskedFor
<1>2. CASE r \notin AskedNow
  <2>1. attempts'[r] = attempts[r] /\ (r \in rewound => r \in rewound')
    BY <1>2 DEF Record
  <2> QED BY <2>1 DEF Fits
<1> QED BY <1>1, <1>2

LEMMA NoneFailed ==
  ASSUME ~SettlePut
  PROVE  FailedNow = {}
BY DEF FailedNow

LEMMA StoreKeeps ==
  ASSUME TypeOK, Counted, StoreFits, Record, ~SettlePut, UNCHANGED operations
  PROVE  StoreFits'
BY FitTypes, NoneFailed, QuietKeeps DEF StoreFits

LEMMA StorePut ==
  ASSUME TypeOK, Counted, StoreFits, Record, ~SettlePut, NEW r \in Rows, NEW c \in Row,
         operations' = [operations EXCEPT ![r] = c],
         Fits(c, r) \/ r \in AskedNow
  PROVE  StoreFits'
<1>1. Fits(c, r)'
  BY NoneFailed, QuietKeeps, AskedFor
<1>2. ASSUME NEW q \in Rows, q # r PROVE Fits(operations[q], q)'
  <2>1. PICK d \in Row : d = operations[q]
    BY FitTypes
  <2>2. operations'[q] = d
    BY <1>2, <2>1, FitTypes
  <2>3. Fits(d, q)'
    BY <2>1, NoneFailed, QuietKeeps DEF StoreFits
  <2> QED BY <2>2, <2>3 DEF Fits
<1>3. Fits(operations[r], r)'
  BY <1>1, FitTypes DEF Fits
<1> QED BY <1>2, <1>3 DEF StoreFits

LEMMA CycleKeeps ==
  ASSUME TypeOK, Counted, CycleFits, Record, ~SettlePut, UNCHANGED cycle
  PROVE  CycleFits'
<1>1. ASSUME NEW r \in Rows PROVE Fits(cycle.snap[r], r)'
  <2>1. PICK d \in Row : d = cycle.snap[r]
    BY FitTypes
  <2>2. Fits(d, r)'
    BY <2>1, NoneFailed, QuietKeeps DEF CycleFits
  <2> QED BY <2>1, <2>2 DEF Fits
<1> QED BY <1>1 DEF CycleFits

\* The cycle makes no attempt at a row a flush holds.
LEMMA FlushRowQuiet ==
  ASSUME TypeOK, ClaimsAgree, NEW x \in FlushRecords, flush[x].pc # "idle"
  PROVE  flush[x].row \in Rows /\ flush[x].row \notin FailedNow
<1>1. flush[x].row \in Rows /\ sendClaims[flush[x].row] = x
  BY FitTypes DEF ClaimsAgree, HeldByFlush
<1>2. ASSUME flush[x].row \in FailedNow PROVE FALSE
  <2>1. HeldByCycle(flush[x].row)
    BY <1>2 DEF FailedNow, SettlePut, HeldByCycle
  <2> QED BY <1>1, <2>1, SenderTypes DEF ClaimsAgree
<1> QED BY <1>1, <1>2

LEMMA FlushesKeep ==
  ASSUME TypeOK, ClaimsAgree, Counted, FlushesFit, Record, UNCHANGED flush
  PROVE  FlushesFit'
BY FlushRowQuiet, QuietKeeps DEF FlushesFit

-----------------------------------------------------------------------------
(***************************************************************************)
(* enqueue() and the upkeep calls.                                         *)
(***************************************************************************)
LEMMA DecideFits ==
  ASSUME TypeOK, CallsFit, NEW w \in Writers, NEW x, NEW edits, NEW quarantine,
         NEW drop, NEW target, NEW value, value.status # "syncing", UNCHANGED upkeep,
         Decide(w, x, edits, quarantine, drop, target, value)
  PROVE  CallsFit'
<1>1. enqueues'[w].value = value /\ \A v \in Writers : v # w => enqueues'[v] = enqueues[v]
  BY FitTypes DEF Decide
<1> QED BY <1>1 DEF CallsFit

LEMMA EnqueueReadFits ==
  ASSUME TypeOK, CallsFit, NEW w \in Writers, NEW x \in Records, NEW kind \in Kinds,
         NEW payload \in SUBSET Edits, EnqueueRead(w, x, kind, payload)
  PROVE  CallsFit' /\ UNCHANGED operations
<1> DEFINE seen == {r \in WithStatus(Active) : operations[r].rec = x}
           unsafe == {r \in seen : ~operations[r].stamped /\ operations[r].status # "syncing"}
           usable == seen \ unsafe
           upserts == {r \in usable : operations[r].kind = "upsert"}
           idle == {r \in upserts : operations[r].status # "syncing"}
           foldable == IF kind = "upsert" THEN MergeTargets(idle) ELSE {}
           drop == IF kind = "delete" THEN idle ELSE {}
           deps == IF kind = "delete" THEN upserts \ idle ELSE {}
<1>1. foldable \subseteq {r \in Rows : operations[r].status # "syncing"}
  BY DEF MergeTargets, WithStatus
<1>2. /\ \/ Decide(w, x, payload, unsafe, {}, 0, NoRow)
         \/ \E r \in foldable :
              Decide(w, x, payload, unsafe, {}, r, Merged(operations[r], payload))
         \/ Decide(w, x, payload, unsafe, drop, created + 1, NewRow(x, kind, payload, deps))
      /\ UNCHANGED <<operations, upkeep>>
  BY DEF EnqueueRead
<1> HIDE DEF unsafe, foldable, drop, deps
<1>3. CASE Decide(w, x, payload, unsafe, {}, 0, NoRow)
  BY <1>2, <1>3, EmptySlotFits, DecideFits
<1>4. ASSUME NEW r \in foldable,
             Decide(w, x, payload, unsafe, {}, r, Merged(operations[r], payload))
      PROVE  CallsFit'
  <2>1. Merged(operations[r], payload).status # "syncing"
    BY <1>1, FitTypes DEF Merged, Row
  <2> QED BY <1>2, <1>4, <2>1, DecideFits
<1>5. CASE Decide(w, x, payload, unsafe, drop, created + 1, NewRow(x, kind, payload, deps))
  <2>1. NewRow(x, kind, payload, deps).status # "syncing"
    BY DEF NewRow
  <2> QED BY <1>2, <1>5, <2>1, DecideFits
<1> QED BY <1>2, <1>3, <1>4, <1>5

\* A copy enqueue() writes tells the attempts, or is recorded as one that does not.
LEMMA EnqueueReturnFits ==
  ASSUME TypeOK, Counted, StoreFits, CallsFit, Record, ~SettlePut,
         NEW w \in Writers, EnqueueReturn(w)
  PROVE  StoreFits' /\ CallsFit'
<1> DEFINE call == enqueues[w]
<1>1. /\ call.target \in Rows \cup {0} /\ call.value \in Row /\ call.value.status # "syncing"
      /\ enqueues' = [enqueues EXCEPT ![w] = IdleCall] /\ UNCHANGED upkeep
  BY FitTypes DEF EnqueueReturn, CallsFit, Call
<1>2. CallsFit'
  BY <1>1, FitTypes, EmptySlotFits DEF CallsFit, IdleCall
<1>3. CASE call.target = 0
  <2>1. UNCHANGED operations
    BY <1>3 DEF EnqueueReturn
  <2> QED BY <1>2, <2>1, StoreKeeps
<1>4. CASE call.target # 0
  <2>1. PICK r \in Rows : r = call.target
    BY <1>1, <1>4
  <2>2. PICK c \in Row : c = call.value
    BY <1>1
  <2>3. operations' = [operations EXCEPT ![r] = c]
    BY <1>4, <2>1, <2>2 DEF EnqueueReturn
  <2>4. CASE r \in ForgottenNow \/ r \in AskedNow
    <3>1. Fits(c, r)'
      <4>1. CASE r \in AskedNow
        BY <4>1, AskedFor
      <4>2. CASE r \notin AskedNow
        <5>1. r \in rewound'
          BY <2>4, <4>2 DEF Record
        <5> QED BY <5>1 DEF Fits
      <4> QED BY <4>1, <4>2
    <3>2. ASSUME NEW q \in Rows, q # r PROVE Fits(operations[q], q)'
      <4>1. PICK d \in Row : d = operations[q]
        BY FitTypes
      <4>2. operations'[q] = d
        BY <3>2, <2>3, <4>1, FitTypes
      <4>3. Fits(d, q)'
        BY <4>1, NoneFailed, QuietKeeps DEF StoreFits
      <4> QED BY <4>2, <4>3 DEF Fits
    <3>3. Fits(operations[r], r)'
      BY <2>3, <3>1, FitTypes DEF Fits
    <3>4. StoreFits'
      BY <3>2, <3>3 DEF StoreFits
    <3> QED BY <1>2, <3>4
  <2>5. CASE r \notin ForgottenNow
    <3>1. ~(c.retries < attempts[r]) /\ ~(c.status = "pending" /\ attempts[r] = MaxRetries)
      BY <2>1, <2>2, <2>5 DEF ForgottenNow
    <3>2. attempts[r] \in 0..MaxRetries /\ c.retries \in 0..MaxRetries
      BY DEF Counted, Row
    <3>3. attempts[r] <= c.retries
      BY <3>1, <3>2
    <3>4. c.status = "pending" => attempts[r] < MaxRetries
      BY <3>1, <3>2
    <3>5. Fits(c, r)
      BY <1>1, <2>2, <3>3, <3>4 DEF Fits
    <3>6. StoreFits'
      BY <2>3, <3>5, StorePut
    <3> QED BY <1>2, <3>6
  <2> QED BY <2>4, <2>5
<1> QED BY <1>3, <1>4

LEMMA UpkeepPutFits ==
  ASSUME TypeOK, Counted, StoreFits, CallsFit, Record, ~SettlePut,
         NEW m \in Upkeep, UpkeepPut(m)
  PROVE  StoreFits' /\ CallsFit'
<1>1. upkeep[m].row \in Rows /\ upkeep[m].value \in Row
  BY FitTypes DEF UpkeepPut
<1>2. PICK r \in Rows : r = upkeep[m].row
  BY <1>1
<1>3. PICK c \in Row : c = upkeep[m].value
  BY <1>1
<1>4. operations' = [operations EXCEPT ![r] = c]
  BY <1>2, <1>3 DEF UpkeepPut
<1>5. Fits(c, r) \/ r \in AskedNow
  <2>1. CASE c.status = "pending"
    BY <1>2, <1>3, <2>1 DEF AskedNow
  <2>2. CASE c.status # "pending"
    BY <1>3, <2>2, OthersFit DEF CallsFit, Active
  <2> QED BY <2>1, <2>2
<1>6. StoreFits'
  BY <1>4, <1>5, StorePut
<1>7. CallsFit'
  BY FitTypes, EmptySlotFits DEF UpkeepPut, IdleUpkeep, CallsFit
<1> QED BY <1>6, <1>7

LEMMA QueueStepFits ==
  ASSUME TypeOK, Counted, StoreFits, CallsFit, Record, ~SettlePut, QueueNext
  PROVE  StoreFits' /\ CallsFit'
<1>1. ASSUME NEW w \in Writers, NEW x \in Records, NEW e \in Edits, Save(w, x, e)
      PROVE  StoreFits' /\ CallsFit'
  <2>1. EnqueueRead(w, x, "upsert", saved[x] \cup {e}) /\ "upsert" \in Kinds
    BY <1>1 DEF Save, Kinds
  <2>2. saved[x] \cup {e} \in SUBSET Edits
    BY FitTypes
  <2> QED BY <2>1, <2>2, EnqueueReadFits, StoreKeeps
<1>2. ASSUME NEW w \in Writers, NEW x \in Records, Delete(w, x)
      PROVE  StoreFits' /\ CallsFit'
  <2>1. EnqueueRead(w, x, "delete", {}) /\ "delete" \in Kinds
    BY <1>2 DEF Delete, Kinds
  <2> QED BY <2>1, EnqueueReadFits, StoreKeeps
<1>3. ASSUME NEW w \in Writers, EnqueueQuarantine(w)
      PROVE  StoreFits' /\ CallsFit'
  <2>1. PICK r \in enqueues[w].quarantine :
          /\ operations' = [operations EXCEPT ![r] = Quarantined(enqueues[w].snap[r])]
          /\ enqueues' = [enqueues EXCEPT ![w].quarantine = @ \ {r}, ![w].snap[r] = NoRow]
    BY <1>3 DEF EnqueueQuarantine
  <2>2. r \in Rows /\ enqueues[w].snap[r] \in Row
    BY FitTypes DEF Call
  <2>3. PICK c \in Row : c = Quarantined(enqueues[w].snap[r]) /\ Fits(c, r)
    BY <2>2, RowOperationsType, QuarantinedFits
  <2>4. operations' = [operations EXCEPT ![r] = c]
    BY <2>1, <2>3
  <2>5. StoreFits'
    BY <2>2, <2>3, <2>4, StorePut
  <2>6. \A v \in Writers : enqueues'[v].value = enqueues[v].value
    BY FitTypes, <2>1 DEF Call
  <2> QED BY <1>3, <2>5, <2>6 DEF EnqueueQuarantine, CallsFit
<1>4. ASSUME NEW w \in Writers, EnqueueDrop(w)
      PROVE  StoreFits' /\ CallsFit'
  <2>1. PICK r \in enqueues[w].drop :
          /\ operations' = [operations EXCEPT ![r] = NoRow]
          /\ enqueues' = [enqueues EXCEPT ![w].drop = @ \ {r}]
    BY <1>4 DEF EnqueueDrop
  <2>2. r \in Rows
    BY FitTypes DEF Call
  <2>3. StoreFits'
    BY <2>1, <2>2, EmptySlotFits, NoRowType, StorePut
  <2>4. \A v \in Writers : enqueues'[v].value = enqueues[v].value
    BY FitTypes, <2>1 DEF Call
  <2> QED BY <1>4, <2>3, <2>4 DEF EnqueueDrop, CallsFit
<1>5. ASSUME NEW m \in Upkeep, NEW r \in Rows, NEW value, Keep(m, r, value),
             value.status \in {"absent", "pending", "dead_letter"}
      PROVE  StoreFits' /\ CallsFit'
  <2>1. UNCHANGED operations
    BY <1>5 DEF Keep
  <2>2. CallsFit'
    BY <1>5, FitTypes DEF Keep, CallsFit
  <2> QED BY <2>1, <2>2, StoreKeeps
<1>6. ASSUME NEW m \in Upkeep, NEW r \in Rows, RetryDeadLetter(m, r)
      PROVE  StoreFits' /\ CallsFit'
  <2>1. Keep(m, r, Revived(operations[r]))
    BY <1>6 DEF RetryDeadLetter
  <2>2. Revived(operations[r]).status \in {"absent", "pending", "dead_letter"}
    BY <1>6, FitTypes DEF RetryDeadLetter, Revived, Row
  <2> QED BY <1>5, <2>1, <2>2
<1>7. ASSUME NEW m \in Upkeep, NEW r \in Rows, Cleanup(m, r)
      PROVE  StoreFits' /\ CallsFit'
  BY <1>5, <1>7, EmptySlotFits DEF Cleanup
<1> QED BY <1>1, <1>2, <1>3, <1>4, <1>6, <1>7, EnqueueReturnFits, UpkeepPutFits DEF QueueNext

-----------------------------------------------------------------------------
(***************************************************************************)
(* The background cycle.                                                   *)
(***************************************************************************)
\* What enqueue() and the upkeep calls hold does not change.
LEMMA CallsKeep ==
  ASSUME CallsFit, UNCHANGED <<enqueues, upkeep>>
  PROVE  CallsFit'
BY DEF CallsFit

LEMMA FreshCycleFits ==
  ASSUME cycle'.snap = NoSnapshot, cycle'.pc \notin {"retry", "mark", "send", "settlePut"}
  PROVE  CycleFits'
<1>1. ASSUME NEW r \in Rows PROVE Fits(cycle.snap[r], r)'
  <2>1. cycle'.snap[r] = NoRow
    BY DEF NoSnapshot
  <2> QED BY <2>1, EmptySlotFits DEF Fits, Active
<1> QED BY <1>1 DEF CycleFits

\* The cycle's copies after a step that reads the store.
LEMMA ReadCopiesFit ==
  ASSUME TypeOK, Counted, StoreFits, Record, ~SettlePut, NEW Q, cycle'.snap = Snapshot(Q)
  PROVE  \A r \in Rows : Fits(cycle.snap[r], r)'
<1> SUFFICES ASSUME NEW r \in Rows PROVE Fits(cycle.snap[r], r)'
  OBVIOUS
<1>1. PICK d \in Row : d = Snapshot(Q)[r]
  BY FitTypes, SnapshotType
<1>2. Fits(d, r)'
  BY <1>1, SnapshotFits, NoneFailed, QuietKeeps
<1> QED BY <1>1, <1>2 DEF Fits

\* Copies the cycle keeps, or drops.
LEMMA KeptCopiesFit ==
  ASSUME TypeOK, Counted, CycleFits, Record, ~SettlePut,
         \A r \in Rows : cycle'.snap[r] \in {cycle.snap[r], NoRow}
  PROVE  \A r \in Rows : Fits(cycle.snap[r], r)'
<1> SUFFICES ASSUME NEW r \in Rows PROVE Fits(cycle.snap[r], r)'
  OBVIOUS
<1>1. PICK d \in Row : d = cycle.snap[r]
  BY FitTypes
<1>2. Fits(d, r)'
  BY <1>1, NoneFailed, QuietKeeps DEF CycleFits
<1>3. PICK e \in Row : e = NoRow
  BY NoRowType
<1>4. Fits(e, r)'
  BY <1>3, EmptySlotFits, NoneFailed, QuietKeeps
<1>5. cycle'.snap[r] = d \/ cycle'.snap[r] = e
  BY <1>1, <1>3
<1> QED BY <1>2, <1>4, <1>5 DEF Fits

LEMMA ClaimBatchFits ==
  ASSUME TypeOK, Counted, Record, ~SettlePut,
         NEW candidates \in SUBSET Rows, NEW snap \in [Rows -> Row],
         \A r \in Rows : Fits(snap[r], r),
         \A r \in candidates : snap[r].status = "pending",
         ClaimBatch(candidates, snap)
  PROVE  CycleFits'
<1>1. PICK B \in SUBSET {r \in candidates : sendClaims[r] = None} :
        cycle' = IF B = {} THEN [IdleCycle EXCEPT !.pc = "unwind"]
                 ELSE [cycle EXCEPT !.pc = "mark", !.batch = B, !.todo = B,
                                    !.snap = [r \in Rows |-> IF r \in B THEN snap[r] ELSE NoRow]]
  BY DEF ClaimBatch
<1>2. CASE B = {}
  <2>1. cycle'.pc = "unwind" /\ cycle'.snap = NoSnapshot
    BY <1>1, <1>2 DEF IdleCycle
  <2> QED BY <2>1, FreshCycleFits
<1>3. CASE B # {}
  <2>1. /\ cycle'.pc = "mark" /\ cycle'.todo = B /\ cycle'.batch = B
        /\ cycle'.snap = [r \in Rows |-> IF r \in B THEN snap[r] ELSE NoRow]
    BY <1>1, <1>3, FitTypes DEF Cycle
  <2>2. ASSUME NEW r \in Rows PROVE Fits(cycle.snap[r], r)'
    <3>1. PICK d \in Row : d = (IF r \in B THEN snap[r] ELSE NoRow)
      BY NoRowType
    <3>2. Fits(d, r)
      BY <3>1, EmptySlotFits
    <3>3. Fits(d, r)'
      BY <3>2, NoneFailed, QuietKeeps
    <3>4. cycle'.snap[r] = d
      BY <2>1, <3>1
    <3> QED BY <3>3, <3>4 DEF Fits
  <2>3. \A r \in B : cycle'.snap[r].status = "pending"
    BY <2>1
  <2> QED BY <2>1, <2>2, <2>3 DEF CycleFits
<1> QED BY <1>2, <1>3

LEMMA AfterSettlingFits ==
  ASSUME TypeOK, NEW r, AfterSettling(r)
  PROVE  CycleFits'
<1>1. cycle'.pc \in {"unwind", "dequeue", "settle"} /\ cycle'.snap = NoSnapshot
  BY FitTypes DEF AfterSettling, IdleCycle, Cycle
<1> QED BY <1>1, FreshCycleFits

\* A failed send is counted in the row as it is in the history.
LEMMA SettlePutFits ==
  ASSUME TypeOK, Counted, StoreFits, CycleFits, Record, SettlePut
  PROVE  StoreFits' /\ CycleFits'
<1>1. PICK r \in cycle.todo :
        /\ Oldest(r, cycle.todo)
        /\ operations' = [operations EXCEPT ![r] = Settled(cycle.snap[r], cycle.result[r])]
        /\ AfterSettling(r)
  BY DEF SettlePut
<1>2. PICK c \in Row : c = cycle.snap[r]
  BY FitTypes
<1>3. PICK result \in Results : result = cycle.result[r]
  BY FitTypes
<1>4. c.status \in Active /\ Fits(c, r) /\ r \in Rows
  BY <1>1, <1>2, FitTypes DEF SettlePut, CycleFits
<1>5. PICK d \in Row : d = Settled(c, result)
  BY RowOperationsType
<1>6. operations' = [operations EXCEPT ![r] = d]
  BY <1>1, <1>2, <1>3, <1>5
<1>7. ASSUME NEW q \in Rows, q \in FailedNow PROVE q = r
  <2>1. q \in cycle.todo /\ Oldest(q, cycle.todo)
    BY <1>7 DEF FailedNow
  <2>2. q <= r /\ r <= q
    BY <1>1, <2>1 DEF Oldest
  <2>3. q \in Nat /\ r \in Nat
    BY <1>4 DEF Rows
  <2> QED BY <2>2, <2>3
<1>8. ASSUME NEW q \in Rows, q # r PROVE Fits(operations[q], q)'
  <2>1. PICK e \in Row : e = operations[q]
    BY FitTypes
  <2>2. operations'[q] = e
    BY <1>6, <1>8, <2>1, FitTypes
  <2>3. Fits(e, q)'
    BY <1>7, <1>8, <2>1, QuietKeeps DEF StoreFits
  <2> QED BY <2>2, <2>3 DEF Fits
<1>9. Fits(d, r)'
  <2>1. CASE result = "ok"
    <3>1. d.status = "completed"
      BY <1>5, <2>1 DEF Settled, Row
    <3> QED BY <3>1 DEF Fits, Active
  <2>2. CASE result = "permanent"
    <3>1. d.status = "dead_letter"
      BY <1>5, <2>2 DEF Settled, Row
    <3> QED BY <3>1 DEF Fits, Active
  <2>3. CASE result \notin {"ok", "permanent"}
    <3>1. /\ d.status = "failed"
          /\ d.retries = IF c.retries < MaxRetries THEN c.retries + 1 ELSE c.retries
      BY <1>5, <2>3 DEF Settled, Row
    <3>2. CASE r \in AskedNow
      BY <1>4, <3>2, AskedFor
    <3>3. CASE r \notin AskedNow /\ r \in rewound
      <4>1. r \in rewound'
        BY <3>3 DEF Record
      <4> QED BY <4>1 DEF Fits
    <3>4. CASE r \notin AskedNow /\ r \notin rewound
      <4>1. attempts[r] <= c.retries
        BY <1>4, <3>4 DEF Fits
      <4>2. attempts'[r] <= attempts[r] + 1 /\ attempts'[r] \in 0..MaxRetries
        BY <1>4, <3>4 DEF Record, Counted
      <4>3. attempts[r] \in 0..MaxRetries /\ c.retries \in 0..MaxRetries
        BY <1>4 DEF Counted, Row
      <4>4. attempts'[r] <= d.retries
        BY <3>1, <4>1, <4>2, <4>3
      <4> QED BY <3>1, <4>4 DEF Fits
    <3> QED BY <3>2, <3>3, <3>4
  <2> QED BY <2>1, <2>2, <2>3
<1>10. Fits(operations[r], r)'
  <2>1. operations'[r] = d
    BY <1>4, <1>6, FitTypes
  <2> QED BY <1>9, <2>1 DEF Fits
<1>11. StoreFits'
  BY <1>8, <1>10 DEF StoreFits
<1> QED BY <1>1, <1>11, AfterSettlingFits

LEMMA CycleStepFits ==
  ASSUME TypeOK, Counted, StoreFits, CycleFits, Record, ~SettlePut, CycleStart \/ CycleProgress
  PROVE  StoreFits' /\ CycleFits'
<1>1. CASE CycleStart
  <2>1. cycle'.pc = "retryRead" /\ cycle'.snap = cycle.snap
    BY <1>1, FitTypes DEF CycleStart, Cycle
  <2>2. \A r \in Rows : Fits(cycle.snap[r], r)'
    BY <2>1, KeptCopiesFit
  <2>3. CycleFits'
    BY <2>1, <2>2 DEF CycleFits
  <2> QED BY <1>1, <2>3, StoreKeeps DEF CycleStart, queueVars
<1>2. CASE RetryRead
  <2>1. PICK failed \in SUBSET WithStatus({"failed"}) :
          cycle' = [cycle EXCEPT !.pc = "retry", !.todo = failed, !.snap = Snapshot(failed)]
    BY <1>2 DEF RetryRead
  <2>2. cycle'.pc = "retry" /\ cycle'.todo = failed /\ cycle'.snap = Snapshot(failed)
    BY FitTypes, <2>1 DEF Cycle
  <2>3. \A r \in Rows : Fits(cycle.snap[r], r)'
    BY <2>2, ReadCopiesFit
  <2>4. \A r \in failed : r \in Rows /\ Snapshot(failed)[r].status = "failed"
    BY DEF WithStatus, Snapshot
  <2>5. CycleFits'
    BY <2>2, <2>3, <2>4 DEF CycleFits
  <2> QED BY <1>2, <2>5, StoreKeeps DEF RetryRead, queueVars
<1>3. CASE RetryPut
  <2>1. PICK r \in cycle.todo :
          /\ operations' = [operations EXCEPT ![r] = Retried(cycle.snap[r])]
          /\ cycle' = [cycle EXCEPT !.todo = @ \ {r}, !.snap[r] = NoRow]
    BY <1>3 DEF RetryPut
  <2>2. r \in Rows /\ cycle.snap[r] \in Row /\ cycle.snap[r].status = "failed" /\ Fits(cycle.snap[r], r)
    BY <1>3, FitTypes DEF RetryPut, CycleFits
  <2>3. PICK c \in Row : c = Retried(cycle.snap[r])
    BY <2>2, RowOperationsType
  <2>4. Fits(c, r)
    BY <2>2, <2>3, RetriedFits
  <2>5. StoreFits'
    BY <2>1, <2>2, <2>3, <2>4, StorePut
  <2>6. /\ cycle'.pc = "retry" /\ cycle'.todo = cycle.todo \ {r}
        /\ \A q \in Rows : cycle'.snap[q] = IF q = r THEN NoRow ELSE cycle.snap[q]
    BY <1>3, FitTypes, <2>1 DEF RetryPut, Cycle
  <2>7. \A q \in Rows : Fits(cycle.snap[q], q)'
    BY <2>6, KeptCopiesFit
  <2>8. \A q \in cycle'.todo : q \in Rows /\ cycle'.snap[q].status = "failed"
    BY <1>3, FitTypes, <2>6 DEF RetryPut, CycleFits
  <2>9. CycleFits'
    BY <2>6, <2>7, <2>8 DEF CycleFits
  <2> QED BY <2>5, <2>9
<1>4. CASE CountPending
  <2>1. cycle'.pc \in {"unwind", "dequeue"} /\ cycle'.snap = NoSnapshot
    BY <1>4 DEF CountPending, IdleCycle
  <2> QED BY <1>4, <2>1, FreshCycleFits, StoreKeeps DEF CountPending, queueVars
<1>5. CASE DequeueRead
  <2> DEFINE pending == WithStatus({"pending"})
             legacy == {r \in pending : ~operations[r].stamped}
  <2>0. pending \in SUBSET Rows /\ \A r \in pending : operations[r].status = "pending"
    BY DEF WithStatus
  <2>1. \/ ClaimBatch(pending, operations)
        \/ cycle' = [cycle EXCEPT !.pc = "select", !.todo = legacy, !.snap = Snapshot(pending)]
    BY <1>5 DEF DequeueRead
  <2>2. StoreFits'
    BY <1>5, StoreKeeps DEF DequeueRead
  <2> HIDE DEF pending, legacy
  <2>3. CASE ClaimBatch(pending, operations)
    <3>1. \A r \in Rows : Fits(operations[r], r)
      BY DEF StoreFits
    <3> QED BY FitTypes, <2>0, <2>2, <2>3, <3>1, ClaimBatchFits
  <2>4. CASE cycle' = [cycle EXCEPT !.pc = "select", !.todo = legacy, !.snap = Snapshot(pending)]
    <3>1. cycle'.pc = "select" /\ cycle'.snap = Snapshot(pending)
      BY FitTypes, <2>4 DEF Cycle
    <3>2. \A r \in Rows : Fits(cycle.snap[r], r)'
      BY <3>1, ReadCopiesFit
    <3> QED BY <2>2, <3>1, <3>2 DEF CycleFits
  <2> QED BY <2>1, <2>3, <2>4
<1>6. CASE DequeueQuarantine
  <2>1. PICK r \in cycle.todo :
          /\ operations' = [operations EXCEPT ![r] = Quarantined(cycle.snap[r])]
          /\ cycle' = [cycle EXCEPT !.todo = @ \ {r}]
    BY <1>6 DEF DequeueQuarantine
  <2>2. r \in Rows /\ cycle.snap[r] \in Row
    BY FitTypes
  <2>3. PICK c \in Row : c = Quarantined(cycle.snap[r]) /\ Fits(c, r)
    BY <2>2, RowOperationsType, QuarantinedFits
  <2>4. StoreFits'
    BY <2>1, <2>2, <2>3, StorePut
  <2>5. cycle'.pc = "select" /\ cycle'.snap = cycle.snap
    BY <1>6, FitTypes, <2>1 DEF DequeueQuarantine, Cycle
  <2>6. \A q \in Rows : Fits(cycle.snap[q], q)'
    BY <2>5, KeptCopiesFit
  <2> QED BY <2>4, <2>5, <2>6 DEF CycleFits
<1>7. CASE DequeueSelect
  <2> DEFINE candidates == {r \in Rows : cycle.snap[r].status = "pending" /\ cycle.snap[r].stamped}
  <2>1. /\ candidates \in SUBSET Rows
        /\ \A r \in candidates : cycle.snap[r].status = "pending"
        /\ \A r \in Rows : Fits(cycle.snap[r], r)
    BY DEF CycleFits
  <2>2. ClaimBatch(candidates, cycle.snap)
    BY <1>7 DEF DequeueSelect
  <2> HIDE DEF candidates
  <2>3. CycleFits'
    BY FitTypes, <2>1, <2>2, ClaimBatchFits
  <2> QED BY <1>7, <2>3, StoreKeeps DEF DequeueSelect
<1>8. CASE MarkSyncing
  <2>1. PICK r \in cycle.todo :
          /\ operations' = [operations EXCEPT ![r] = Syncing(cycle.snap[r])]
          /\ cycle' = [cycle EXCEPT !.todo = @ \ {r}, !.pc = IF cycle.todo = {r} THEN "send" ELSE @]
    BY <1>8 DEF MarkSyncing
  <2>2. /\ r \in Rows /\ cycle.snap[r] \in Row
        /\ cycle.snap[r].status = "pending" /\ Fits(cycle.snap[r], r)
    BY <1>8, FitTypes DEF MarkSyncing, CycleFits
  <2>3. PICK c \in Row : c = Syncing(cycle.snap[r])
    BY <2>2, RowOperationsType
  <2>4. Fits(c, r)
    BY <2>2, <2>3, MarkedFits
  <2>5. StoreFits'
    BY <2>1, <2>2, <2>3, <2>4, StorePut
  <2>6. /\ cycle'.pc \in {"mark", "send"} /\ cycle'.todo \subseteq cycle.todo
        /\ cycle'.batch = cycle.batch /\ cycle'.snap = cycle.snap
    BY <1>8, FitTypes, <2>1 DEF MarkSyncing, Cycle
  <2>7. \A q \in Rows : Fits(cycle.snap[q], q)'
    BY <2>6, KeptCopiesFit
  <2>8. cycle.todo \subseteq cycle.batch /\ \A q \in cycle.batch : cycle.snap[q].status = "pending"
    BY <1>8 DEF MarkSyncing, CycleFits
  <2>9. CycleFits'
    BY <2>6, <2>7, <2>8 DEF CycleFits
  <2> QED BY <2>5, <2>9
<1>9. CASE BatchAnswered \/ BatchFailed
  <2>1. cycle'.pc = "settle" /\ cycle'.snap = NoSnapshot
    BY <1>9, FitTypes DEF BatchAnswered, BatchFailed, Cycle
  <2> QED BY <1>9, <2>1, FreshCycleFits, StoreKeeps DEF BatchAnswered, BatchFailed, queueVars
<1>10. CASE SettleRead
  <2>1. PICK r \in cycle.todo :
          /\ Oldest(r, cycle.todo)
          /\ \/ /\ operations[r].status \in Active
                /\ cycle' = [cycle EXCEPT !.pc = "settlePut", !.snap = Snapshot({r})]
             \/ AfterSettling(r)
    BY <1>10 DEF SettleRead
  <2>2. CASE AfterSettling(r)
    BY <1>10, <2>2, AfterSettlingFits, StoreKeeps DEF SettleRead
  <2>3. CASE /\ operations[r].status \in Active
             /\ cycle' = [cycle EXCEPT !.pc = "settlePut", !.snap = Snapshot({r})]
    <3>1. cycle'.pc = "settlePut" /\ cycle'.snap = Snapshot({r}) /\ cycle'.todo = cycle.todo
      BY FitTypes, <2>3 DEF Cycle
    <3>2. \A q \in Rows : Fits(cycle.snap[q], q)'
      BY <3>1, ReadCopiesFit
    <3>3. ASSUME NEW q \in cycle.todo, Oldest(q, cycle.todo) PROVE q = r
      <4>1. q <= r /\ r <= q
        BY <2>1, <3>3 DEF Oldest
      <4>2. q \in Nat /\ r \in Nat
        BY FitTypes DEF Rows
      <4> QED BY <4>1, <4>2
    <3>4. Snapshot({r})[r].status \in Active
      BY <2>3, FitTypes DEF Snapshot
    <3>5. \A q \in cycle'.todo : Oldest(q, cycle'.todo) => cycle'.snap[q].status \in Active
      BY <3>1, <3>3, <3>4
    <3>6. CycleFits'
      BY <3>1, <3>2, <3>5 DEF CycleFits, Oldest
    <3> QED BY <1>10, <3>6, StoreKeeps DEF SettleRead
  <2> QED BY <2>1, <2>2, <2>3
<1>11. CASE BatchesExhausted \/ Unwind
  <2>1. cycle'.pc \in {"unwind", "idle"} /\ cycle'.snap = NoSnapshot
    BY <1>11 DEF BatchesExhausted, Unwind, IdleCycle
  <2> QED BY <1>11, <2>1, FreshCycleFits, StoreKeeps DEF BatchesExhausted, Unwind, queueVars, KeepQueue
<1> QED BY <1>1, <1>2, <1>3, <1>4, <1>5, <1>6, <1>7, <1>8, <1>9, <1>10, <1>11 DEF CycleProgress

-----------------------------------------------------------------------------
(***************************************************************************)
(* The inline flush, the login and a restart.                              *)
(***************************************************************************)
\* A flush is the user's attempt: from its mark on, the row has none behind it.
LEMMA FlushStepFits ==
  ASSUME TypeOK, ClaimsAgree, Counted, StoreFits, FlushesFit, Record, ~SettlePut, FlushStep
  PROVE  StoreFits' /\ FlushesFit'
<1>1. PICK x \in FlushRecords : FlushClaim(x) \/ FlushProgress(x)
  BY DEF FlushStep
<1>2. ASSUME NEW y \in FlushRecords, flush'[y] = flush[y]
      PROVE  flush'[y].pc \in {"send", "settle", "reget", "put"} => attempts'[flush'[y].row] = 0
  BY <1>2, FlushRowQuiet, QuietKeeps DEF FlushesFit
<1>3. \A y \in FlushRecords : y # x => flush'[y] = flush[y]
  BY <1>1, FitTypes DEF FlushClaim, FlushProgress, FlushGet, FlushMark, FlushAnswered, FlushFailed,
                        FlushSettle, FlushReget, FlushPut, ReleaseFlush
<1>4. ASSUME flush'[x].pc \in {"send", "settle", "reget", "put"} => attempts'[flush'[x].row] = 0
      PROVE  FlushesFit'
  BY <1>2, <1>3, <1>4 DEF FlushesFit
<1>e. ASSUME flush'[x].pc \in {"idle", "get", "mark"}
      PROVE  FlushesFit'
  BY <1>4, <1>e
<1>5. ASSUME flush'[x].row = flush[x].row, flush[x].pc \in {"send", "settle", "reget", "put"}
      PROVE  FlushesFit'
  <2>1. PICK r \in Rows : r = flush[x].row /\ attempts[r] = 0 /\ r \notin FailedNow
    BY <1>5, FlushRowQuiet DEF FlushesFit
  <2>2. attempts'[r] = 0
    BY <2>1, QuietKeeps
  <2> QED BY <1>4, <1>5, <2>1, <2>2
<1>6. CASE FlushClaim(x)
  <2>1. flush'[x].pc = "get" /\ UNCHANGED operations
    BY <1>6, FitTypes DEF FlushClaim, Flush
  <2> QED BY <1>e, <2>1, StoreKeeps
<1>7. CASE FlushGet(x)
  <2>1. flush'[x].pc \in {"mark", "idle"} /\ UNCHANGED operations
    BY <1>7, FitTypes DEF FlushGet, ReleaseFlush, IdleFlush, Flush
  <2> QED BY <1>e, <2>1, StoreKeeps
<1>8. CASE FlushMark(x)
  <2>1. PICK r \in Rows : r = flush[x].row
    BY <1>8, FitTypes DEF FlushMark
  <2>2. r \in AskedNow
    BY <1>8, <2>1 DEF AskedNow
  <2>3. PICK c \in Row : c = Syncing(flush[x].sent)
    BY FitTypes, RowOperationsType DEF Flush
  <2>4. operations' = [operations EXCEPT ![r] = c]
    BY <1>8, <2>1, <2>3 DEF FlushMark
  <2>5. StoreFits'
    BY <2>2, <2>4, StorePut
  <2>6. flush'[x].row = r
    BY <1>8, <2>1, FitTypes DEF FlushMark, Flush
  <2>7. attempts'[r] = 0
    BY <2>2, AskedFor
  <2> QED BY <1>4, <2>5, <2>6, <2>7
<1>9. CASE FlushAnswered(x) \/ FlushFailed(x)
  <2>1. flush'[x].row = flush[x].row /\ flush[x].pc = "send" /\ UNCHANGED operations
    BY <1>9, FitTypes DEF FlushAnswered, FlushFailed, queueVars, Flush
  <2> QED BY <1>5, <2>1, StoreKeeps
<1>10. CASE FlushSettle(x) \/ FlushReget(x)
  <2>1. /\ flush[x].pc \in {"settle", "reget"} /\ UNCHANGED operations
        /\ flush'[x].pc = "idle" \/ flush'[x].row = flush[x].row
    BY <1>10, FitTypes DEF FlushSettle, FlushReget, ReleaseFlush, IdleFlush, Flush
  <2> QED BY <1>e, <1>5, <2>1, StoreKeeps
<1>11. CASE FlushPut(x)
  <2>1. flush'[x].pc = "idle"
    BY <1>11, FitTypes DEF FlushPut, ReleaseFlush, IdleFlush
  <2>2. PICK r \in Rows : r = flush[x].row /\ attempts[r] = 0
    BY <1>11, FitTypes DEF FlushPut, FlushesFit
  <2>3. PICK c \in Row : c = flush[x].value
    BY FitTypes DEF Flush
  <2>4. operations' = [operations EXCEPT ![r] = c]
    BY <1>11, <2>2, <2>3 DEF FlushPut
  <2>5. Fits(c, r)
    BY <2>2 DEF Fits, Row
  <2>6. StoreFits'
    BY <2>4, <2>5, StorePut
  <2> QED BY <1>e, <2>1, <2>6
<1> QED BY <1>1, <1>6, <1>7, <1>8, <1>9, <1>10, <1>11 DEF FlushProgress

LEMMA LoginStepFits ==
  ASSUME TypeOK, Counted, StoreFits, Record, ~SettlePut, LoginStep
  PROVE  StoreFits'
<1>1. PICK u \in Logins : LoginStart(u) \/ LoginRead(u) \/ LoginPut(u) \/ LoginDone(u)
  BY DEF LoginStep
<1>2. CASE LoginStart(u) \/ LoginRead(u) \/ LoginDone(u)
  BY <1>2, StoreKeeps DEF LoginStart, LoginRead, LoginDone, queueVars
<1>3. CASE LoginPut(u)
  <2>1. PICK r \in login[u].todo :
          /\ operations' = [operations EXCEPT ![r] = Resumed(login[u].snap[r])]
          /\ login' = [login EXCEPT ![u].todo = @ \ {r}, ![u].snap[r] = NoRow]
    BY <1>3 DEF LoginPut
  <2>2. r \in Rows /\ login[u].snap[r] \in Row
    BY FitTypes DEF Login
  <2>3. r \in login[u].todo \ login'[u].todo
    BY <2>1, FitTypes DEF Login
  <2>4. r \in AskedNow
    BY <1>3, <2>2, <2>3 DEF AskedNow
  <2>5. PICK c \in Row : c = Resumed(login[u].snap[r])
    BY <2>2, RowOperationsType
  <2> QED BY <2>1, <2>2, <2>4, <2>5, StorePut
<1> QED BY <1>1, <1>2, <1>3

\* A restart gives no row a new chance it had not before.
LEMMA RestartFits ==
  ASSUME TypeOK, Counted, StoreFits, CallsFit, Record, ~SettlePut, Restart
  PROVE  StoreFits' /\ CallsFit' /\ CycleFits' /\ FlushesFit'
<1>1. StoreFits'
  <2>1. PICK old \in SUBSET WithStatus({"syncing"}) :
          operations' = [r \in Rows |-> Recovered(operations[r], r \in old)]
    BY DEF Restart
  <2>2. ASSUME NEW r \in Rows PROVE Fits(operations[r], r)'
    <3>1. PICK c \in Row : c = operations[r] /\ Fits(c, r)
      BY FitTypes DEF StoreFits
    <3>2. PICK d \in Row : d = Recovered(c, r \in old) /\ Fits(d, r)
      <4>1. \/ Recovered(c, r \in old) = c
            \/ Recovered(c, r \in old) = Quarantined(c)
            \/ Recovered(c, r \in old) = Pending(c) /\ c.status = "syncing"
        BY DEF Recovered
      <4> QED BY <3>1, <4>1, RowOperationsType, QuarantinedFits, MarkedFits
    <3>3. Fits(d, r)'
      BY <3>2, NoneFailed, QuietKeeps
    <3>4. operations'[r] = d
      BY <2>1, <3>1, <3>2
    <3> QED BY <3>3, <3>4 DEF Fits
  <2> QED BY <2>2 DEF StoreFits
<1>2. CallsFit'
  <2>1. PICK lost : enqueues' = [w \in Writers |-> IF w \in lost THEN IdleCall ELSE enqueues[w]]
    BY DEF Restart
  <2>2. IdleCall.value.status = "absent"
    BY EmptySlotFits DEF IdleCall
  <2>3. \A m \in Upkeep : upkeep'[m].value.status = "absent"
    BY EmptySlotFits DEF Restart, IdleUpkeep
  <2> QED BY <2>1, <2>2, <2>3 DEF CallsFit
<1>3. CycleFits'
  BY FreshCycleFits DEF Restart, IdleCycle
<1>4. FlushesFit'
  BY DEF Restart, IdleFlush, FlushesFit
<1> QED BY <1>1, <1>2, <1>3, <1>4

-----------------------------------------------------------------------------
LEMMA BudgetNextFits ==
  ASSUME TypeOK, ClaimsAgree, CopiesFit, [BudgetNext]_budgetVars
  PROVE  CopiesFit'
<1>s. Counted /\ StoreFits /\ CallsFit /\ CycleFits /\ FlushesFit
  BY DEF CopiesFit
<1>1. CASE UNCHANGED budgetVars
  BY <1>s, <1>1 DEF budgetVars, vars, queueVars, engineVars, CopiesFit, Counted, StoreFits, Fits,
                    CallsFit, CycleFits, FlushesFit
<1>2. CASE SettlePut /\ Record
  <2>1. UNCHANGED <<enqueues, upkeep, flush>>
    BY <1>2 DEF SettlePut, KeepQueue, KeepCalls
  <2>2. CallsFit' /\ FlushesFit' /\ Counted'
    BY <1>s, <1>2, <2>1, CallsKeep, FlushesKeep, CountedKeeps
  <2> QED BY <1>s, <1>2, <2>2, SettlePutFits DEF CopiesFit
<1>3. CASE Next /\ Record /\ ~SettlePut
  <2>0. Counted'
    BY <1>s, <1>3, CountedKeeps
  <2>1. CASE QueueNext /\ UNCHANGED engineVars
    <3>1. UNCHANGED <<cycle, flush>>
      BY <2>1 DEF engineVars
    <3> QED BY <1>s, <1>3, <2>0, <2>1, <3>1, QueueStepFits, CycleKeeps, FlushesKeep DEF CopiesFit
  <2>2. CASE CycleStart \/ CycleProgress
    <3>1. UNCHANGED <<enqueues, upkeep, flush>>
      BY <2>2 DEF CycleStart, CycleProgress, RetryRead, RetryPut, CountPending, DequeueRead,
                  DequeueQuarantine, DequeueSelect, MarkSyncing, BatchAnswered, BatchFailed,
                  SettleRead, SettlePut, BatchesExhausted, Unwind, queueVars, KeepQueue, KeepCalls
    <3> QED BY <1>s, <1>3, <2>0, <2>2, <3>1, CycleStepFits, CallsKeep, FlushesKeep DEF CopiesFit
  <2>3. CASE FlushStep
    <3>1. UNCHANGED <<enqueues, upkeep, cycle>>
      BY <2>3 DEF FlushStep, FlushClaim, FlushProgress, FlushGet, FlushMark, FlushAnswered,
                  FlushFailed, FlushSettle, FlushReget, FlushPut, queueVars, KeepQueue, KeepCalls
    <3> QED BY <1>s, <1>3, <2>0, <2>3, <3>1, FlushStepFits, CallsKeep, CycleKeeps DEF CopiesFit
  <2>4. CASE LoginStep
    <3>1. UNCHANGED <<enqueues, upkeep, cycle, flush>>
      BY <2>4 DEF LoginStep, LoginStart, LoginRead, LoginPut, LoginDone, queueVars, KeepCalls
    <3> QED BY <1>s, <1>3, <2>0, <2>4, <3>1, LoginStepFits, CallsKeep, CycleKeeps, FlushesKeep DEF CopiesFit
  <2>5. CASE Restart
    BY <1>s, <1>3, <2>0, <2>5, RestartFits DEF CopiesFit
  <2> QED BY <1>3, <2>1, <2>2, <2>3, <2>4, <2>5 DEF Next
<1> QED BY <1>1, <1>2, <1>3 DEF BudgetNext

\* The retry budget bounds what the cycle really sends in vain, whatever stale
\* copies retryFailed(), dequeue(), settlements, upkeep calls, flushes, logins
\* and restarts write back; only a row an older enqueue() copy was written over
\* escapes it (retryFailed's escalation, durableSyncQueue.ts:1055).
THEOREM BudgetRespectedHolds == BudgetSpec => []BudgetRespected
<1>1. BudgetInit => CopiesFit
  BY FitsInit
<1>2. TypeOK /\ ClaimsAgree /\ CopiesFit /\ [BudgetNext]_budgetVars => CopiesFit'
  BY BudgetNextFits
<1>3. TypeOK /\ CopiesFit => BudgetRespected
  BY FitTypes DEF CopiesFit, CycleFits, Fits, BudgetRespected
<1>4. BudgetInit => Init
  BY DEF BudgetInit
<1>5. [BudgetNext]_budgetVars => [Next]_vars
  BY DEF BudgetNext, budgetVars
<1>6. BudgetSpec => Spec
  BY <1>4, <1>5, PTL DEF BudgetSpec, Spec
<1> QED BY <1>1, <1>2, <1>3, <1>6, TypeCorrect, ClaimsAlwaysAgree, PTL DEF BudgetSpec
=============================================================================
