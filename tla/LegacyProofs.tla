---------------------------- MODULE LegacyProofs ----------------------------
(***************************************************************************)
(* Rows without a generation are never transmitted, for every value of the *)
(* constants.  The store is read and written in separate requests, so a    *)
(* copy of a row may outlive the row, and a late write may bring it back.  *)
(* The invariant therefore speaks of all copies: some set of rows, fixed   *)
(* when the store was opened, is exactly the rows without a generation, and*)
(* every copy any actor holds agrees with it.                              *)
(***************************************************************************)
EXTENDS BackgroundSyncProofs

USE QueueAssumption, EngineAssumption

-----------------------------------------------------------------------------
\* The copy c of row r, when the rows in S are the ones without a generation.
Copy(c, r, S) == IF r \in S THEN c.status = "absent" \/ ~c.stamped ELSE c.stamped

Present(c) == c.status # "absent"

StoreAgrees(S) ==
  /\ S \subseteq 1..created
  /\ \A r \in Rows : Copy(operations[r], r, S)

EnqueuesAgree(S) ==
  \A w \in Writers :
    /\ \A r \in Rows : Copy(enqueues[w].snap[r], r, S)
    /\ \A r \in enqueues[w].quarantine : Present(enqueues[w].snap[r])
    /\ enqueues[w].target # 0 => Copy(enqueues[w].value, enqueues[w].target, S)

UpkeepAgrees(S) ==
  \A m \in Upkeep : upkeep[m].row # 0 => Copy(upkeep[m].value, upkeep[m].row, S)

\* The cycle only writes rows it has seen, and only handles stamped ones.
CycleAgrees(S) ==
  /\ \A r \in Rows : Copy(cycle.snap[r], r, S)
  /\ cycle.pc \in {"retry", "select"} => \A r \in cycle.todo : Present(cycle.snap[r])
  /\ cycle.pc \in {"mark", "settle", "settlePut"} => cycle.todo \cap S = {}
  /\ cycle.pc \in {"mark", "send"} => cycle.batch \cap S = {}

FlushesAgree(S) ==
  \A x \in FlushRecords :
    /\ flush[x].pc # "idle" => flush[x].row \notin S
    /\ flush[x].sent.stamped /\ flush[x].value.stamped

LoginsAgree(S) ==
  \A u \in Logins :
    /\ \A r \in Rows : Copy(login[u].snap[r], r, S)
    /\ \A r \in login[u].todo : Present(login[u].snap[r])

CopiesAgree(S) ==
  /\ StoreAgrees(S)
  /\ EnqueuesAgree(S)
  /\ UpkeepAgrees(S)
  /\ CycleAgrees(S)
  /\ FlushesAgree(S)
  /\ LoginsAgree(S)

\* The inductive invariant.
LegacyRowsKnown == \E S \in SUBSET Rows : CopiesAgree(S)

-----------------------------------------------------------------------------
(***************************************************************************)
(* What the operators on rows do to a copy.                                *)
(***************************************************************************)
LEMMA EmptySlot == NoRow.stamped /\ NoRow.status = "absent"
BY DEF NoRow, NewRow

\* An empty slot says nothing about generations.
LEMMA EmptyCopy ==
  ASSUME NEW r, NEW S
  PROVE  Copy(NoRow, r, S)
BY EmptySlot DEF Copy

\* No operation gives a row it has seen a generation, or takes it away.
LEMMA RewrittenCopy ==
  ASSUME NEW c \in Row, NEW r, NEW S, Copy(c, r, S), Present(c)
  PROVE  /\ Copy(Quarantined(c), r, S) /\ Copy(Retried(c), r, S)
         /\ Copy(Pending(c), r, S) /\ Copy(Resumed(c), r, S) /\ Copy(Revived(c), r, S)
         /\ \A payload \in SUBSET Edits : Copy(Merged(c, payload), r, S)
BY DEF Row, Copy, Present, Quarantined, Retried, Pending, Resumed, Revived, Merged

\* What a sender makes of a row it has seen stamped is stamped.
LEMMA SenderCopy ==
  ASSUME NEW c \in Row, c.stamped, NEW result
  PROVE  /\ Syncing(c).stamped /\ Pending(c).stamped /\ Resumed(c).stamped
         /\ Settled(c, result).stamped
BY DEF Row, Syncing, Pending, Resumed, Settled

\* What is read of the store agrees with it.
LEMMA SnapshotCopy ==
  ASSUME NEW S, StoreAgrees(S), NEW Q
  PROVE  \A r \in Rows : Copy(Snapshot(Q)[r], r, S)
BY EmptyCopy DEF StoreAgrees, Snapshot

LEMMA NoSnapshotCopy ==
  ASSUME NEW S
  PROVE  \A r \in Rows : Copy(NoSnapshot[r], r, S)
BY EmptyCopy DEF NoSnapshot

\* One write keeps the store in agreement when the copy written agrees.
LEMMA StorePut ==
  ASSUME TypeOK, NEW S, StoreAgrees(S), NEW r \in Rows, NEW c, Copy(c, r, S),
         operations' = [operations EXCEPT ![r] = c], UNCHANGED created
  PROVE  StoreAgrees(S)'
<1>1. operations \in [Rows -> Row]
  BY DEF TypeOK, QueueTypeOK
<1> QED BY <1>1 DEF StoreAgrees, Copy

\* The rows of one status, and the types the proofs need.
LEMMA CopyTypes ==
  ASSUME TypeOK
  PROVE  /\ operations \in [Rows -> Row] /\ created \in Nat /\ created <= MaxRows
         /\ enqueues \in [Writers -> Call]
         /\ upkeep \in [Upkeep -> [row: Rows \cup {0}, value: Row]]
         /\ cycle \in Cycle /\ cycle.snap \in [Rows -> Row]
         /\ cycle.todo \subseteq Rows /\ cycle.batch \subseteq Rows
         /\ flush \in [FlushRecords -> Flush]
         /\ login \in [Logins -> Login]
BY DEF TypeOK, QueueTypeOK, Cycle

-----------------------------------------------------------------------------
\* When the store is opened the rows without a generation are known, and
\* nobody holds a copy.
LEMMA LegacyInit == Init => LegacyRowsKnown
<1> SUFFICES ASSUME Init PROVE LegacyRowsKnown
  OBVIOUS
<1>t. TypeOK
  BY InitType
<1> DEFINE S == {r \in 1..created : ~operations[r].stamped}
<1>1. S \in SUBSET Rows
  BY <1>t, CopyTypes DEF Rows
<1>2. StoreAgrees(S)
  <2>1. PICK left \in [1..created -> LeftRows] :
          operations = [r \in Rows |-> IF r <= created THEN left[r] ELSE NoRow]
    BY DEF Init, QueueInit
  <2>2. ASSUME NEW r \in Rows PROVE Copy(operations[r], r, S)
    <3>1. CASE r <= created
      <4>1. r \in 1..created
        BY <1>t, <3>1, CopyTypes DEF Rows
      <4> QED BY <4>1 DEF Copy
    <3>2. CASE ~(r <= created)
      BY <2>1, <3>2, EmptyCopy
    <3> QED BY <3>1, <3>2
  <2> QED BY <2>2 DEF StoreAgrees
<1>3. EnqueuesAgree(S)
  BY NoSnapshotCopy DEF Init, QueueInit, IdleCall, EnqueuesAgree
<1>4. UpkeepAgrees(S)
  BY DEF Init, QueueInit, IdleUpkeep, UpkeepAgrees
<1>5. CycleAgrees(S)
  BY NoSnapshotCopy DEF Init, IdleCycle, CycleAgrees
<1>6. FlushesAgree(S)
  BY EmptySlot DEF Init, IdleFlush, FlushesAgree
<1>7. LoginsAgree(S)
  BY NoSnapshotCopy DEF Init, IdleLogin, LoginsAgree
<1> QED BY <1>1, <1>2, <1>3, <1>4, <1>5, <1>6, <1>7 DEF LegacyRowsKnown, CopiesAgree

-----------------------------------------------------------------------------
(***************************************************************************)
(* enqueue() and the upkeep calls.                                         *)
(***************************************************************************)
LEMMA DecideAgrees ==
  ASSUME TypeOK, NEW S, StoreAgrees(S), EnqueuesAgree(S),
         NEW w \in Writers, NEW x, NEW edits, NEW quarantine, NEW drop, NEW target, NEW value,
         quarantine \subseteq WithStatus(Active),
         target # 0 => Copy(value, target, S),
         Decide(w, x, edits, quarantine, drop, target, value)
  PROVE  EnqueuesAgree(S)'
<1>1. \A r \in Rows : Copy(Snapshot(quarantine)[r], r, S)
  BY SnapshotCopy
<1>2. \A r \in quarantine : Present(Snapshot(quarantine)[r])
  BY DEF WithStatus, Active, Present, Snapshot
<1>3. enqueues'[w] = [pc |-> "writing", rec |-> x, edits |-> edits, quarantine |-> quarantine,
                      drop |-> drop, target |-> target, value |-> value,
                      snap |-> Snapshot(quarantine)]
      /\ \A v \in Writers : v # w => enqueues'[v] = enqueues[v]
  BY CopyTypes DEF Decide
<1> QED BY <1>1, <1>2, <1>3 DEF EnqueuesAgree

LEMMA EnqueueReadAgrees ==
  ASSUME TypeOK, NEW S, StoreAgrees(S), EnqueuesAgree(S),
         NEW w \in Writers, NEW x \in Records, NEW kind \in Kinds, NEW payload \in SUBSET Edits,
         EnqueueRead(w, x, kind, payload)
  PROVE  StoreAgrees(S)' /\ EnqueuesAgree(S)'
<1> DEFINE seen == {r \in WithStatus(Active) : operations[r].rec = x}
           unsafe == {r \in seen : ~operations[r].stamped /\ operations[r].status # "syncing"}
           usable == seen \ unsafe
           same == {r \in usable : operations[r].kind = kind /\ operations[r].payload = payload}
           upserts == {r \in usable : operations[r].kind = "upsert"}
           idle == {r \in upserts : operations[r].status # "syncing"}
           foldable == IF kind = "upsert" THEN MergeTargets(idle) ELSE {}
           drop == IF kind = "delete" THEN idle ELSE {}
           deps == IF kind = "delete" THEN upserts \ idle ELSE {}
<1>t. created \in Nat /\ operations \in [Rows -> Row]
  BY CopyTypes
<1>0. unsafe \subseteq WithStatus(Active)
  OBVIOUS
<1>1. foldable \subseteq WithStatus(Active)
  BY DEF MergeTargets
<1>2. /\ \/ /\ Decide(w, x, payload, unsafe, {}, 0, NoRow)
            /\ UNCHANGED created
         \/ /\ \E r \in foldable :
                 Decide(w, x, payload, unsafe, {}, r, Merged(operations[r], payload))
            /\ UNCHANGED created
         \/ /\ created' = created + 1
            /\ Decide(w, x, payload, unsafe, drop, created + 1, NewRow(x, kind, payload, deps))
      /\ UNCHANGED operations
  BY DEF EnqueueRead
<1>3. StoreAgrees(S)'
  BY <1>2, <1>t DEF StoreAgrees
<1> HIDE DEF unsafe, foldable, drop, deps
<1>4. CASE Decide(w, x, payload, unsafe, {}, 0, NoRow)
  BY <1>4, <1>0, <1>3, DecideAgrees
<1>5. ASSUME NEW r \in foldable,
             Decide(w, x, payload, unsafe, {}, r, Merged(operations[r], payload))
      PROVE  EnqueuesAgree(S)'
  <2>1. r \in Rows /\ Present(operations[r])
    BY <1>1 DEF WithStatus, Active, Present
  <2>2. Copy(Merged(operations[r], payload), r, S)
    BY <2>1, <1>t, RewrittenCopy DEF StoreAgrees
  <2> QED BY <1>5, <1>0, <2>2, DecideAgrees
<1>6. CASE Decide(w, x, payload, unsafe, drop, created + 1, NewRow(x, kind, payload, deps))
  <2>1. created + 1 \notin S
    BY <1>t DEF StoreAgrees
  <2>2. Copy(NewRow(x, kind, payload, deps), created + 1, S)
    BY <2>1 DEF Copy, NewRow
  <2> QED BY <1>6, <1>0, <1>3, <2>2, DecideAgrees
<1> QED BY <1>2, <1>3, <1>4, <1>5, <1>6

LEMMA QueueStepAgrees ==
  ASSUME TypeOK, NEW S, StoreAgrees(S), EnqueuesAgree(S), UpkeepAgrees(S), QueueNext
  PROVE  StoreAgrees(S)' /\ EnqueuesAgree(S)' /\ UpkeepAgrees(S)'
<1>t. /\ operations \in [Rows -> Row] /\ enqueues \in [Writers -> Call]
      /\ upkeep \in [Upkeep -> [row: Rows \cup {0}, value: Row]]
      /\ saved \in [Records -> SUBSET Edits]
  BY DEF TypeOK, QueueTypeOK
<1>k. ASSUME UNCHANGED upkeep PROVE UpkeepAgrees(S)'
  BY <1>k DEF UpkeepAgrees
<1>1. ASSUME NEW w \in Writers, NEW x \in Records, NEW e \in Edits, Save(w, x, e)
      PROVE  StoreAgrees(S)' /\ EnqueuesAgree(S)' /\ UpkeepAgrees(S)'
  <2>1. EnqueueRead(w, x, "upsert", saved[x] \cup {e})
    BY <1>1 DEF Save
  <2>2. "upsert" \in Kinds /\ saved[x] \cup {e} \in SUBSET Edits
    BY <1>t DEF Kinds
  <2>3. UNCHANGED upkeep
    BY <2>1 DEF EnqueueRead
  <2> QED BY <2>1, <2>2, <2>3, <1>k, EnqueueReadAgrees
<1>2. ASSUME NEW w \in Writers, NEW x \in Records, Delete(w, x)
      PROVE  StoreAgrees(S)' /\ EnqueuesAgree(S)' /\ UpkeepAgrees(S)'
  <2>1. EnqueueRead(w, x, "delete", {})
    BY <1>2 DEF Delete
  <2>2. "delete" \in Kinds
    BY DEF Kinds
  <2>3. UNCHANGED upkeep
    BY <2>1 DEF EnqueueRead
  <2> QED BY <2>1, <2>2, <2>3, <1>k, EnqueueReadAgrees
<1>3. ASSUME NEW w \in Writers, EnqueueQuarantine(w)
      PROVE  StoreAgrees(S)' /\ EnqueuesAgree(S)' /\ UpkeepAgrees(S)'
  <2>1. PICK r \in enqueues[w].quarantine :
          /\ operations' = [operations EXCEPT ![r] = Quarantined(enqueues[w].snap[r])]
          /\ enqueues' = [enqueues EXCEPT ![w].quarantine = @ \ {r}, ![w].snap[r] = NoRow]
    BY <1>3 DEF EnqueueQuarantine
  <2>2. r \in Rows /\ enqueues[w].snap \in [Rows -> Row]
    BY <1>t DEF Call
  <2>3. Copy(Quarantined(enqueues[w].snap[r]), r, S)
    BY <2>2, RewrittenCopy DEF EnqueuesAgree
  <2>4. StoreAgrees(S)'
    BY <1>3, <2>1, <2>2, <2>3, StorePut DEF EnqueueQuarantine
  <2>5. /\ enqueues'[w].quarantine = enqueues[w].quarantine \ {r}
        /\ enqueues'[w].snap = [enqueues[w].snap EXCEPT ![r] = NoRow]
        /\ enqueues'[w].target = enqueues[w].target /\ enqueues'[w].value = enqueues[w].value
        /\ \A v \in Writers : v # w => enqueues'[v] = enqueues[v]
    BY <1>t, <2>1 DEF Call
  <2>6. \A q \in Rows : enqueues'[w].snap[q] = IF q = r THEN NoRow ELSE enqueues[w].snap[q]
    BY <2>2, <2>5
  <2>7. EnqueuesAgree(S)'
    <3>1. \A q \in Rows : Copy(enqueues'[w].snap[q], q, S)
      BY <2>6, EmptyCopy DEF EnqueuesAgree
    <3>2. \A q \in enqueues'[w].quarantine : Present(enqueues'[w].snap[q])
      <4>1. enqueues[w].quarantine \subseteq Rows
        BY <1>t DEF Call
      <4> QED BY <4>1, <2>5, <2>6 DEF EnqueuesAgree
    <3> QED BY <2>5, <3>1, <3>2 DEF EnqueuesAgree
  <2> QED BY <1>3, <2>4, <2>7, <1>k DEF EnqueueQuarantine
<1>4. ASSUME NEW w \in Writers, EnqueueDrop(w)
      PROVE  StoreAgrees(S)' /\ EnqueuesAgree(S)' /\ UpkeepAgrees(S)'
  <2>1. PICK r \in enqueues[w].drop :
          /\ operations' = [operations EXCEPT ![r] = NoRow]
          /\ enqueues' = [enqueues EXCEPT ![w].drop = @ \ {r}]
    BY <1>4 DEF EnqueueDrop
  <2>2. r \in Rows
    BY <1>t DEF Call
  <2>3. StoreAgrees(S)'
    BY <1>4, <2>1, <2>2, EmptyCopy, StorePut DEF EnqueueDrop
  <2>4. EnqueuesAgree(S)'
    <3>1. \A v \in Writers : /\ enqueues'[v].snap = enqueues[v].snap
                             /\ enqueues'[v].quarantine = enqueues[v].quarantine
                             /\ enqueues'[v].target = enqueues[v].target
                             /\ enqueues'[v].value = enqueues[v].value
      BY <1>t, <2>1 DEF Call
    <3> QED BY <3>1 DEF EnqueuesAgree
  <2> QED BY <1>4, <2>3, <2>4, <1>k DEF EnqueueDrop
<1>5. ASSUME NEW w \in Writers, EnqueueReturn(w)
      PROVE  StoreAgrees(S)' /\ EnqueuesAgree(S)' /\ UpkeepAgrees(S)'
  <2>1. enqueues[w].target \in Rows \cup {0}
    BY <1>t DEF Call
  <2>2. StoreAgrees(S)'
    <3>1. CASE enqueues[w].target = 0
      BY <1>5, <3>1 DEF EnqueueReturn, StoreAgrees
    <3>2. CASE enqueues[w].target # 0
      <4>1. Copy(enqueues[w].value, enqueues[w].target, S)
        BY <3>2 DEF EnqueuesAgree
      <4>2. /\ operations' = [operations EXCEPT ![enqueues[w].target] = enqueues[w].value]
            /\ UNCHANGED created
        BY <1>5, <3>2 DEF EnqueueReturn
      <4> QED BY <2>1, <3>2, <4>1, <4>2, StorePut
    <3> QED BY <3>1, <3>2
  <2>3. EnqueuesAgree(S)'
    BY <1>5, <1>t, NoSnapshotCopy DEF EnqueueReturn, IdleCall, EnqueuesAgree
  <2> QED BY <1>5, <2>2, <2>3, <1>k DEF EnqueueReturn
<1>6. ASSUME NEW m \in Upkeep, NEW r \in Rows, NEW value, Keep(m, r, value), Copy(value, r, S)
      PROVE  StoreAgrees(S)' /\ EnqueuesAgree(S)' /\ UpkeepAgrees(S)'
  BY <1>6, <1>t DEF Keep, StoreAgrees, EnqueuesAgree, UpkeepAgrees
<1>7. ASSUME NEW m \in Upkeep, NEW r \in Rows, RetryDeadLetter(m, r)
      PROVE  StoreAgrees(S)' /\ EnqueuesAgree(S)' /\ UpkeepAgrees(S)'
  <2>1. Copy(Revived(operations[r]), r, S)
    BY <1>7, <1>t, RewrittenCopy DEF RetryDeadLetter, StoreAgrees, Present
  <2> QED BY <1>6, <1>7, <2>1 DEF RetryDeadLetter
<1>8. ASSUME NEW m \in Upkeep, NEW r \in Rows, Cleanup(m, r)
      PROVE  StoreAgrees(S)' /\ EnqueuesAgree(S)' /\ UpkeepAgrees(S)'
  BY <1>6, <1>8, EmptyCopy DEF Cleanup
<1>9. ASSUME NEW m \in Upkeep, UpkeepPut(m)
      PROVE  StoreAgrees(S)' /\ EnqueuesAgree(S)' /\ UpkeepAgrees(S)'
  <2>1. upkeep[m].row \in Rows /\ Copy(upkeep[m].value, upkeep[m].row, S)
    BY <1>9, <1>t DEF UpkeepPut, UpkeepAgrees
  <2>2. StoreAgrees(S)'
    BY <1>9, <2>1, StorePut DEF UpkeepPut
  <2>3. UpkeepAgrees(S)'
    BY <1>9, <1>t DEF UpkeepPut, IdleUpkeep, UpkeepAgrees
  <2> QED BY <1>9, <2>2, <2>3 DEF UpkeepPut, EnqueuesAgree
<1> QED BY <1>1, <1>2, <1>3, <1>4, <1>5, <1>7, <1>8, <1>9 DEF QueueNext

-----------------------------------------------------------------------------
(***************************************************************************)
(* The background cycle.                                                   *)
(***************************************************************************)
LEMMA IdleCycleAgrees ==
  ASSUME TypeOK, NEW S, cycle'.snap = NoSnapshot,
         cycle'.pc \in {"idle", "unwind", "dequeue"}
  PROVE  CycleAgrees(S)'
BY NoSnapshotCopy DEF CycleAgrees

\* Every row dequeue() picks is stamped in the copy it will send.
LEMMA ClaimBatchAgrees ==
  ASSUME TypeOK, NEW S, NEW candidates \in SUBSET Rows, NEW snap \in [Rows -> Row],
         \A r \in Rows : Copy(snap[r], r, S),
         \A r \in candidates : snap[r].status = "pending" /\ snap[r].stamped,
         ClaimBatch(candidates, snap)
  PROVE  CycleAgrees(S)'
<1>1. PICK B \in SUBSET {r \in candidates : sendClaims[r] = None} :
        cycle' = IF B = {} THEN [IdleCycle EXCEPT !.pc = "unwind"]
                 ELSE [cycle EXCEPT !.pc = "mark", !.batch = B, !.todo = B,
                                    !.snap = [r \in Rows |-> IF r \in B THEN snap[r] ELSE NoRow]]
  BY DEF ClaimBatch
<1>2. CASE B = {}
  <2>1. cycle'.pc = "unwind" /\ cycle'.snap = NoSnapshot
    BY <1>1, <1>2 DEF IdleCycle
  <2> QED BY <2>1, IdleCycleAgrees
<1>3. CASE B # {}
  <2>1. /\ cycle'.pc = "mark" /\ cycle'.todo = B /\ cycle'.batch = B
        /\ cycle'.snap = [r \in Rows |-> IF r \in B THEN snap[r] ELSE NoRow]
    BY <1>1, <1>3, CopyTypes DEF Cycle
  <2>2. \A r \in Rows : Copy(cycle'.snap[r], r, S)
    BY <2>1, EmptyCopy
  <2>3. B \cap S = {}
    BY DEF Copy
  <2> QED BY <2>1, <2>2, <2>3 DEF CycleAgrees
<1> QED BY <1>2, <1>3

LEMMA AfterSettlingAgrees ==
  ASSUME TypeOK, NEW S, CycleAgrees(S), NEW r \in cycle.todo,
         cycle.pc \in {"settle", "settlePut"}, AfterSettling(r)
  PROVE  CycleAgrees(S)'
<1>1. \/ cycle'.pc \in {"unwind", "dequeue"} /\ cycle'.snap = NoSnapshot
      \/ cycle'.pc = "settle" /\ cycle'.snap = NoSnapshot /\ cycle'.todo = cycle.todo \ {r}
  BY CopyTypes DEF AfterSettling, IdleCycle, Cycle
<1>2. CASE cycle'.pc \in {"unwind", "dequeue"} /\ cycle'.snap = NoSnapshot
  BY <1>2, IdleCycleAgrees
<1>3. CASE cycle'.pc = "settle" /\ cycle'.snap = NoSnapshot /\ cycle'.todo = cycle.todo \ {r}
  BY <1>3, NoSnapshotCopy DEF CycleAgrees
<1> QED BY <1>1, <1>2, <1>3

LEMMA CycleStepAgrees ==
  ASSUME TypeOK, NEW S \in SUBSET Rows, StoreAgrees(S), CycleAgrees(S), CycleStart \/ CycleProgress
  PROVE  StoreAgrees(S)' /\ CycleAgrees(S)'
<1>t. /\ cycle \in Cycle /\ cycle.snap \in [Rows -> Row] /\ operations \in [Rows -> Row]
      /\ cycle.todo \subseteq Rows /\ cycle.batch \subseteq Rows
  BY CopyTypes
<1>k. ASSUME UNCHANGED <<operations, created>> PROVE StoreAgrees(S)'
  BY <1>k DEF StoreAgrees
<1>1. CASE CycleStart
  <2>1. cycle'.pc = "retryRead" /\ cycle'.snap = cycle.snap
    BY <1>1, <1>t DEF CycleStart, Cycle
  <2> QED BY <1>1, <1>k, <2>1 DEF CycleStart, queueVars, CycleAgrees
<1>2. CASE RetryRead
  <2>1. PICK failed \in SUBSET WithStatus({"failed"}) :
          cycle' = [cycle EXCEPT !.pc = "retry", !.todo = failed, !.snap = Snapshot(failed)]
    BY <1>2 DEF RetryRead
  <2>2. cycle'.pc = "retry" /\ cycle'.todo = failed /\ cycle'.snap = Snapshot(failed)
    BY <1>t, <2>1 DEF Cycle
  <2>3. \A r \in failed : Present(Snapshot(failed)[r])
    BY DEF WithStatus, Snapshot, Present
  <2> QED BY <1>2, <1>k, <2>2, <2>3, SnapshotCopy DEF RetryRead, queueVars, CycleAgrees
<1>3. CASE RetryPut
  <2>1. PICK r \in cycle.todo :
          /\ operations' = [operations EXCEPT ![r] = Retried(cycle.snap[r])]
          /\ cycle' = [cycle EXCEPT !.todo = @ \ {r}, !.snap[r] = NoRow]
    BY <1>3 DEF RetryPut
  <2>2. r \in Rows /\ Copy(Retried(cycle.snap[r]), r, S)
    BY <1>3, <1>t, RewrittenCopy DEF RetryPut, CycleAgrees
  <2>3. StoreAgrees(S)'
    BY <1>3, <2>1, <2>2, StorePut DEF RetryPut, KeepQueue, KeepCalls
  <2>4. /\ cycle'.pc = "retry" /\ cycle'.todo = cycle.todo \ {r}
        /\ \A q \in Rows : cycle'.snap[q] = IF q = r THEN NoRow ELSE cycle.snap[q]
    BY <1>3, <1>t, <2>1 DEF RetryPut, Cycle
  <2>5. \A q \in Rows : Copy(cycle'.snap[q], q, S)
    BY <2>4, EmptyCopy DEF CycleAgrees
  <2>6. \A q \in cycle'.todo : Present(cycle'.snap[q])
    BY <1>3, <1>t, <2>4 DEF RetryPut, CycleAgrees
  <2> QED BY <2>3, <2>4, <2>5, <2>6 DEF CycleAgrees
<1>4. CASE CountPending
  <2>1. cycle'.pc \in {"unwind", "dequeue"} /\ cycle'.snap = NoSnapshot
    BY <1>4 DEF CountPending, IdleCycle
  <2> QED BY <1>4, <1>k, <2>1, IdleCycleAgrees DEF CountPending, queueVars
<1>5. CASE DequeueRead
  <2> DEFINE pending == WithStatus({"pending"})
             legacy == {r \in pending : ~operations[r].stamped}
  <2>0. pending \in SUBSET Rows /\ \A r \in pending : operations[r].status = "pending"
    BY DEF WithStatus
  <2>1. \/ legacy = {} /\ ClaimBatch(pending, operations)
        \/ cycle' = [cycle EXCEPT !.pc = "select", !.todo = legacy, !.snap = Snapshot(pending)]
    BY <1>5 DEF DequeueRead
  <2>2. CASE legacy = {} /\ ClaimBatch(pending, operations)
    <3>1. \A r \in pending : operations[r].status = "pending" /\ operations[r].stamped
      BY <2>0, <2>2
    <3> HIDE DEF pending
    <3>2. CycleAgrees(S)'
      BY <1>t, <2>0, <2>2, <3>1, ClaimBatchAgrees DEF StoreAgrees
    <3> QED BY <1>5, <1>k, <3>2 DEF DequeueRead, KeepQueue, KeepCalls
  <2>3. CASE cycle' = [cycle EXCEPT !.pc = "select", !.todo = legacy, !.snap = Snapshot(pending)]
    <3>1. cycle'.pc = "select" /\ cycle'.todo = legacy /\ cycle'.snap = Snapshot(pending)
      BY <1>t, <2>3 DEF Cycle
    <3>2. \A r \in legacy : Present(Snapshot(pending)[r])
      BY <2>0 DEF Snapshot, Present
    <3>3. CycleAgrees(S)'
      BY <3>1, <3>2, SnapshotCopy DEF CycleAgrees
    <3> QED BY <1>5, <1>k, <3>3 DEF DequeueRead, KeepQueue, KeepCalls
  <2> QED BY <2>1, <2>2, <2>3
<1>6. CASE DequeueQuarantine
  <2>1. PICK r \in cycle.todo :
          /\ operations' = [operations EXCEPT ![r] = Quarantined(cycle.snap[r])]
          /\ cycle' = [cycle EXCEPT !.todo = @ \ {r}]
    BY <1>6 DEF DequeueQuarantine
  <2>2. r \in Rows /\ Copy(Quarantined(cycle.snap[r]), r, S)
    BY <1>6, <1>t, RewrittenCopy DEF DequeueQuarantine, CycleAgrees
  <2>3. StoreAgrees(S)'
    BY <1>6, <2>1, <2>2, StorePut DEF DequeueQuarantine, KeepQueue, KeepCalls
  <2>4. cycle'.pc = "select" /\ cycle'.todo \subseteq cycle.todo /\ cycle'.snap = cycle.snap
    BY <1>6, <1>t, <2>1 DEF DequeueQuarantine, Cycle
  <2> QED BY <1>6, <2>3, <2>4 DEF DequeueQuarantine, CycleAgrees
<1>7. CASE DequeueSelect
  <2> DEFINE candidates == {r \in Rows : cycle.snap[r].status = "pending" /\ cycle.snap[r].stamped}
  <2>1. /\ candidates \in SUBSET Rows
        /\ \A r \in candidates : cycle.snap[r].status = "pending" /\ cycle.snap[r].stamped
        /\ \A r \in Rows : Copy(cycle.snap[r], r, S)
    BY DEF CycleAgrees
  <2>2. ClaimBatch(candidates, cycle.snap)
    BY <1>7 DEF DequeueSelect
  <2> HIDE DEF candidates
  <2>3. CycleAgrees(S)'
    BY <1>t, <2>1, <2>2, ClaimBatchAgrees
  <2> QED BY <1>7, <1>k, <2>3 DEF DequeueSelect, KeepQueue, KeepCalls
<1>8. CASE MarkSyncing
  <2>1. PICK r \in cycle.todo :
          /\ operations' = [operations EXCEPT ![r] = Syncing(cycle.snap[r])]
          /\ cycle' = [cycle EXCEPT !.todo = @ \ {r}, !.pc = IF cycle.todo = {r} THEN "send" ELSE @]
    BY <1>8 DEF MarkSyncing
  <2>2. r \in Rows /\ r \notin S
    BY <1>8, <1>t DEF MarkSyncing, CycleAgrees
  <2>3. Copy(Syncing(cycle.snap[r]), r, S)
    BY <1>t, <2>2, SenderCopy DEF CycleAgrees, Copy
  <2>4. StoreAgrees(S)'
    BY <1>8, <2>1, <2>2, <2>3, StorePut DEF MarkSyncing, KeepQueue, KeepCalls
  <2>5. /\ cycle'.pc \in {"mark", "send"} /\ cycle'.todo \subseteq cycle.todo
        /\ cycle'.batch = cycle.batch /\ cycle'.snap = cycle.snap
    BY <1>8, <1>t, <2>1 DEF MarkSyncing, Cycle
  <2> QED BY <1>8, <2>4, <2>5 DEF MarkSyncing, CycleAgrees
<1>9. CASE BatchAnswered \/ BatchFailed
  <2>1. cycle'.pc = "settle" /\ cycle'.todo = cycle.batch /\ cycle'.snap = NoSnapshot
    BY <1>9, <1>t DEF BatchAnswered, BatchFailed, Cycle
  <2>2. CycleAgrees(S)'
    BY <1>9, <2>1, NoSnapshotCopy DEF BatchAnswered, BatchFailed, CycleAgrees
  <2> QED BY <1>9, <1>k, <2>2 DEF BatchAnswered, BatchFailed, queueVars
<1>10. CASE SettleRead
  <2>1. PICK r \in cycle.todo :
          IF operations[r].status \in Active
          THEN cycle' = [cycle EXCEPT !.pc = "settlePut", !.snap = Snapshot({r})]
          ELSE AfterSettling(r)
    BY <1>10 DEF SettleRead
  <2>2. CASE operations[r].status \in Active
    <3>1. cycle'.pc = "settlePut" /\ cycle'.todo = cycle.todo /\ cycle'.snap = Snapshot({r})
      BY <1>t, <2>1, <2>2 DEF Cycle
    <3>2. CycleAgrees(S)'
      BY <1>10, <3>1, SnapshotCopy DEF SettleRead, CycleAgrees
    <3> QED BY <1>10, <1>k, <3>2 DEF SettleRead, KeepQueue, KeepCalls
  <2>3. CASE operations[r].status \notin Active
    BY <1>10, <1>k, <2>1, <2>3, AfterSettlingAgrees DEF SettleRead, KeepQueue, KeepCalls
  <2> QED BY <2>2, <2>3
<1>11. CASE SettlePut
  <2>1. PICK r \in cycle.todo :
          /\ operations' = [operations EXCEPT ![r] = Settled(cycle.snap[r], cycle.result[r])]
          /\ AfterSettling(r)
    BY <1>11 DEF SettlePut
  <2>2. r \in Rows /\ r \notin S
    BY <1>11, <1>t DEF SettlePut, CycleAgrees
  <2>3. Copy(Settled(cycle.snap[r], cycle.result[r]), r, S)
    BY <1>t, <2>2, SenderCopy DEF CycleAgrees, Copy
  <2>4. StoreAgrees(S)'
    BY <1>11, <2>1, <2>2, <2>3, StorePut DEF SettlePut, KeepQueue, KeepCalls
  <2> QED BY <1>11, <2>1, <2>4, AfterSettlingAgrees DEF SettlePut
<1>12. CASE BatchesExhausted \/ Unwind
  <2>1. cycle'.pc \in {"unwind", "idle"} /\ cycle'.snap = NoSnapshot
    BY <1>12 DEF BatchesExhausted, Unwind, IdleCycle
  <2> QED BY <1>12, <1>k, <2>1, IdleCycleAgrees
          DEF BatchesExhausted, Unwind, queueVars, KeepQueue, KeepCalls
<1> QED BY <1>1, <1>2, <1>3, <1>4, <1>5, <1>6, <1>7, <1>8, <1>9, <1>10, <1>11, <1>12
        DEF CycleProgress

-----------------------------------------------------------------------------
(***************************************************************************)
(* The inline flush, the login and the restart.                            *)
(***************************************************************************)
\* One flush changes; the others are as they were.
LEMMA FlushMoveAgrees ==
  ASSUME TypeOK, NEW S, FlushesAgree(S), NEW x \in FlushRecords,
         \A y \in FlushRecords : y # x => flush'[y] = flush[y],
         flush'[x].pc # "idle" => flush'[x].row \notin S,
         flush'[x].sent.stamped /\ flush'[x].value.stamped
  PROVE  FlushesAgree(S)'
BY DEF FlushesAgree

LEMMA FlushReleaseAgrees ==
  ASSUME TypeOK, NEW S, FlushesAgree(S), NEW x \in FlushRecords, ReleaseFlush(x)
  PROVE  FlushesAgree(S)'
BY CopyTypes, EmptySlot DEF FlushesAgree, ReleaseFlush, IdleFlush

LEMMA FlushStepAgrees ==
  ASSUME TypeOK, NEW S \in SUBSET Rows, StoreAgrees(S), FlushesAgree(S), FlushStep
  PROVE  StoreAgrees(S)' /\ FlushesAgree(S)'
<1>t. /\ flush \in [FlushRecords -> Flush] /\ operations \in [Rows -> Row]
      /\ \A y \in FlushRecords : flush[y].pc # "idle" => flush[y].row \in Rows
  BY CopyTypes DEF TypeOK
<1>k. ASSUME UNCHANGED <<operations, created>> PROVE StoreAgrees(S)'
  BY <1>k DEF StoreAgrees
<1>1. PICK x \in FlushRecords : FlushClaim(x) \/ FlushProgress(x)
  BY DEF FlushStep
<1>f. /\ flush[x] \in Flush /\ flush[x].sent \in Row /\ flush[x].sent.stamped
      /\ flush[x].value.stamped
  BY <1>t DEF Flush, FlushesAgree
<1>r. ASSUME flush[x].pc # "idle"
      PROVE  /\ flush[x].row \in Rows /\ flush[x].row \notin S
             /\ operations[flush[x].row] \in Row /\ operations[flush[x].row].stamped
  BY <1>r, <1>t DEF FlushesAgree, StoreAgrees, Copy
<1>2. CASE FlushClaim(x)
  <2>1. PICK r \in Rows : /\ Newest(r, {q \in WithStatus(Active) : operations[q].rec = x})
                          /\ operations[r].stamped
                          /\ flush' = [flush EXCEPT ![x].pc = "get", ![x].row = r]
    BY <1>2 DEF FlushClaim
  <2>2. r \notin S
    BY <2>1 DEF Newest, WithStatus, Active, StoreAgrees, Copy
  <2>3. /\ flush'[x].row = r
        /\ flush'[x].sent = flush[x].sent /\ flush'[x].value = flush[x].value
        /\ \A y \in FlushRecords : y # x => flush'[y] = flush[y]
    BY <1>t, <2>1 DEF Flush
  <2>4. FlushesAgree(S)'
    BY <1>f, <2>2, <2>3, FlushMoveAgrees
  <2> QED BY <1>2, <1>k, <2>4 DEF FlushClaim, KeepQueue, KeepCalls
<1>3. CASE FlushGet(x)
  <2>1. CASE operations[flush[x].row].status \in Active
    <3>1. flush' = [flush EXCEPT ![x].pc = "mark", ![x].sent = operations[flush[x].row]]
      BY <1>3, <2>1 DEF FlushGet
    <3>2. /\ flush'[x].row = flush[x].row
          /\ flush'[x].sent = operations[flush[x].row] /\ flush'[x].value = flush[x].value
          /\ \A y \in FlushRecords : y # x => flush'[y] = flush[y]
      BY <1>t, <3>1 DEF Flush
    <3>3. flush[x].pc # "idle"
      BY <1>3 DEF FlushGet
    <3>4. FlushesAgree(S)'
      BY <1>f, <1>r, <3>2, <3>3, FlushMoveAgrees
    <3> QED BY <1>3, <1>k, <3>4 DEF FlushGet, KeepQueue, KeepCalls
  <2>2. CASE operations[flush[x].row].status \notin Active
    BY <1>3, <1>k, <2>2, FlushReleaseAgrees DEF FlushGet, KeepQueue, KeepCalls
  <2> QED BY <2>1, <2>2
<1>4. CASE FlushMark(x)
  <2>1. flush[x].pc # "idle"
    BY <1>4 DEF FlushMark
  <2>2. Copy(Syncing(flush[x].sent), flush[x].row, S)
    BY <1>f, <1>r, <2>1, SenderCopy DEF Copy
  <2>3. StoreAgrees(S)'
    BY <1>4, <1>r, <2>1, <2>2, StorePut DEF FlushMark, KeepQueue, KeepCalls
  <2>4. /\ flush'[x].row = flush[x].row
        /\ flush'[x].sent = flush[x].sent /\ flush'[x].value = flush[x].value
        /\ \A y \in FlushRecords : y # x => flush'[y] = flush[y]
    BY <1>4, <1>t DEF FlushMark, Flush
  <2> QED BY <1>f, <1>r, <2>1, <2>3, <2>4, FlushMoveAgrees
<1>5. CASE FlushAnswered(x) \/ FlushFailed(x)
  <2>1. flush[x].pc # "idle"
    BY <1>5 DEF FlushAnswered, FlushFailed
  <2>2. /\ flush'[x].row = flush[x].row
        /\ flush'[x].sent = flush[x].sent /\ flush'[x].value = flush[x].value
        /\ \A y \in FlushRecords : y # x => flush'[y] = flush[y]
    BY <1>5, <1>t DEF FlushAnswered, FlushFailed, Flush
  <2>3. FlushesAgree(S)'
    BY <1>f, <1>r, <2>1, <2>2, FlushMoveAgrees
  <2> QED BY <1>5, <1>k, <2>3 DEF FlushAnswered, FlushFailed, queueVars
<1>6. CASE FlushSettle(x)
  <2>1. flush[x].pc # "idle" /\ UNCHANGED <<operations, created>>
    BY <1>6 DEF FlushSettle, KeepQueue, KeepCalls
  <2>2. CASE ReleaseFlush(x)
    BY <1>k, <2>1, <2>2, FlushReleaseAgrees
  <2>3. ASSUME NEW value \in {Resumed(operations[flush[x].row]), Pending(operations[flush[x].row])},
               flush' = [flush EXCEPT ![x].pc = "put", ![x].value = value]
        PROVE  FlushesAgree(S)'
    <3>1. value.stamped
      BY <1>r, <2>1, SenderCopy
    <3>2. /\ flush'[x].row = flush[x].row
          /\ flush'[x].sent = flush[x].sent /\ flush'[x].value = value
          /\ \A y \in FlushRecords : y # x => flush'[y] = flush[y]
      BY <1>t, <2>3 DEF Flush
    <3> QED BY <1>f, <1>r, <2>1, <3>1, <3>2, FlushMoveAgrees
  <2>4. CASE flush' = [flush EXCEPT ![x].pc = "reget"]
    <3>1. /\ flush'[x].row = flush[x].row
          /\ flush'[x].sent = flush[x].sent /\ flush'[x].value = flush[x].value
          /\ \A y \in FlushRecords : y # x => flush'[y] = flush[y]
      BY <1>t, <2>4 DEF Flush
    <3> QED BY <1>f, <1>r, <1>k, <2>1, <3>1, FlushMoveAgrees
  <2> QED BY <1>6, <1>k, <2>1, <2>2, <2>3, <2>4 DEF FlushSettle
<1>7. CASE FlushReget(x)
  <2>1. flush[x].pc # "idle" /\ UNCHANGED <<operations, created>>
    BY <1>7 DEF FlushReget, KeepQueue, KeepCalls
  <2>2. CASE ReleaseFlush(x)
    BY <1>k, <2>1, <2>2, FlushReleaseAgrees
  <2>3. CASE flush' = [flush EXCEPT ![x].pc = "put",
                         ![x].value = Settled(operations[flush[x].row], flush[x].result)]
    <3>1. Settled(operations[flush[x].row], flush[x].result).stamped
      BY <1>r, <2>1, SenderCopy
    <3>2. /\ flush'[x].row = flush[x].row /\ flush'[x].sent = flush[x].sent
          /\ flush'[x].value = Settled(operations[flush[x].row], flush[x].result)
          /\ \A y \in FlushRecords : y # x => flush'[y] = flush[y]
      BY <1>t, <2>3 DEF Flush
    <3> QED BY <1>f, <1>r, <1>k, <2>1, <3>1, <3>2, FlushMoveAgrees
  <2> QED BY <1>7, <2>2, <2>3 DEF FlushReget
<1>8. CASE FlushPut(x)
  <2>1. flush[x].pc # "idle"
    BY <1>8 DEF FlushPut
  <2>2. Copy(flush[x].value, flush[x].row, S)
    BY <1>f, <1>r, <2>1 DEF Copy
  <2>3. StoreAgrees(S)'
    BY <1>8, <1>r, <2>1, <2>2, StorePut DEF FlushPut, KeepQueue, KeepCalls
  <2> QED BY <1>8, <2>3, FlushReleaseAgrees DEF FlushPut
<1> QED BY <1>1, <1>2, <1>3, <1>4, <1>5, <1>6, <1>7, <1>8 DEF FlushProgress

LEMMA LoginStepAgrees ==
  ASSUME TypeOK, NEW S, StoreAgrees(S), LoginsAgree(S), LoginStep
  PROVE  StoreAgrees(S)' /\ LoginsAgree(S)'
<1>t. operations \in [Rows -> Row] /\ login \in [Logins -> Login]
  BY CopyTypes
<1>k. ASSUME UNCHANGED <<operations, created>> PROVE StoreAgrees(S)'
  BY <1>k DEF StoreAgrees
<1>1. ASSUME NEW u \in Logins, LoginStart(u)
      PROVE  StoreAgrees(S)' /\ LoginsAgree(S)'
  <2>1. \A v \in Logins : login'[v].snap = login[v].snap /\ login'[v].todo = login[v].todo
    BY <1>1, <1>t DEF LoginStart, Login
  <2> QED BY <1>1, <1>k, <2>1 DEF LoginStart, KeepCalls, LoginsAgree
<1>2. ASSUME NEW u \in Logins, LoginRead(u)
      PROVE  StoreAgrees(S)' /\ LoginsAgree(S)'
  <2>1. PICK held \in SUBSET WithStatus({"failed"}) :
          login' = [login EXCEPT ![u] =
                      [pc |-> "put", todo |-> held, snap |-> Snapshot(held), any |-> held # {}]]
    BY <1>2 DEF LoginRead
  <2>2. \A r \in held : Present(Snapshot(held)[r])
    BY DEF WithStatus, Snapshot, Present
  <2>3. /\ login'[u].todo = held /\ login'[u].snap = Snapshot(held)
        /\ \A v \in Logins : v # u => login'[v] = login[v]
    BY <1>t, <2>1
  <2>4. LoginsAgree(S)'
    BY <2>2, <2>3, SnapshotCopy DEF LoginsAgree
  <2> QED BY <1>2, <1>k, <2>4 DEF LoginRead, queueVars
<1>3. ASSUME NEW u \in Logins, LoginPut(u)
      PROVE  StoreAgrees(S)' /\ LoginsAgree(S)'
  <2>1. PICK r \in login[u].todo :
          /\ operations' = [operations EXCEPT ![r] = Resumed(login[u].snap[r])]
          /\ login' = [login EXCEPT ![u].todo = @ \ {r}, ![u].snap[r] = NoRow]
    BY <1>3 DEF LoginPut
  <2>2. r \in Rows /\ login[u].snap \in [Rows -> Row] /\ login[u].todo \subseteq Rows
    BY <1>t DEF Login
  <2>3. Copy(Resumed(login[u].snap[r]), r, S)
    BY <2>2, RewrittenCopy DEF LoginsAgree
  <2>4. StoreAgrees(S)'
    BY <1>3, <2>1, <2>2, <2>3, StorePut DEF LoginPut, KeepCalls
  <2>5. /\ login'[u].todo = login[u].todo \ {r}
        /\ login'[u].snap = [login[u].snap EXCEPT ![r] = NoRow]
        /\ \A v \in Logins : v # u => login'[v] = login[v]
    BY <1>t, <2>1 DEF Login
  <2>6. \A q \in Rows : login'[u].snap[q] = IF q = r THEN NoRow ELSE login[u].snap[q]
    BY <2>2, <2>5
  <2>7. \A q \in Rows : Copy(login'[u].snap[q], q, S)
    BY <2>6, EmptyCopy DEF LoginsAgree
  <2>8. \A q \in login'[u].todo : Present(login'[u].snap[q])
    BY <2>2, <2>5, <2>6 DEF LoginsAgree
  <2> QED BY <2>4, <2>5, <2>7, <2>8 DEF LoginsAgree
<1>4. ASSUME NEW u \in Logins, LoginDone(u)
      PROVE  StoreAgrees(S)' /\ LoginsAgree(S)'
  BY <1>4, <1>t, <1>k, NoSnapshotCopy DEF LoginDone, KeepCalls, IdleLogin, LoginsAgree
<1> QED BY <1>1, <1>2, <1>3, <1>4 DEF LoginStep

LEMMA RestartAgrees ==
  ASSUME TypeOK, NEW S, CopiesAgree(S), Restart
  PROVE  CopiesAgree(S)'
<1>t. operations \in [Rows -> Row] /\ StoreAgrees(S) /\ EnqueuesAgree(S)
  BY CopyTypes DEF CopiesAgree
<1>1. StoreAgrees(S)'
  <2>1. PICK old \in SUBSET WithStatus({"syncing"}) :
          operations' = [r \in Rows |-> Recovered(operations[r], r \in old)]
    BY DEF Restart
  <2>2. ASSUME NEW r \in Rows PROVE Copy(operations'[r], r, S)
    <3>1. operations[r] \in Row /\ Copy(operations[r], r, S)
      BY <1>t DEF StoreAgrees
    <3>2. CASE operations'[r] = operations[r]
      BY <3>1, <3>2
    <3>3. CASE operations'[r] = Quarantined(operations[r]) /\ operations[r].status \in Active
      BY <3>1, <3>3, RewrittenCopy DEF Present, Active
    <3>4. CASE operations'[r] = Pending(operations[r]) /\ operations[r].status = "syncing"
      BY <3>1, <3>4, RewrittenCopy DEF Present
    <3> QED BY <2>1, <3>2, <3>3, <3>4 DEF Recovered
  <2>3. UNCHANGED created
    BY DEF Restart
  <2> QED BY <1>t, <2>2, <2>3 DEF StoreAgrees
<1>2. EnqueuesAgree(S)'
  <2>1. PICK lost : enqueues' = [w \in Writers |-> IF w \in lost THEN IdleCall ELSE enqueues[w]]
    BY DEF Restart
  <2>2. ASSUME NEW w \in Writers, enqueues'[w] = IdleCall
        PROVE  /\ \A r \in Rows : Copy(enqueues'[w].snap[r], r, S)
               /\ enqueues'[w].quarantine = {} /\ enqueues'[w].target = 0
    BY <2>2, NoSnapshotCopy DEF IdleCall
  <2> QED BY <1>t, <2>1, <2>2 DEF EnqueuesAgree
<1>3. UpkeepAgrees(S)'
  BY DEF Restart, IdleUpkeep, UpkeepAgrees
<1>4. CycleAgrees(S)'
  BY IdleCycleAgrees DEF Restart, IdleCycle
<1>5. FlushesAgree(S)'
  BY EmptySlot DEF Restart, IdleFlush, FlushesAgree
<1>6. LoginsAgree(S)'
  BY NoSnapshotCopy DEF Restart, IdleLogin, LoginsAgree
<1> QED BY <1>1, <1>2, <1>3, <1>4, <1>5, <1>6 DEF CopiesAgree

-----------------------------------------------------------------------------
LEMMA LegacyStep ==
  ASSUME TypeOK, LegacyRowsKnown, [Next]_vars
  PROVE  LegacyRowsKnown'
<1>1. PICK S \in SUBSET Rows : CopiesAgree(S)
  BY DEF LegacyRowsKnown
<1>2. CopiesAgree(S)'
  <2> USE <1>1 DEF CopiesAgree
  <2>q. ASSUME UNCHANGED <<enqueues, upkeep>> PROVE EnqueuesAgree(S)' /\ UpkeepAgrees(S)'
    BY <2>q DEF EnqueuesAgree, UpkeepAgrees
  <2>c. ASSUME UNCHANGED cycle PROVE CycleAgrees(S)'
    BY <2>c DEF CycleAgrees
  <2>f. ASSUME UNCHANGED flush PROVE FlushesAgree(S)'
    BY <2>f DEF FlushesAgree
  <2>l. ASSUME UNCHANGED login PROVE LoginsAgree(S)'
    BY <2>l DEF LoginsAgree
  <2>1. CASE QueueNext /\ UNCHANGED engineVars
    BY <2>1, <2>c, <2>f, <2>l, QueueStepAgrees DEF engineVars
  <2>2. CASE CycleStart \/ CycleProgress
    <3>1. UNCHANGED <<enqueues, upkeep, flush, login>>
      BY <2>2 DEF CycleStart, CycleProgress, RetryRead, RetryPut, CountPending, DequeueRead,
                  DequeueQuarantine, DequeueSelect, MarkSyncing, BatchAnswered, BatchFailed,
                  SettleRead, SettlePut, BatchesExhausted, Unwind, queueVars, KeepQueue, KeepCalls
    <3> QED BY <2>2, <3>1, <2>q, <2>f, <2>l, CycleStepAgrees
  <2>3. CASE FlushStep
    <3>1. UNCHANGED <<enqueues, upkeep, cycle, login>>
      BY <2>3 DEF FlushStep, FlushClaim, FlushProgress, FlushGet, FlushMark, FlushAnswered,
                  FlushFailed, FlushSettle, FlushReget, FlushPut, queueVars, KeepQueue, KeepCalls
    <3> QED BY <2>3, <3>1, <2>q, <2>c, <2>l, FlushStepAgrees
  <2>4. CASE LoginStep
    <3>1. UNCHANGED <<enqueues, upkeep, cycle, flush>>
      BY <2>4 DEF LoginStep, LoginStart, LoginRead, LoginPut, LoginDone, queueVars, KeepCalls
    <3> QED BY <2>4, <3>1, <2>q, <2>c, <2>f, LoginStepAgrees
  <2>5. CASE Restart
    BY <2>5, RestartAgrees
  <2>6. CASE UNCHANGED vars
    BY <2>6, <2>q, <2>c, <2>f, <2>l DEF vars, queueVars, engineVars, StoreAgrees
  <2> QED BY <2>1, <2>2, <2>3, <2>4, <2>5, <2>6 DEF Next
<1> QED BY <1>2 DEF LegacyRowsKnown

\* What a sender transmits is a stamped copy of a stamped row.
LEMMA SentIsStamped ==
  ASSUME TypeOK, LegacyRowsKnown
  PROVE  LegacyNeverSent
<1>1. PICK S \in SUBSET Rows : CopiesAgree(S)
  BY DEF LegacyRowsKnown
<1>2. SUFFICES ASSUME NEW r \in Rows, Transit(r) # {}
               PROVE  operations[r].stamped /\ SentCopy[r].stamped
  BY DEF LegacyNeverSent
<1>3. r \notin S
  BY <1>1, <1>2 DEF Transit, FlushSends, CopiesAgree, CycleAgrees, FlushesAgree
<1>4. operations[r].stamped
  BY <1>1, <1>3 DEF CopiesAgree, StoreAgrees, Copy
<1>5. CASE cycle.pc = "send" /\ r \in cycle.batch
  <2>1. SentCopy[r] = cycle.snap[r]
    BY <1>5 DEF SentCopy
  <2> QED BY <1>1, <1>3, <1>4, <2>1 DEF CopiesAgree, CycleAgrees, Copy
<1>6. CASE ~(cycle.pc = "send" /\ r \in cycle.batch)
  <2>1. \E x \in FlushRecords : FlushSends(x, r)
    BY <1>2, <1>6 DEF Transit
  <2>2. SentCopy[r] = flush[CHOOSE x \in FlushRecords : FlushSends(x, r)].sent
    BY <1>6, <2>1 DEF SentCopy
  <2>3. (CHOOSE x \in FlushRecords : FlushSends(x, r)) \in FlushRecords
    BY <2>1
  <2> QED BY <1>1, <1>4, <2>2, <2>3 DEF CopiesAgree, FlushesAgree
<1> QED BY <1>5, <1>6

\* No interleaving of stale writes, stolen orphans, retries and restarts makes
\* a sender transmit a row that has no generation.
THEOREM LegacyNeverSentHolds == Spec => []LegacyNeverSent
<1>1. Init => LegacyRowsKnown
  BY LegacyInit
<1>2. TypeOK /\ LegacyRowsKnown /\ [Next]_vars => LegacyRowsKnown'
  BY LegacyStep
<1>3. TypeOK /\ LegacyRowsKnown => LegacyNeverSent
  BY SentIsStamped
<1> QED BY <1>1, <1>2, <1>3, TypeCorrect, PTL DEF Spec
=============================================================================
