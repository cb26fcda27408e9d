------------------------ MODULE SendOwnershipProofs -------------------------
(***************************************************************************)
(* The claim registry, for every value of the constants: the invariant     *)
(* that ties it to the senders, and the refinement of SendOwnership.       *)
(***************************************************************************)
EXTENDS BackgroundSyncProofs

USE QueueAssumption, EngineAssumption

-----------------------------------------------------------------------------
(***************************************************************************)
(* What the proofs need of the types.                                      *)
(***************************************************************************)
LEMMA SenderTypes ==
  ASSUME TypeOK
  PROVE  /\ cycle \in Cycle /\ cycle.todo \subseteq Rows /\ cycle.batch \subseteq Rows
         /\ flush \in [FlushRecords -> Flush]
         /\ sendClaims \in [Rows -> Owners \cup {None}]
         /\ \A x \in FlushRecords : flush[x].pc # "idle" => flush[x].row \in Rows
         /\ Background \notin FlushRecords /\ None \notin FlushRecords /\ None # Background
BY DEF TypeOK, QueueTypeOK, Cycle

-----------------------------------------------------------------------------
(***************************************************************************)
(* The steps, as far as the registry and the senders are concerned.        *)
(***************************************************************************)
\* Nothing a sender owns or transmits changes.
Bystander ==
  /\ UNCHANGED <<sendClaims, flush>>
  /\ cycle.pc # "unwind" \/ cycle'.pc = "unwind"
  /\ \A r \in Rows : HeldByCycle(r)' = HeldByCycle(r)
  /\ \A r \in Rows : (cycle'.pc = "send" /\ r \in cycle'.batch)
                       <=> (cycle.pc = "send" /\ r \in cycle.batch)

\* dequeue() claims a batch.
CycleClaims(B) ==
  /\ cycle.pc \in {"dequeue", "select"}
  /\ B \subseteq Rows
  /\ \A r \in B : sendClaims[r] = None
  /\ sendClaims' = [r \in Rows |-> IF r \in B THEN Background ELSE sendClaims[r]]
  /\ IF B = {} THEN cycle'.pc = "unwind" ELSE cycle'.pc = "mark" /\ cycle'.batch = B
  /\ UNCHANGED flush

\* The batch is sent.
CycleSends ==
  /\ cycle.pc = "mark" /\ cycle'.pc = "send"
  /\ cycle'.batch = cycle.batch
  /\ UNCHANGED <<sendClaims, flush>>

\* Its answer arrives.
CycleAnswered ==
  /\ cycle.pc = "send" /\ cycle'.pc = "settle"
  /\ cycle'.todo = cycle.batch
  /\ UNCHANGED <<sendClaims, flush>>

\* One row of it is settled.
CycleSettles(r) ==
  /\ cycle.pc \in {"settle", "settlePut"}
  /\ r \in cycle.todo
  /\ DropClaim(r)
  /\ \/ cycle'.pc = "unwind"
     \/ cycle'.pc = "dequeue" /\ cycle.todo = {r}
     \/ cycle'.pc = "settle" /\ cycle'.todo = cycle.todo \ {r}
  /\ UNCHANGED flush

\* The flush of x goes on.
FlushMoves(x) ==
  /\ flush[x].pc # "idle" /\ flush'[x].pc # "idle"
  /\ flush'[x].row = flush[x].row
  /\ \A y \in FlushRecords : y # x => flush'[y] = flush[y]
  /\ UNCHANGED <<sendClaims, cycle>>

\* The flush of x ends.
FlushReleases(x) ==
  /\ flush[x].pc \notin {"idle", "send"}
  /\ ReleaseFlush(x)
  /\ UNCHANGED cycle

SenderStep ==
  \/ Bystander
  \/ \E B \in SUBSET Rows : CycleClaims(B)
  \/ CycleSends \/ CycleAnswered
  \/ \E r \in Rows : CycleSettles(r)
  \/ Unwind
  \/ \E x \in FlushRecords : FlushClaim(x) \/ FlushMoves(x) \/ FlushReleases(x)
  \/ Restart

\* A step that leaves the registry, the flushes and the cycle alone.
LEMMA IdleSenders ==
  ASSUME UNCHANGED <<sendClaims, flush, cycle>>
  PROVE  SenderStep
BY DEF SenderStep, Bystander, HeldByCycle

\* A step of the cycle outside the part that owns rows.
LEMMA FreeCycle ==
  ASSUME UNCHANGED <<sendClaims, flush>>,
         cycle.pc \in {"idle", "retryRead", "retry", "dequeue", "select"},
         cycle'.pc \in {"retryRead", "retry", "dequeue", "select", "unwind"}
  PROVE  SenderStep
BY DEF SenderStep, Bystander, HeldByCycle

LEMMA ClaimBatchStep ==
  ASSUME TypeOK, NEW candidates \in SUBSET Rows, NEW snap, ClaimBatch(candidates, snap),
         cycle.pc \in {"dequeue", "select"}, UNCHANGED flush
  PROVE  SenderStep
<1>1. PICK B \in SUBSET {r \in candidates : sendClaims[r] = None} :
        /\ sendClaims' = [r \in Rows |-> IF r \in B THEN Background ELSE sendClaims[r]]
        /\ cycle' = IF B = {} THEN [IdleCycle EXCEPT !.pc = "unwind"]
                    ELSE [cycle EXCEPT !.pc = "mark", !.batch = B, !.todo = B,
                                       !.snap = [r \in Rows |-> IF r \in B THEN snap[r] ELSE NoRow]]
  BY DEF ClaimBatch
<1>2. IF B = {} THEN cycle'.pc = "unwind" ELSE cycle'.pc = "mark" /\ cycle'.batch = B
  BY <1>1, SenderTypes, IdleTypes DEF Cycle
<1>3. CycleClaims(B)
  BY <1>1, <1>2 DEF CycleClaims
<1> QED BY <1>1, <1>3 DEF SenderStep

LEMMA SettlingStep ==
  ASSUME TypeOK, NEW r \in cycle.todo, cycle.pc \in {"settle", "settlePut"},
         AfterSettling(r), DropClaim(r), UNCHANGED flush
  PROVE  SenderStep
<1>1. \/ cycle'.pc = "unwind"
      \/ cycle'.pc = "dequeue" /\ cycle.todo = {r}
      \/ cycle'.pc = "settle" /\ cycle'.todo = cycle.todo \ {r}
  BY SenderTypes, IdleTypes DEF AfterSettling, Cycle
<1> QED BY <1>1, SenderTypes DEF CycleSettles, SenderStep

LEMMA CycleSenderStep ==
  ASSUME TypeOK, CycleStart \/ CycleProgress
  PROVE  SenderStep
<1>t. cycle \in Cycle /\ IdleCycle \in Cycle /\ cycle.todo \subseteq Rows
  BY SenderTypes, IdleTypes
<1>1. CASE CycleStart
  BY <1>1, <1>t, FreeCycle DEF CycleStart, queueVars, Cycle
<1>2. CASE RetryRead
  BY <1>2, <1>t, FreeCycle DEF RetryRead, queueVars, Cycle
<1>3. CASE RetryPut
  <2>1. cycle'.pc = "retry"
    BY <1>3, <1>t DEF RetryPut, Cycle
  <2> QED BY <1>3, <2>1, FreeCycle DEF RetryPut
<1>4. CASE CountPending
  BY <1>4, <1>t, FreeCycle DEF CountPending, queueVars, Cycle
<1>5. CASE DequeueRead
  <2>1. CASE ClaimBatch(WithStatus({"pending"}), operations)
    BY <1>5, <2>1, ClaimBatchStep DEF DequeueRead, WithStatus
  <2>2. CASE cycle'.pc = "select" /\ UNCHANGED sendClaims
    BY <1>5, <2>2, FreeCycle DEF DequeueRead
  <2>3. ASSUME NEW S, NEW snap, cycle' = [cycle EXCEPT !.pc = "select", !.todo = S, !.snap = snap]
        PROVE  cycle'.pc = "select"
    BY <1>t, <2>3 DEF Cycle
  <2> QED BY <1>5, <2>1, <2>2, <2>3 DEF DequeueRead
<1>6. CASE DequeueQuarantine
  <2>1. cycle'.pc = "select"
    BY <1>6, <1>t DEF DequeueQuarantine, Cycle
  <2> QED BY <1>6, <2>1, FreeCycle DEF DequeueQuarantine
<1>7. CASE DequeueSelect
  BY <1>7, ClaimBatchStep DEF DequeueSelect
<1>8. CASE MarkSyncing
  <2>1. /\ cycle'.pc \in {"mark", "send"} /\ cycle'.batch = cycle.batch
        /\ UNCHANGED <<sendClaims, flush>>
    BY <1>8, <1>t DEF MarkSyncing, Cycle
  <2>2. CASE cycle'.pc = "mark"
    BY <1>8, <2>1, <2>2 DEF MarkSyncing, SenderStep, Bystander, HeldByCycle
  <2>3. CASE cycle'.pc = "send"
    BY <1>8, <2>1, <2>3 DEF MarkSyncing, SenderStep, CycleSends
  <2> QED BY <2>1, <2>2, <2>3
<1>9. CASE BatchAnswered \/ BatchFailed
  <2>1. cycle'.pc = "settle" /\ cycle'.todo = cycle.batch
    BY <1>9, <1>t DEF BatchAnswered, BatchFailed, Cycle
  <2> QED BY <1>9, <2>1 DEF BatchAnswered, BatchFailed, queueVars, SenderStep, CycleAnswered
<1>10. CASE SettleRead
  <2>1. PICK r \in cycle.todo :
          IF operations[r].status \in Active
          THEN /\ cycle' = [cycle EXCEPT !.pc = "settlePut", !.snap = Snapshot({r})]
               /\ UNCHANGED sendClaims
          ELSE AfterSettling(r) /\ DropClaim(r)
    BY <1>10 DEF SettleRead
  <2>2. CASE operations[r].status \in Active
    <3>1. cycle'.pc = "settlePut" /\ cycle'.todo = cycle.todo
      BY <1>t, <2>1, <2>2 DEF Cycle
    <3> QED BY <1>10, <2>1, <2>2, <3>1 DEF SettleRead, SenderStep, Bystander, HeldByCycle
  <2>3. CASE operations[r].status \notin Active
    BY <1>10, <2>1, <2>3, SettlingStep DEF SettleRead
  <2> QED BY <2>2, <2>3
<1>11. CASE SettlePut
  BY <1>11, SettlingStep DEF SettlePut
<1>12. CASE BatchesExhausted
  BY <1>12, <1>t, FreeCycle DEF BatchesExhausted, queueVars, Cycle
<1>13. CASE Unwind
  BY <1>13 DEF SenderStep
<1> QED BY <1>1, <1>2, <1>3, <1>4, <1>5, <1>6, <1>7, <1>8, <1>9, <1>10, <1>11, <1>12, <1>13
        DEF CycleProgress

LEMMA FlushSenderStep ==
  ASSUME TypeOK, FlushStep
  PROVE  SenderStep
<1>t. flush \in [FlushRecords -> Flush]
  BY SenderTypes
<1>1. PICK x \in FlushRecords : FlushClaim(x) \/ FlushProgress(x)
  BY DEF FlushStep
<1>2. CASE FlushClaim(x)
  BY <1>2 DEF SenderStep
<1>3. ASSUME flush[x].pc \notin {"idle", "send"}, ReleaseFlush(x), UNCHANGED cycle
      PROVE  SenderStep
  BY <1>3 DEF FlushReleases, SenderStep
<1>4. ASSUME flush[x].pc # "idle", UNCHANGED <<sendClaims, cycle>>,
             flush'[x].pc # "idle", flush'[x].row = flush[x].row,
             \A y \in FlushRecords : y # x => flush'[y] = flush[y]
      PROVE  SenderStep
  BY <1>4 DEF FlushMoves, SenderStep
<1>5. CASE FlushGet(x)
  BY <1>5, <1>t, <1>3, <1>4 DEF FlushGet, Flush
<1>6. CASE FlushMark(x)
  BY <1>6, <1>t, <1>4 DEF FlushMark, Flush
<1>7. CASE FlushAnswered(x)
  BY <1>7, <1>t, <1>4 DEF FlushAnswered, Flush, queueVars
<1>8. CASE FlushFailed(x)
  BY <1>8, <1>t, <1>4 DEF FlushFailed, Flush
<1>9. CASE FlushSettle(x)
  BY <1>9, <1>t, <1>3, <1>4 DEF FlushSettle, Flush
<1>10. CASE FlushReget(x)
  BY <1>10, <1>t, <1>3, <1>4 DEF FlushReget, Flush
<1>11. CASE FlushPut(x)
  BY <1>11, <1>3 DEF FlushPut
<1> QED BY <1>1, <1>2, <1>5, <1>6, <1>7, <1>8, <1>9, <1>10, <1>11 DEF FlushProgress

\* Every step of the engine is one of these.
LEMMA NextSenderStep ==
  ASSUME TypeOK, [Next]_vars
  PROVE  SenderStep
<1>1. CASE QueueNext /\ UNCHANGED engineVars
  <2>1. UNCHANGED sendClaims
    BY <1>1 DEF QueueNext, Save, Delete, EnqueueRead, EnqueueQuarantine, EnqueueDrop,
                EnqueueReturn, RetryDeadLetter, Cleanup, Keep, UpkeepPut
  <2> QED BY <1>1, <2>1, IdleSenders DEF engineVars
<1>2. CASE CycleStart \/ CycleProgress
  BY <1>2, CycleSenderStep
<1>3. CASE FlushStep
  BY <1>3, FlushSenderStep
<1>4. CASE LoginStep
  <2>1. UNCHANGED <<sendClaims, flush, cycle>>
    BY <1>4 DEF LoginStep, LoginStart, LoginRead, LoginPut, LoginDone, queueVars
  <2> QED BY <2>1, IdleSenders
<1>5. CASE Restart
  BY <1>5 DEF SenderStep
<1>6. CASE UNCHANGED vars
  BY <1>6, IdleSenders DEF vars, queueVars, engineVars
<1> QED BY <1>1, <1>2, <1>3, <1>4, <1>5, <1>6 DEF Next

-----------------------------------------------------------------------------
(***************************************************************************)
(* The registry and the senders agree.                                     *)
(***************************************************************************)
LEMMA ClaimsStep ==
  ASSUME TypeOK, ClaimsAgree, SenderStep
  PROVE  ClaimsAgree'
<1>t. /\ sendClaims \in [Rows -> Owners \cup {None}] /\ flush \in [FlushRecords -> Flush]
      /\ cycle.todo \subseteq Rows
      /\ Background \notin Records /\ None \notin Records /\ None # Background
      /\ FlushRecords \subseteq Records
  BY SenderTypes
<1> USE DEF ClaimsAgree, HeldByFlush
<1>1. CASE Bystander
  BY <1>1 DEF Bystander, HeldByCycle
<1>2. ASSUME NEW B \in SUBSET Rows, CycleClaims(B) PROVE ClaimsAgree'
  BY <1>2, <1>t DEF CycleClaims, HeldByCycle
<1>3. CASE CycleSends
  BY <1>3 DEF CycleSends, HeldByCycle
<1>4. CASE CycleAnswered
  BY <1>4 DEF CycleAnswered, HeldByCycle
<1>5. ASSUME NEW q \in Rows, CycleSettles(q) PROVE ClaimsAgree'
  BY <1>5, <1>t DEF CycleSettles, DropClaim, HeldByCycle
<1>6. CASE Unwind
  BY <1>6, <1>t DEF Unwind, Freed, HeldByCycle, IdleCycle
<1>7. ASSUME NEW x \in FlushRecords, FlushClaim(x) PROVE ClaimsAgree'
  BY <1>7, <1>t DEF FlushClaim, HeldByCycle, Flush
<1>8. ASSUME NEW x \in FlushRecords, FlushMoves(x) PROVE ClaimsAgree'
  BY <1>8, <1>t DEF FlushMoves, HeldByCycle
<1>9. ASSUME NEW x \in FlushRecords, FlushReleases(x) PROVE ClaimsAgree'
  BY <1>9, <1>t, SenderTypes DEF FlushReleases, ReleaseFlush, IdleFlush, HeldByCycle
<1>10. CASE Restart
  BY <1>10, <1>t DEF Restart, HeldByCycle, IdleCycle, IdleFlush
<1> QED BY <1>1, <1>2, <1>3, <1>4, <1>5, <1>6, <1>7, <1>8, <1>9, <1>10 DEF SenderStep

\* In every reachable state each claim of the registry belongs to the sender
\* that is handling the row, and a sender holds the claim of what it handles.
THEOREM ClaimsAlwaysAgree == Spec => []ClaimsAgree
<1>1. Init => ClaimsAgree
  BY DEF Init, QueueInit, IdleCycle, IdleFlush, ClaimsAgree, HeldByCycle, HeldByFlush
<1>2. TypeOK /\ ClaimsAgree /\ [Next]_vars => ClaimsAgree'
  BY NextSenderStep, ClaimsStep
<1> QED BY <1>1, <1>2, TypeCorrect, PTL DEF Spec

-----------------------------------------------------------------------------
(***************************************************************************)
(* The registry implements SendOwnership.                                  *)
(***************************************************************************)
\* One step of the engine is a step of the abstract registry, or changes
\* neither the owners nor the requests in transit.
LEMMA RefinementStep ==
  ASSUME TypeOK, ClaimsAgree, SenderStep
  PROVE  [Ownership!OwnershipNext]_(Ownership!ownershipVars)
<1>t. /\ sendClaims \in [Rows -> Owners \cup {None}] /\ flush \in [FlushRecords -> Flush]
      /\ cycle.todo \subseteq Rows /\ cycle.batch \subseteq Rows
      /\ Background \notin FlushRecords /\ FlushRecords \subseteq Owners /\ Background \in Owners
  BY SenderTypes DEF Owners
<1>u. ASSUME UNCHANGED sendClaims, \A r \in Rows : Transit(r)' = Transit(r)
      PROVE  UNCHANGED Ownership!ownershipVars
  BY <1>u DEF Ownership!ownershipVars
<1>v. ASSUME NEW o \in Owners, NEW R \in SUBSET Rows,
             Ownership!Acquire(o, R) \/ Ownership!Send(o, R) \/ Ownership!Release(o, R)
      PROVE  Ownership!OwnershipNext
  BY <1>v DEF Ownership!OwnershipNext
<1>1. CASE Bystander
  <2>1. \A r \in Rows : Transit(r)' = Transit(r)
    BY <1>1 DEF Bystander, Transit, FlushSends
  <2> QED BY <1>1, <1>u, <2>1 DEF Bystander
<1>2. ASSUME NEW B \in SUBSET Rows, CycleClaims(B) PROVE Ownership!OwnershipNext
  <2>1. \A r \in Rows : Transit(r)' = Transit(r)
    BY <1>2 DEF CycleClaims, Transit, FlushSends
  <2>2. Ownership!Acquire(Background, B)
    BY <1>2, <2>1 DEF CycleClaims, Ownership!Acquire
  <2> QED BY <1>t, <1>v, <2>2
<1>3. CASE CycleSends
  <2>1. \A r \in Rows : Transit(r)' = IF r \in cycle.batch THEN Transit(r) \cup {Background}
                                      ELSE Transit(r)
    BY <1>3 DEF CycleSends, Transit, FlushSends
  <2>2. \A r \in cycle.batch : sendClaims[r] = Background
    BY <1>3, <1>t DEF CycleSends, ClaimsAgree, HeldByCycle
  <2>3. Ownership!Send(Background, cycle.batch)
    BY <1>3, <2>1, <2>2 DEF CycleSends, Ownership!Send
  <2> QED BY <1>t, <1>v, <2>3
<1>4. CASE CycleAnswered
  <2>1. \A r \in Rows : Transit(r)' = Transit(r) \ {Background}
    BY <1>4, <1>t DEF CycleAnswered, Transit, FlushSends
  <2>2. Ownership!Answer(Background)
    BY <1>4, <2>1 DEF CycleAnswered, Ownership!Answer
  <2> QED BY <1>t, <2>2 DEF Ownership!OwnershipNext
<1>5. ASSUME NEW q \in Rows, CycleSettles(q) PROVE Ownership!OwnershipNext
  <2>1. \A r \in Rows : Transit(r)' = Transit(r)
    BY <1>5 DEF CycleSettles, Transit, FlushSends
  <2>2. sendClaims[q] = Background /\ Background \notin Transit(q)
    BY <1>5, <1>t DEF CycleSettles, ClaimsAgree, HeldByCycle, Transit
  <2>3. sendClaims' = [r \in Rows |-> IF r \in {q} THEN None ELSE sendClaims[r]]
    BY <1>5, <1>t, <2>2 DEF CycleSettles, DropClaim
  <2>4. Ownership!Release(Background, {q})
    BY <2>1, <2>2, <2>3 DEF Ownership!Release
  <2> QED BY <1>t, <1>v, <2>4
<1>6. CASE Unwind
  <2> DEFINE R == {r \in Rows : sendClaims[r] = Background}
  <2>1. \A r \in Rows : Transit(r)' = Transit(r) /\ Background \notin Transit(r)
    BY <1>6, <1>t DEF Unwind, Transit, FlushSends, IdleCycle
  <2>2. Ownership!Release(Background, R)
    BY <1>6, <2>1 DEF Unwind, Freed, Ownership!Release
  <2> QED BY <1>t, <1>v, <2>2
<1>7. ASSUME NEW x \in FlushRecords, FlushClaim(x) PROVE Ownership!OwnershipNext
  <2>1. PICK q \in Rows : /\ sendClaims[q] = None
                          /\ sendClaims' = [sendClaims EXCEPT ![q] = x]
                          /\ flush' = [flush EXCEPT ![x].pc = "get", ![x].row = q]
    BY <1>7 DEF FlushClaim
  <2>2. flush[x].pc = "idle" /\ flush'[x].pc = "get"
        /\ \A y \in FlushRecords : y # x => flush'[y] = flush[y]
    BY <1>7, <1>t, <2>1 DEF FlushClaim, Flush
  <2>3. \A r \in Rows : Transit(r)' = Transit(r)
    BY <1>7, <2>2 DEF FlushClaim, Transit, FlushSends
  <2>4. sendClaims' = [r \in Rows |-> IF r \in {q} THEN x ELSE sendClaims[r]]
    BY <1>t, <2>1
  <2>5. Ownership!Acquire(x, {q})
    BY <2>1, <2>3, <2>4 DEF Ownership!Acquire
  <2> QED BY <1>t, <1>v, <2>5
<1>8. ASSUME NEW x \in FlushRecords, FlushMoves(x)
      PROVE  [Ownership!OwnershipNext]_(Ownership!ownershipVars)
  <2> DEFINE q == flush[x].row
  <2>1. q \in Rows /\ sendClaims[q] = x
    BY <1>8, SenderTypes DEF FlushMoves, ClaimsAgree, HeldByFlush
  <2>2. CASE flush[x].pc # "send" /\ flush'[x].pc = "send"
    <3>1. \A r \in Rows : Transit(r)' = IF r \in {q} THEN Transit(r) \cup {x} ELSE Transit(r)
      BY <1>8, <2>2 DEF FlushMoves, Transit, FlushSends
    <3>2. Ownership!Send(x, {q})
      BY <1>8, <2>1, <3>1 DEF FlushMoves, Ownership!Send
    <3> QED BY <1>t, <1>v, <2>1, <3>2
  <2>3. CASE flush[x].pc = "send" /\ flush'[x].pc # "send"
    <3>1. \A r \in Rows : Transit(r)' = Transit(r) \ {x}
      BY <1>8, <1>t, <2>3 DEF FlushMoves, Transit, FlushSends
    <3>2. Ownership!Answer(x)
      BY <1>8, <3>1 DEF FlushMoves, Ownership!Answer
    <3> QED BY <1>t, <3>2 DEF Ownership!OwnershipNext
  <2>4. CASE flush[x].pc = "send" <=> flush'[x].pc = "send"
    <3>1. \A r \in Rows : Transit(r)' = Transit(r)
      BY <1>8, <2>4 DEF FlushMoves, Transit, FlushSends
    <3> QED BY <1>8, <1>u, <3>1 DEF FlushMoves
  <2> QED BY <2>2, <2>3, <2>4
<1>9. ASSUME NEW x \in FlushRecords, FlushReleases(x) PROVE Ownership!OwnershipNext
  <2> DEFINE q == flush[x].row
  <2>1. q \in Rows /\ sendClaims[q] = x
    BY <1>9, SenderTypes DEF FlushReleases, ClaimsAgree, HeldByFlush
  <2>2. flush' = [flush EXCEPT ![x] = IdleFlush] /\ IdleFlush.pc = "idle"
    BY <1>9 DEF FlushReleases, ReleaseFlush, IdleFlush
  <2>3. x \notin Transit(q)
    BY <1>9, <1>t DEF FlushReleases, Transit, FlushSends
  <2>4. \A r \in Rows : Transit(r)' = Transit(r)
    BY <1>9, <1>t, <2>2 DEF FlushReleases, Transit, FlushSends
  <2>5. sendClaims' = [r \in Rows |-> IF r \in {q} THEN None ELSE sendClaims[r]]
    BY <1>9, <1>t, <2>1 DEF FlushReleases, ReleaseFlush
  <2>6. Ownership!Release(x, {q})
    BY <2>1, <2>3, <2>4, <2>5 DEF Ownership!Release
  <2> QED BY <1>t, <1>v, <2>1, <2>6
<1>10. CASE Restart
  <2>1. \A r \in Rows : Transit(r)' = {}
    BY <1>10 DEF Restart, Transit, FlushSends, IdleCycle, IdleFlush
  <2>2. Ownership!Close
    BY <1>10, <2>1 DEF Restart, Ownership!Close
  <2> QED BY <2>2 DEF Ownership!OwnershipNext
<1> QED BY <1>1, <1>2, <1>3, <1>4, <1>5, <1>6, <1>7, <1>8, <1>9, <1>10 DEF SenderStep

\* However the cycle, the inline flushes, the enqueues, the logins and the
\* restarts interleave, at most one sender owns an operation and only its
\* owner has a request for it in transit.
THEOREM SingleSenderHolds == Spec => SingleSender
<1>1. Init => Ownership!OwnershipInit
  BY DEF Init, QueueInit, IdleCycle, IdleFlush, Transit, FlushSends, Ownership!OwnershipInit
<1>2. TypeOK /\ ClaimsAgree /\ [Next]_vars => [Ownership!OwnershipNext]_(Ownership!ownershipVars)
  BY NextSenderStep, RefinementStep
<1> QED BY <1>1, <1>2, TypeCorrect, ClaimsAlwaysAgree, PTL
        DEF Spec, SingleSender, Ownership!OwnershipSpec

\* The consequence a reader of the registry relies on.
THEOREM OnlyOwnerSendsHolds == Spec => []Ownership!OnlyOwnerSends
<1>1. TypeOK /\ ClaimsAgree => Ownership!OnlyOwnerSends
  <2> SUFFICES ASSUME TypeOK, ClaimsAgree, NEW r \in Rows
               PROVE  Transit(r) \subseteq {sendClaims[r]}
    BY DEF Ownership!OnlyOwnerSends
  <2> QED BY DEF Transit, FlushSends, ClaimsAgree, HeldByCycle, HeldByFlush
<1> QED BY <1>1, TypeCorrect, ClaimsAlwaysAgree, PTL
=============================================================================
