------------------------- MODULE CloudGatewayProofs -------------------------
(***************************************************************************)
(* Proofs about the cloud gateway for every value of its constants: any    *)
(* number of operations, concurrent calls, versions and resets.            *)
(***************************************************************************)
EXTENDS CloudGateway, TLAPS

USE GatewayAssumption

-----------------------------------------------------------------------------
(***************************************************************************)
(* Type correctness.                                                       *)
(***************************************************************************)
HandlerOK == /\ handler \in [Handlers -> Handler]
             /\ \A h \in Handlers : handler[h].pc # "idle" => handler[h].op \in Ops

\* A call that moves on, or returns, keeps its shape.
LEMMA HandlerMoves ==
  ASSUME HandlerOK, NEW h \in Handlers
  PROVE  /\ Return(h) => HandlerOK'
         /\ \A pc \in {"stale", "seen", "write", "reread", "create", "tombstone", "force", "record"} :
              ~At(h, "idle") /\ Goto(h, pc) => HandlerOK'
<1>1. ASSUME Return(h) PROVE HandlerOK'
  BY <1>1 DEF HandlerOK, Return, IdleHandler, Handler, Bases
<1>2. ASSUME NEW pc \in {"stale", "seen", "write", "reread", "create", "tombstone", "force", "record"},
             ~At(h, "idle"), Goto(h, pc)
      PROVE  HandlerOK'
  BY <1>2 DEF HandlerOK, At, Goto, Handler
<1> QED BY <1>1, <1>2

\* A write keeps the shape of the row.
LEMMA WriteType ==
  ASSUME TypeOK, NEW h \in Handlers, ~At(h, "idle"), NEW version \in Versions,
         NEW content \in SUBSET Ops, NEW deleted \in BOOLEAN, Write(h, version, content, deleted)
  PROVE  row' \in Row /\ effected' \subseteq Ops
BY DEF TypeOK, At, Write, Row

LEMMA HandlerStepType ==
  ASSUME TypeOK, NEW h \in Handlers, HandlerStep(h)
  PROVE  TypeOK'
<1>t. /\ HandlerOK /\ row \in Row /\ op \in [Ops -> Operation]
      /\ keys \subseteq Ops /\ effected \subseteq Ops /\ answered \subseteq Ops
      /\ generation \in 1..MaxGeneration /\ purge \in BOOLEAN
      /\ outdated \subseteq Ops /\ overtaken \subseteq Handlers
  BY DEF TypeOK, HandlerOK
<1>o. ASSUME ~At(h, "idle")
      PROVE  /\ handler[h].op \in Ops
             /\ op[handler[h].op].content \subseteq Ops /\ op[handler[h].op].base + 1 \in Versions
             /\ handler[h].data \subseteq Ops /\ handler[h].seen + 1 \in Versions
  <2>1. handler[h].op \in Ops /\ op[handler[h].op] \in Operation /\ handler[h] \in Handler
    BY <1>t, <1>o DEF HandlerOK, At
  <2> QED BY <2>1 DEF Operation, Handler, Bases, Versions
<1>q. ASSUME HandlerOK', row' \in Row, keys' \subseteq Ops, effected' \subseteq Ops,
             answered' \subseteq Ops, UNCHANGED <<generation, op, purge>>,
             outdated' \subseteq Ops, overtaken' \subseteq Handlers
      PROVE  TypeOK'
  BY <1>t, <1>q DEF TypeOK, HandlerOK
<1>a. ASSUME ~At(h, "idle"), AnswerOk(h) PROVE answered' \subseteq Ops
  BY <1>t, <1>o, <1>a DEF AnswerOk
<1>1. CASE CheckStale(h)
  <2>1. HandlerOK'
    BY <1>1, <1>t, HandlerMoves DEF CheckStale, At
  <2> QED BY <1>1, <1>t, <1>q, <2>1 DEF CheckStale
<1>2. CASE CheckIdempotency(h)
  <2>1. ~At(h, "idle")
    BY <1>2 DEF CheckIdempotency, At
  <2>2. HandlerOK' /\ answered' \subseteq Ops
    BY <1>2, <1>t, <1>a, <2>1, HandlerMoves DEF CheckIdempotency
  <2> QED BY <1>2, <1>t, <1>q, <2>2 DEF CheckIdempotency
<1>3. CASE Patch(h)
  <2>1. ~At(h, "idle")
    BY <1>3 DEF Patch, At
  <2>2. HandlerOK'
    BY <1>3, <1>t, <2>1, HandlerMoves DEF Patch
  <2>3. row' \in Row /\ effected' \subseteq Ops
    BY <1>3, <1>t, <1>o, <2>1, WriteType DEF Patch
  <2> QED BY <1>3, <1>t, <1>q, <2>2, <2>3 DEF Patch
<1>4. CASE Reread(h)
  <2>1. HandlerOK'
    BY <1>4, <1>t, HandlerMoves DEF Reread, At
  <2> QED BY <1>4, <1>t, <1>q, <2>1 DEF Reread
<1>5. CASE Create(h)
  <2>1. ~At(h, "idle")
    BY <1>5 DEF Create, At
  <2>2. HandlerOK'
    BY <1>5, <1>t, <2>1, HandlerMoves DEF Create
  <2>0. 1 \in Versions
    BY DEF Versions
  <2>3. row' \in Row /\ effected' \subseteq Ops
    BY <1>5, <1>t, <1>o, <2>1, WriteType, <2>0 DEF Create
  <2> QED BY <1>5, <1>t, <1>q, <2>2, <2>3 DEF Create, StartOver
<1>6. CASE DeleteRead(h)
  <2>1. HandlerOK'
    <3> DEFINE call == [handler[h] EXCEPT !.pc = "tombstone", !.seen = row.version, !.data = row.content]
    <3>1. row.version \in Bases /\ row.content \subseteq Ops
      BY <1>6, <1>t DEF DeleteRead, Row, Versions, Bases
    <3>2. handler' = [handler EXCEPT ![h] = call] /\ handler[h].op \in Ops
      BY <1>6, <1>t DEF DeleteRead, HandlerOK, Handler, At
    <3>3. call \in Handler /\ call.op = handler[h].op
      <4>1. handler[h] \in Handler
        BY <1>t DEF HandlerOK
      <4> QED BY <3>1, <4>1 DEF Handler
    <3> HIDE DEF call
    <3> QED BY <1>t, <3>2, <3>3 DEF HandlerOK
  <2> QED BY <1>6, <1>t, <1>q, <2>1 DEF DeleteRead
<1>7. CASE DeletePatch(h)
  <2>1. ~At(h, "idle")
    BY <1>7 DEF DeletePatch, At
  <2>2. HandlerOK'
    BY <1>7, <1>t, <2>1, HandlerMoves DEF DeletePatch
  <2>3. CASE UNCHANGED <<row, effected>>
    BY <1>7, <1>t, <1>q, <2>2, <2>3 DEF DeletePatch
  <2>4. CASE WriteTombstone(h)
    BY <1>7, <1>t, <1>o, <1>q, <2>1, <2>2, <2>4, WriteType DEF DeletePatch, WriteTombstone
  <2> QED BY <1>7, <2>3, <2>4 DEF DeletePatch
<1>8. CASE DeleteForce(h)
  <2>1. ~At(h, "idle")
    BY <1>8 DEF DeleteForce, At
  <2>2. HandlerOK'
    BY <1>8, <1>t, <2>1, HandlerMoves DEF DeleteForce
  <2>3. row' \in Row /\ effected' \subseteq Ops
    BY <1>8, <1>o, <2>1, WriteType DEF DeleteForce, WriteTombstone
  <2> QED BY <1>8, <1>t, <1>q, <2>2, <2>3 DEF DeleteForce, StartOver
<1>9. CASE Record(h)
  <2>1. HandlerOK' /\ answered' \subseteq Ops /\ keys' \subseteq Ops
    BY <1>9, <1>t, <1>o, <1>a, HandlerMoves DEF Record, At
  <2> QED BY <1>9, <1>t, <1>q, <2>1 DEF Record
<1>10. CASE Abort(h)
  <2>1. HandlerOK'
    BY <1>10, <1>t, HandlerMoves DEF Abort
  <2> QED BY <1>10, <1>t, <1>q, <2>1 DEF Abort
<1> QED BY <1>1, <1>2, <1>3, <1>4, <1>5, <1>6, <1>7, <1>8, <1>9, <1>10 DEF HandlerStep

\* Every variable keeps the shape the code gives it.
THEOREM TypeCorrect == Spec => []TypeOK
<1>z. 0 \in Versions /\ 1 \in Versions /\ 0 \in Bases /\ 0 \in 0..MaxGeneration /\ 1 \in 1..MaxGeneration
  BY DEF Versions, Bases
<1>a. Absent \in Row
  BY <1>z DEF Absent, Row
<1>1. Init => TypeOK
  <2>1. First \in Row
    BY <1>a, <1>z DEF First, Row
  <2>2. NoOp \in Operation /\ IdleHandler \in Handler
    BY <1>z DEF NoOp, Operation, IdleHandler, Handler
  <2>3. handler = [h \in Handlers |-> IdleHandler] => HandlerOK
    BY <2>2 DEF HandlerOK, IdleHandler
  <2> SUFFICES ASSUME Init PROVE TypeOK
    OBVIOUS
  <2>4. row \in Row /\ op \in [Ops -> Operation] /\ HandlerOK
    BY <1>a, <2>1, <2>2, <2>3 DEF Init
  <2>5. /\ keys \subseteq Ops /\ effected \subseteq Ops /\ answered \subseteq Ops
        /\ generation \in 1..MaxGeneration /\ purge \in BOOLEAN
        /\ outdated \subseteq Ops /\ overtaken \subseteq Handlers
    BY <1>z DEF Init
  <2> QED BY <2>4, <2>5 DEF TypeOK, HandlerOK
<1>2. TypeOK /\ [Next]_vars => TypeOK'
  <2> SUFFICES ASSUME TypeOK, [Next]_vars PROVE TypeOK'
    OBVIOUS
  <2>1. ASSUME NEW o \in Ops, NEW kind \in Kinds, Submit(o, kind) PROVE TypeOK'
    <3>1. PICK base \in (IF kind = "create" THEN {0, 1} ELSE {row.version}) :
            op' = [op EXCEPT ![o] =
              [kind |-> kind, base |-> base, gen |-> generation,
               content |-> IF kind = "update" THEN row.content \cup {o} ELSE {o}]]
      BY <2>1 DEF Submit
    <3>2. base \in Bases
      BY <2>1 DEF Submit, TypeOK, Row, Versions, Bases
    <3>3. op' \in [Ops -> Operation]
      BY <3>1, <3>2 DEF TypeOK, Row, Operation
    <3> QED BY <2>1, <3>3 DEF Submit, TypeOK
  <2>2. ASSUME NEW h \in Handlers, NEW o \in Ops, Receive(h, o) PROVE TypeOK'
    <3> DEFINE call == [IdleHandler EXCEPT !.pc = "stale", !.op = o]
    <3>1. call \in Handler /\ call.op = o
      BY <1>z DEF IdleHandler, Handler
    <3>2. handler' = [handler EXCEPT ![h] = call]
      BY <2>2 DEF Receive
    <3> HIDE DEF call
    <3> QED BY <2>2, <3>1, <3>2 DEF Receive, TypeOK
  <2>3. ASSUME NEW h \in Handlers, HandlerStep(h) PROVE TypeOK'
    BY <2>3, HandlerStepType
  <2>4. CASE PurgeCollect
    BY <2>4 DEF PurgeCollect, TypeOK
  <2>5. CASE PurgeDelete
    BY <1>a, <2>5 DEF PurgeDelete, StartOver, TypeOK
  <2>6. CASE Reset
    BY <2>6 DEF Reset, GenerationRead, TypeOK
  <2>7. CASE UNCHANGED vars
    BY <2>7 DEF vars, TypeOK
  <2> QED BY <2>1, <2>2, <2>3, <2>4, <2>5, <2>6, <2>7 DEF Next
<1> QED BY <1>1, <1>2, PTL DEF Spec

-----------------------------------------------------------------------------
(***************************************************************************)
(* Acknowledged operations.                                                *)
(***************************************************************************)
\* A call that is about to record its operation has written it.
WrittenBeforeRecorded == \A h \in Handlers : At(h, "record") => handler[h].op \in effected

\* An ok answer, first or replayed, is never false: the operation has reached
\* the row before it is recorded and before the client hears of it.
THEOREM AcknowledgedHolds == Spec => []AcknowledgedIsEffected
<1> DEFINE Inv == AcknowledgedIsEffected /\ WrittenBeforeRecorded
<1>1. Init => Inv
  BY DEF Init, AcknowledgedIsEffected, WrittenBeforeRecorded, At, IdleHandler
<1>2. TypeOK /\ Inv /\ [Next]_vars => Inv'
  <2> SUFFICES ASSUME TypeOK, Inv, [Next]_vars PROVE Inv'
    OBVIOUS
  <2>t. handler \in [Handlers -> Handler]
    BY DEF TypeOK
  <2> USE DEF AcknowledgedIsEffected, WrittenBeforeRecorded, At
  \* A call that does not write, and does not acknowledge.
  <2>a. ASSUME UNCHANGED <<keys, answered, effected>>, NEW h \in Handlers,
               handler' = [handler EXCEPT ![h] = handler'[h]], handler'[h].pc # "record"
        PROVE  Inv'
    BY <2>t, <2>a
  \* A call that writes.
  <2>b. ASSUME UNCHANGED <<keys, answered>>, NEW h \in Handlers, effected' = effected \cup {handler[h].op},
               handler' = [handler EXCEPT ![h] = handler'[h]], handler'[h].op = handler[h].op
        PROVE  Inv'
    BY <2>t, <2>b
  <2>1. ASSUME NEW o \in Ops, NEW kind \in Kinds, Submit(o, kind) PROVE Inv'
    BY <2>1 DEF Submit
  <2>2. ASSUME NEW h \in Handlers, NEW o \in Ops, Receive(h, o) PROVE Inv'
    BY <2>2, <2>t DEF Receive, IdleHandler
  <2>3. ASSUME NEW h \in Handlers, HandlerStep(h) PROVE Inv'
    <3>r. Return(h) => /\ handler' = [handler EXCEPT ![h] = handler'[h]]
                       /\ handler'[h].pc # "record"
      BY <2>t DEF Return, IdleHandler
    <3>g. \A pc : Goto(h, pc) => /\ handler' = [handler EXCEPT ![h] = handler'[h]]
                                 /\ handler'[h].pc = pc /\ handler'[h].op = handler[h].op
      BY <2>t DEF Goto, Handler
    <3>1. CASE CheckStale(h)
      BY <2>a, <3>1, <3>r, <3>g DEF CheckStale
    <3>2. CASE CheckIdempotency(h)
      <4>1. handler'[h].pc # "record" /\ handler' = [handler EXCEPT ![h] = handler'[h]]
        BY <3>2, <3>r, <3>g DEF CheckIdempotency
      <4> QED BY <3>2, <2>t, <4>1 DEF CheckIdempotency, AnswerOk
    <3>3. CASE Patch(h)
      BY <2>a, <2>b, <3>3, <3>g DEF Patch, Write
    <3>4. CASE Reread(h)
      BY <2>a, <3>4, <3>r, <3>g DEF Reread
    <3>5. CASE Create(h)
      BY <2>b, <3>5, <3>g DEF Create, Write
    <3>6. CASE DeleteRead(h)
      BY <2>t, <3>6 DEF DeleteRead, Handler
    <3>7. CASE DeletePatch(h)
      BY <2>a, <2>b, <3>7, <3>r, <3>g DEF DeletePatch, WriteTombstone, Write
    <3>8. CASE DeleteForce(h)
      BY <2>b, <3>8, <3>g DEF DeleteForce, WriteTombstone, Write
    <3>9. CASE Record(h)
      BY <3>9, <2>t, <3>r DEF Record, AnswerOk
    <3>10. CASE Abort(h)
      BY <2>a, <3>10, <3>r DEF Abort
    <3> QED BY <2>3, <3>1, <3>2, <3>3, <3>4, <3>5, <3>6, <3>7, <3>8, <3>9, <3>10 DEF HandlerStep
  <2>4. CASE PurgeCollect \/ PurgeDelete \/ Reset \/ UNCHANGED vars
    BY <2>4 DEF PurgeCollect, PurgeDelete, Reset, vars
  <2> QED BY <2>1, <2>2, <2>3, <2>4 DEF Next
<1> QED BY <1>1, <1>2, TypeCorrect, PTL DEF Spec

-----------------------------------------------------------------------------
(***************************************************************************)
(* Updates of a row nobody deletes.                                        *)
(***************************************************************************)
\* An operation that has been made from the row its device has read.  While the
\* row has that version the operation has had no effect and carries everything
\* the row contains; every effect moves the version on.
MadeFrom(o) ==
  /\ op[o].kind = "update"
  /\ op[o].base > 0 /\ op[o].base <= row.version
  /\ op[o].base = row.version => o \notin effected /\ op[o].content = row.content \cup {o}

OnlyUpdates ==
  /\ ~purge /\ ~row.deleted
  /\ row.content = effected
  /\ \A o \in Ops : op[o] = NoOp \/ MadeFrom(o)
  /\ \A o \in effected : op[o] # NoOp
  /\ \A h \in Handlers : ~At(h, "idle") => /\ op[handler[h].op] # NoOp
                                          /\ handler[h].pc \in {"stale", "seen", "write", "reread", "record"}

\* A step of a call that leaves the row alone.
LEMMA QuietStep ==
  ASSUME TypeOK, OnlyUpdates, UNCHANGED <<row, op, purge, effected>>, NEW h \in Handlers,
         \A k \in Handlers : k # h => handler'[k] = handler[k],
         \/ handler'[h].pc = "idle"
         \/ /\ op[handler'[h].op] # NoOp
            /\ handler'[h].pc \in {"stale", "seen", "write", "reread", "record"}
  PROVE  OnlyUpdates' /\ UNCHANGED Linear!rowVars
BY DEF OnlyUpdates, MadeFrom, At, Linear!rowVars

LEMMA LinearStep ==
  ASSUME Kinds \subseteq {"update"}, TypeOK, OnlyUpdates, [Next]_vars
  PROVE  OnlyUpdates' /\ [Linear!RowNext]_(Linear!rowVars)
<1>t. /\ handler \in [Handlers -> Handler] /\ op \in [Ops -> Operation] /\ row \in Row
      /\ \A h \in Handlers : ~At(h, "idle") => handler[h].op \in Ops
  BY DEF TypeOK, At
<1>1. ASSUME NEW o \in Ops, NEW kind \in Kinds, Submit(o, kind)
      PROVE  OnlyUpdates' /\ UNCHANGED Linear!rowVars
  <2>1. op' = [op EXCEPT ![o] = [kind |-> "update", base |-> row.version, gen |-> generation,
                                 content |-> row.content \cup {o}]]
    BY <1>1 DEF Submit
  <2>2. o \notin effected /\ row.version > 0 /\ row.version \in Nat
    BY <1>1, <1>t DEF Submit, OnlyUpdates, Exists, Row, Versions
  <2>3. op'[o].kind = "update" /\ op'[o] # NoOp /\ MadeFrom(o)'
    BY <1>1, <1>t, <2>1, <2>2 DEF Submit, MadeFrom, NoOp
  <2>4. \A q \in Ops : q # o => op'[q] = op[q] /\ (MadeFrom(q) => MadeFrom(q)')
    BY <1>1, <1>t, <2>1 DEF Submit, MadeFrom
  <2> QED BY <1>1, <1>t, <2>3, <2>4 DEF Submit, OnlyUpdates, At, Linear!rowVars
<1>2. ASSUME NEW h \in Handlers, NEW o \in Ops, Receive(h, o)
      PROVE  OnlyUpdates' /\ UNCHANGED Linear!rowVars
  <2>1. handler'[h].pc = "stale" /\ handler'[h].op = o /\ \A k \in Handlers : k # h => handler'[k] = handler[k]
    BY <1>2, <1>t DEF Receive, IdleHandler
  <2> QED BY <1>2, <2>1, QuietStep DEF Receive
<1>3. ASSUME NEW h \in Handlers, HandlerStep(h)
      PROVE  OnlyUpdates' /\ [Linear!RowNext]_(Linear!rowVars)
  <2> DEFINE o == handler[h].op
  <2>1. /\ o \in Ops /\ MadeFrom(o) /\ op[o] # NoOp /\ ~At(h, "idle")
        /\ handler[h].pc \in {"stale", "seen", "write", "reread", "record"}
    BY <1>3, <1>t DEF HandlerStep, CheckStale, CheckIdempotency, Patch, Reread, Create, DeleteRead,
                      DeletePatch, DeleteForce, Record, Abort, At, OnlyUpdates
  <2>r. Return(h) => handler'[h].pc = "idle" /\ \A k \in Handlers : k # h => handler'[k] = handler[k]
    BY <1>t DEF Return, IdleHandler
  <2>g. \A pc : Goto(h, pc) => /\ handler'[h].pc = pc /\ handler'[h].op = o
                               /\ \A k \in Handlers : k # h => handler'[k] = handler[k]
    BY <1>t DEF Goto, Handler
  <2>2. CASE CheckStale(h)
    BY <2>1, <2>2, <2>r, <2>g, QuietStep DEF CheckStale
  <2>3. CASE CheckIdempotency(h)
    BY <2>1, <2>3, <2>r, <2>g, QuietStep DEF CheckIdempotency
  <2>4. CASE Reread(h)
    <3>1. Exists
      BY <1>t, <2>1 DEF MadeFrom, Exists, Operation, Bases, Row, Versions
    <3> QED BY <2>4, <2>r, <3>1, QuietStep DEF Reread
  <2>5. CASE Record(h)
    BY <2>5, <2>r, QuietStep DEF Record
  <2>6. CASE Abort(h)
    BY <2>6, <2>r, QuietStep DEF Abort
  <2>7. CASE Patch(h)
    <3>1. CASE row.version # op[o].base
      BY <2>1, <2>7, <2>g, <3>1, QuietStep DEF Patch
    <3>2. CASE row.version = op[o].base
      <4>1. /\ row' = [version |-> op[o].base + 1, content |-> op[o].content, deleted |-> FALSE]
            /\ effected' = effected \cup {o}
            /\ UNCHANGED <<op, purge>> /\ Goto(h, "record")
        BY <2>7, <3>2 DEF Patch, Write
      <4>2. o \notin effected /\ op[o].content = row.content \cup {o}
        BY <2>1, <3>2 DEF MadeFrom
      <4>3. Linear!TakeEffect(o)
        BY <4>1, <4>2 DEF Linear!TakeEffect
      <4>4. row.version \in Nat /\ row'.version = row.version + 1
        BY <1>t, <3>2, <4>1 DEF Row, Versions
      <4>5. ASSUME NEW q \in Ops, MadeFrom(q) PROVE MadeFrom(q)'
        <5>1. op[q].base \in Nat
          BY <1>t DEF Operation, Bases
        <5> QED BY <4>1, <4>4, <4>5, <5>1 DEF MadeFrom
      <4>6. OnlyUpdates'
        BY <2>1, <2>g, <4>1, <4>2, <4>5 DEF OnlyUpdates, At
      <4> QED BY <2>1, <4>3, <4>6 DEF Linear!RowNext
    <3> QED BY <3>1, <3>2
  <2>8. ~Create(h) /\ ~DeleteRead(h) /\ ~DeletePatch(h) /\ ~DeleteForce(h)
    BY <2>1 DEF Create, DeleteRead, DeletePatch, DeleteForce, At, MadeFrom
  <2> QED BY <1>3, <2>2, <2>3, <2>4, <2>5, <2>6, <2>7, <2>8 DEF HandlerStep
<1>4. CASE PurgeCollect \/ PurgeDelete
  BY <1>4 DEF PurgeCollect, PurgeDelete, OnlyUpdates
<1>5. CASE Reset \/ UNCHANGED vars
  BY <1>5 DEF Reset, vars, OnlyUpdates, MadeFrom, At, Linear!rowVars
<1> QED BY <1>1, <1>2, <1>3, <1>4, <1>5 DEF Next

\* When the devices only update a row, each update takes effect at most once
\* and on top of all that took effect before it, however often it is resent and
\* however many calls run at once.
THEOREM UpdatesAreLinearHolds ==
  ASSUME Kinds \subseteq {"update"}
  PROVE  Spec => UpdatesAreLinear
<1>1. Init => OnlyUpdates /\ Linear!RowInit
  BY DEF Init, OnlyUpdates, At, IdleHandler, Absent, First, Linear!RowInit
<1>2. TypeOK /\ OnlyUpdates /\ [Next]_vars => OnlyUpdates' /\ [Linear!RowNext]_(Linear!rowVars)
  BY LinearStep
<1> QED BY <1>1, <1>2, TypeCorrect, PTL DEF Spec, UpdatesAreLinear, Linear!RowSpec

-----------------------------------------------------------------------------
(***************************************************************************)
(* Writes under a version condition, beside every other kind of write.     *)
(***************************************************************************)
\* An update made since the row was last created carries what the row contains
\* while the row has the version it was made from.
UpdateCurrent(o) ==
  op[o].kind = "update" /\ o \notin outdated =>
    /\ op[o].base <= row.version
    /\ op[o].base = row.version => row.content \subseteq op[o].content

\* So does the copy a delete has read.
DeleteCurrent(h) ==
  At(h, "tombstone") /\ h \notin overtaken =>
    /\ handler[h].seen <= row.version
    /\ handler[h].seen = row.version => row.content \subseteq handler[h].data

ReadsCurrent == /\ \A o \in Ops : UpdateCurrent(o)
                /\ \A h \in Handlers : DeleteCurrent(h)

\* Versions are numbers.
LEMMA VersionNumbers ==
  ASSUME TypeOK
  PROVE  /\ row.version \in Nat
         /\ \A o \in Ops : op[o].base \in Nat
         /\ \A h \in Handlers : handler[h].seen \in Nat
BY DEF TypeOK, Row, Versions, Operation, Handler, Bases

\* A step of a call that leaves the row alone and reads nothing.
LEMMA NothingRead ==
  ASSUME TypeOK, ReadsCurrent, UNCHANGED <<row, op, outdated, overtaken>>,
         NEW h \in Handlers, \A k \in Handlers : k # h => handler'[k] = handler[k],
         handler'[h].pc # "tombstone"
  PROVE  ReadsCurrent'
BY DEF ReadsCurrent, UpdateCurrent, DeleteCurrent, At

\* A write that matched the version of the row moves it on: whatever was read
\* before is no longer the version of the row.
LEMMA VersionMovesOn ==
  ASSUME TypeOK, ReadsCurrent, UNCHANGED <<op, outdated, overtaken>>,
         row'.version = row.version + 1,
         NEW h \in Handlers, \A k \in Handlers : k # h => handler'[k] = handler[k],
         handler'[h].pc # "tombstone"
  PROVE  ReadsCurrent'
<1>1. ASSUME NEW o \in Ops PROVE UpdateCurrent(o)'
  BY VersionNumbers DEF ReadsCurrent, UpdateCurrent
<1>2. ASSUME NEW k \in Handlers PROVE DeleteCurrent(k)'
  BY VersionNumbers DEF ReadsCurrent, DeleteCurrent, At
<1> QED BY <1>1, <1>2 DEF ReadsCurrent

\* When the row starts over, nothing that was read before counts.
LEMMA NothingCounts ==
  ASSUME TypeOK, ReadsCurrent, UNCHANGED op, StartOver,
         \A k \in Handlers : handler'[k].pc = "tombstone" => handler[k].pc = "tombstone"
  PROVE  ReadsCurrent'
BY DEF ReadsCurrent, UpdateCurrent, DeleteCurrent, StartOver, At

LEMMA CallReads ==
  ASSUME TypeOK, ReadsCurrent, NEW h \in Handlers, HandlerStep(h)
  PROVE  /\ ReadsCurrent'
         /\ \A k \in Handlers : k # h => handler'[k] = handler[k]
         /\ ConditionalWrite(h) => row.content \subseteq row'.content
<1>t. handler \in [Handlers -> Handler] /\ op \in [Ops -> Operation]
  BY DEF TypeOK
<1>r. Return(h) => handler'[h].pc = "idle" /\ \A k \in Handlers : k # h => handler'[k] = handler[k]
  BY <1>t DEF Return, IdleHandler
<1>g. \A pc : Goto(h, pc) => /\ handler'[h].pc = pc
                             /\ \A k \in Handlers : k # h => handler'[k] = handler[k]
  BY <1>t DEF Goto, Handler
<1>1. CASE CheckStale(h)
  BY <1>1, <1>r, <1>g, NothingRead DEF CheckStale
<1>2. CASE CheckIdempotency(h)
  BY <1>2, <1>r, <1>g, NothingRead DEF CheckIdempotency
<1>3. CASE Reread(h)
  BY <1>3, <1>r, <1>g, NothingRead DEF Reread
<1>4. CASE Record(h)
  BY <1>4, <1>r, NothingRead DEF Record
<1>5. CASE Abort(h)
  BY <1>5, <1>r, NothingRead DEF Abort
<1>6. CASE Patch(h)
  <2> DEFINE o == handler[h].op
  <2>1. At(h, "write") /\ o \in Ops /\ UNCHANGED <<op, outdated, overtaken>>
    BY <1>6 DEF Patch, At, TypeOK
  <2>2. CASE row.version # op[o].base
    BY <1>6, <1>g, <2>1, <2>2, NothingRead DEF Patch
  <2>3. CASE row.version = op[o].base
    <3>1. row' = [version |-> op[o].base + 1, content |-> op[o].content, deleted |-> FALSE]
          /\ Goto(h, "record")
      BY <1>6, <2>3 DEF Patch, Write
    <3>2. ReadsCurrent'
      BY <1>g, <2>1, <2>3, <3>1, VersionMovesOn
    <3>3. ConditionalWrite(h) => row.content \subseteq row'.content
      BY <2>1, <2>3, <3>1 DEF ConditionalWrite, ReadsCurrent, UpdateCurrent, At
    <3> QED BY <1>g, <3>1, <3>2, <3>3
  <2> QED BY <2>2, <2>3
<1>7. CASE DeletePatch(h)
  <2>1. At(h, "tombstone") /\ UNCHANGED <<op, outdated, overtaken>>
    BY <1>7 DEF DeletePatch
  <2>2. /\ handler'[h].pc # "tombstone"
        /\ \A k \in Handlers : k # h => handler'[k] = handler[k]
    BY <1>7, <1>r, <1>g DEF DeletePatch
  <2>3. CASE UNCHANGED row
    BY <2>1, <2>2, <2>3, NothingRead
  <2>4. CASE row.version = handler[h].seen /\ WriteTombstone(h)
    <3>1. row' = [version |-> handler[h].seen + 1, content |-> handler[h].data, deleted |-> TRUE]
      BY <2>4 DEF WriteTombstone, Write
    <3>2. ReadsCurrent'
      BY <2>1, <2>2, <2>4, <3>1, VersionMovesOn
    <3>3. ConditionalWrite(h) => row.content \subseteq row'.content
      BY <2>1, <2>4, <3>1 DEF ConditionalWrite, ReadsCurrent, DeleteCurrent, At
    <3> QED BY <2>2, <3>2, <3>3
  <2> QED BY <1>7, <2>3, <2>4 DEF DeletePatch
<1>8. CASE Create(h)
  <2>1. ReadsCurrent'
    BY <1>8, <1>g, NothingCounts DEF Create
  <2> QED BY <1>8, <1>g, <2>1 DEF Create, ConditionalWrite, At
<1>9. CASE DeleteForce(h)
  <2>1. ReadsCurrent'
    BY <1>9, <1>g, NothingCounts DEF DeleteForce
  <2> QED BY <1>9, <1>g, <2>1 DEF DeleteForce, ConditionalWrite, At
<1>10. CASE DeleteRead(h)
  <2>1. /\ UNCHANGED <<row, op, outdated>> /\ overtaken' = overtaken \ {h}
        /\ handler' = [handler EXCEPT ![h].pc = "tombstone", ![h].seen = row.version,
                                      ![h].data = row.content]
    BY <1>10 DEF DeleteRead
  <2>2. /\ handler'[h].seen = row.version /\ handler'[h].data = row.content
        /\ \A k \in Handlers : k # h => handler'[k] = handler[k]
    BY <1>t, <2>1 DEF Handler
  <2>0. row.version \in Nat
    BY VersionNumbers
  <2>3. DeleteCurrent(h)'
    <3>1. row'.version = row.version /\ row'.content = row.content
      BY <2>1
    <3>2. handler'[h].seen <= row'.version /\ row'.content \subseteq handler'[h].data
      BY <2>0, <2>2, <3>1
    <3> QED BY <3>2 DEF DeleteCurrent
  <2> QED BY <2>1, <2>2, <2>3 DEF ReadsCurrent, UpdateCurrent, DeleteCurrent, At
<1> QED BY <1>1, <1>2, <1>3, <1>4, <1>5, <1>6, <1>7, <1>8, <1>9, <1>10 DEF HandlerStep

\* An update, or a delete, that was read since the row was last created keeps
\* all the row contains, however many creates, forced deletes, purges, resets
\* and resends run beside it.
THEOREM ConditionalWritesKeepHolds == Spec => ConditionalWritesKeep
<1> DEFINE Keeps == \A h \in Handlers :
      handler'[h] # handler[h] /\ ConditionalWrite(h) => row.content \subseteq row'.content
<1>1. Init => ReadsCurrent
  BY DEF Init, ReadsCurrent, UpdateCurrent, DeleteCurrent, At, IdleHandler, NoOp
<1>2. TypeOK /\ ReadsCurrent /\ [Next]_vars => ReadsCurrent' /\ [Keeps]_vars
  <2> SUFFICES ASSUME TypeOK, ReadsCurrent, [Next]_vars PROVE ReadsCurrent' /\ [Keeps]_vars
    OBVIOUS
  <2>t. handler \in [Handlers -> Handler] /\ op \in [Ops -> Operation]
    BY DEF TypeOK
  <2>1. ASSUME NEW o \in Ops, NEW kind \in Kinds, Submit(o, kind)
        PROVE  ReadsCurrent' /\ Keeps
    <3>1. /\ UNCHANGED <<row, handler, outdated, overtaken>>
          /\ \A q \in Ops : q # o => op'[q] = op[q]
          /\ op'[o].kind = kind
      BY <2>1, <2>t DEF Submit
    <3>2. kind = "update" => op'[o].base = row.version /\ op'[o].content = row.content \cup {o}
      BY <2>1, <2>t DEF Submit
    <3>3. UpdateCurrent(o)'
      BY <3>1, <3>2, VersionNumbers DEF UpdateCurrent
    <3> QED BY <3>1, <3>3 DEF ReadsCurrent, UpdateCurrent, DeleteCurrent, At
  <2>2. ASSUME NEW h \in Handlers, NEW o \in Ops, Receive(h, o)
        PROVE  ReadsCurrent' /\ Keeps
    <3>1. /\ handler[h].pc = "idle" /\ handler'[h].pc = "stale"
          /\ \A k \in Handlers : k # h => handler'[k] = handler[k]
      BY <2>2, <2>t DEF Receive, IdleHandler
    <3> QED BY <2>2, <3>1, NothingRead DEF Receive, ConditionalWrite, At
  <2>3. ASSUME NEW h \in Handlers, HandlerStep(h) PROVE ReadsCurrent' /\ Keeps
    BY <2>3, CallReads
  <2>4. CASE PurgeDelete
    BY <2>4, NothingCounts DEF PurgeDelete
  <2>5. CASE PurgeCollect \/ Reset \/ UNCHANGED vars
    BY <2>5 DEF PurgeCollect, Reset, vars, ReadsCurrent, UpdateCurrent, DeleteCurrent, At
  <2> QED BY <2>1, <2>2, <2>3, <2>4, <2>5 DEF Next
<1> QED BY <1>1, <1>2, TypeCorrect, PTL DEF Spec, ConditionalWritesKeep
=============================================================================
