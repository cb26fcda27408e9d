------------------------- MODULE BudgetLedgerProofs -------------------------
(***************************************************************************)
(* Proofs about the transport budget ledger for every set of drafts and    *)
(* any number of concurrent transactions.                                  *)
(*                                                                         *)
(* The first part is about the locks.  Sums of amounts stay opaque in it:  *)
(* a check that held stays true because the rows it sums do not change     *)
(* while the lock is held.  The second part is about the book alone: there *)
(* the sums are computed, and what the checks promise about them holds.    *)
(* The refinement between the two carries it to the transactions.          *)
(***************************************************************************)
EXTENDS BudgetLedger, FiniteSetTheorems, WellFoundedInduction, TLAPS

USE DraftsAssumption

Stages == {"idle", "read", "key", "lookup", "target", "check", "source", "insert", "inserted", "answered"}
Tran == [pc : Stages, draft : Drafts \cup {None}, unlocked : BOOLEAN, answer : Ids \cup {None}]

-----------------------------------------------------------------------------
(***************************************************************************)
(* How a step changes the transactions.                                    *)
(***************************************************************************)
Others(t) == \A u \in Txs : u # t => tx'[u] = tx[u] /\ locks'[u] = locks[u]

LEMMA GotoIs ==
  ASSUME tx \in [Txs -> Tran], NEW t \in Txs, NEW pc \in Stages, Goto(t, pc)
  PROVE  /\ tx' \in [Txs -> Tran]
         /\ tx'[t].pc = pc /\ tx'[t].draft = tx[t].draft
         /\ tx'[t].unlocked = tx[t].unlocked /\ tx'[t].answer = tx[t].answer
         /\ \A u \in Txs : u # t => tx'[u] = tx[u]
BY DEF Goto, Tran

LEMMA TakeIs ==
  ASSUME locks \in [Txs -> SUBSET Locks], NEW t \in Txs, NEW lock \in Locks, Take(t, lock)
  PROVE  /\ locks' \in [Txs -> SUBSET Locks]
         /\ locks'[t] = locks[t] \cup {lock}
         /\ \A u \in Txs : u # t => locks'[u] = locks[u] /\ lock \notin locks[u]
BY DEF Take, Free

LEMMA ReleaseIs ==
  ASSUME locks \in [Txs -> SUBSET Locks], NEW t \in Txs, Release(t)
  PROVE  /\ locks' \in [Txs -> SUBSET Locks]
         /\ locks'[t] = {}
         /\ \A u \in Txs : u # t => locks'[u] = locks[u]
BY DEF Release

LEMMA IdleType == Idle \in Tran /\ Idle.pc = "idle"
BY DEF Idle, Tran, Stages

LEMMA FailIs ==
  ASSUME tx \in [Txs -> Tran], locks \in [Txs -> SUBSET Locks], NEW t \in Txs, Fail(t)
  PROVE  /\ tx' \in [Txs -> Tran] /\ locks' \in [Txs -> SUBSET Locks]
         /\ tx'[t] = Idle /\ locks'[t] = {}
         /\ Others(t)
         /\ events' = events /\ late' = late
BY ReleaseIs, IdleType DEF Fail, Others, book

LEMMA AnswerIs ==
  ASSUME tx \in [Txs -> Tran], locks \in [Txs -> SUBSET Locks], NEW t \in Txs,
         NEW i \in Ids, Answer(t, i)
  PROVE  /\ tx' \in [Txs -> Tran] /\ locks' \in [Txs -> SUBSET Locks]
         /\ tx'[t].pc = "answered" /\ tx'[t].draft = tx[t].draft /\ tx'[t].answer = i
         /\ locks'[t] = {}
         /\ Others(t)
<1>1. /\ tx' \in [Txs -> Tran]
      /\ tx'[t].pc = "answered" /\ tx'[t].draft = tx[t].draft /\ tx'[t].answer = i
      /\ \A u \in Txs : u # t => tx'[u] = tx[u]
  BY DEF Answer, Tran, Stages
<1>2. Release(t)
  BY DEF Answer
<1> QED BY <1>1, <1>2, ReleaseIs DEF Others

LEMMA CallIs ==
  ASSUME tx \in [Txs -> Tran], locks \in [Txs -> SUBSET Locks], NEW t \in Txs, Call(t)
  PROVE  /\ tx' \in [Txs -> Tran] /\ locks' = locks /\ events' = events /\ late' = late
         /\ tx[t].pc = "idle"
         /\ tx'[t].draft \in Drafts
         /\ tx'[t].pc = IF tx'[t].draft.via = "rpc" THEN "key" ELSE "read"
         /\ Others(t)
<1>1. PICK d \in Drafts :
        tx' = [tx EXCEPT ![t] = [Idle EXCEPT !.pc = IF d.via = "rpc" THEN "key" ELSE "read",
                                             !.draft = d]]
  BY DEF Call
<1> DEFINE pc == IF d.via = "rpc" THEN "key" ELSE "read"
<1>2. pc \in Stages
  BY DEF Stages
<1> DEFINE x == [Idle EXCEPT !.pc = pc, !.draft = d]
<1>3. x \in Tran /\ x.pc = pc /\ x.draft = d
  BY <1>2 DEF Idle, Tran
<1> HIDE DEF x
<1>4. tx'[t] = x /\ \A u \in Txs : u # t => tx'[u] = tx[u]
  BY <1>1 DEF x
<1>5. tx' \in [Txs -> Tran]
  BY <1>1, <1>3 DEF x
<1> QED BY <1>3, <1>4, <1>5 DEF Call, Others, At

LEMMA LockTargetIs ==
  ASSUME tx \in [Txs -> Tran], locks \in [Txs -> SUBSET Locks], NEW t \in Txs, LockTarget(t),
         tx[t].draft.target \in Ids
  PROVE  /\ tx' \in [Txs -> Tran] /\ locks' \in [Txs -> SUBSET Locks]
         /\ events' = events /\ late' = late
         /\ tx[t].pc = "target" /\ tx'[t].pc = "check" /\ tx'[t].draft = tx[t].draft
         /\ Others(t)
         /\ \/ /\ \E e \in events : e.id = tx[t].draft.target
               /\ tx'[t].unlocked = FALSE
               /\ locks'[t] = locks[t] \cup {RowLock(tx[t].draft.target)}
               /\ \A u \in Txs : u # t => RowLock(tx[t].draft.target) \notin locks[u]
            \/ tx'[t].unlocked = TRUE /\ locks'[t] = locks[t]
<1> DEFINE i == tx[t].draft.target
           found == \E e \in events : e.id = i
<1>1. /\ IF found THEN Take(t, RowLock(i)) ELSE UNCHANGED locks
      /\ tx' = [tx EXCEPT ![t].pc = "check", ![t].unlocked = ~found]
      /\ events' = events /\ late' = late /\ tx[t].pc = "target"
  BY DEF LockTarget, book, At
<1>2. RowLock(i) \in Locks
  BY DEF Locks
<1>3. CASE found
  <2>1. tx' = [tx EXCEPT ![t].pc = "check", ![t].unlocked = FALSE]
    BY <1>1, <1>3, Zenon
  <2>2. /\ tx' \in [Txs -> Tran]
        /\ tx'[t].pc = "check" /\ tx'[t].draft = tx[t].draft /\ tx'[t].unlocked = FALSE
        /\ \A u \in Txs : u # t => tx'[u] = tx[u]
    BY <2>1 DEF Tran, Stages
  <2>3. Take(t, RowLock(i))
    BY <1>1, <1>3
  <2> QED BY <1>1, <1>2, <1>3, <2>2, <2>3, TakeIs DEF Others
<1>4. CASE ~found
  <2>1. tx' = [tx EXCEPT ![t].pc = "check", ![t].unlocked = TRUE]
    BY <1>1, <1>4, Zenon
  <2>2. /\ tx' \in [Txs -> Tran]
        /\ tx'[t].pc = "check" /\ tx'[t].draft = tx[t].draft /\ tx'[t].unlocked = TRUE
        /\ \A u \in Txs : u # t => tx'[u] = tx[u]
    BY <2>1 DEF Tran, Stages
  <2> QED BY <1>1, <1>4, <2>2 DEF Others
<1> QED BY <1>3, <1>4

-----------------------------------------------------------------------------
(***************************************************************************)
(* The strengthening: what every transaction holds, and what of its check  *)
(* still is true, at each statement.                                       *)
(***************************************************************************)
InTrigger == {"target", "check", "source", "insert", "inserted"}

\* An RPC holds the lock on its key from the lookup on.
KeyHeld(t) ==
  tx[t].draft.via = "rpc" /\ tx[t].pc \in InTrigger \cup {"lookup"}
    => KeyLock(tx[t].draft.key) \in locks[t]

\* A reversal past its first statement holds its target, if it found it.
TargetHeld(t) ==
  tx[t].draft.kind = "REVERSAL" /\ tx[t].pc \in {"check", "insert", "inserted"}
    => tx[t].unlocked \/ RowLock(tx[t].draft.target) \in locks[t]

\* A consumption holds its source from the check on, a correction the source
\* of its target from the insert on.
SourceHeld(t) ==
  Capped(tx[t].draft) /\ tx[t].pc \in {"check", "insert", "inserted"}
    => SourceLock(tx[t].draft.source) \in locks[t]

CorrectedHeld(t) ==
  tx[t].draft.kind = "CONSUMPTION_CORRECTION" /\ tx[t].pc \in {"insert", "inserted"}
    => \A e \in events : e.id = tx[t].draft.target =>
         e.source = None \/ SourceLock(e.source) \in locks[t]

\* Which locks may be held where.
LockStage(t) ==
  /\ tx[t].pc \in {"idle", "read", "key", "answered"} => locks[t] = {}
  /\ (\E i \in Ids : RowLock(i) \in locks[t])
       => tx[t].pc \in {"check", "source", "insert", "inserted"}
  /\ (\E s \in Sources : SourceLock(s) \in locks[t])
       => tx[t].pc \in {"insert", "inserted"} \/ (tx[t].pc = "check" /\ Capped(tx[t].draft))

\* Which events come to which statement.
Staged(t) ==
  /\ tx[t].pc = "read" => tx[t].draft.via # "rpc"
  /\ tx[t].pc = "target" => tx[t].draft.kind \in Linked
  /\ tx[t].pc = "source" =>
       \/ Capped(tx[t].draft)
       \/ /\ tx[t].draft.kind = "CONSUMPTION_CORRECTION"
          /\ \E e \in events : e.id = tx[t].draft.target /\ e.source # None

\* What of the check is still true.
CheckedReversal(t) ==
  tx[t].draft.kind = "REVERSAL" /\ tx[t].pc \in {"insert", "inserted"} =>
    /\ Refers("SALES_ALLOCATION", tx[t].draft)
    /\ \/ tx[t].unlocked
       \/ \E e \in Links("REVERSAL", tx[t].draft.target) : e.id \in late
       \/ ReversalFits(tx[t].draft)

CorrectionMatches(d) ==
  \A c \in events : c.id = d.target =>
    c.snapshot > 0 /\ d.snapshot = c.snapshot /\ d.amount <= c.amount

CheckedCorrection(t) ==
  tx[t].draft.kind = "CONSUMPTION_CORRECTION" /\ tx[t].pc \in {"source", "insert", "inserted"} =>
    Refers("INBOUND_CONSUMPTION", tx[t].draft) /\ CorrectionMatches(tx[t].draft)

UndoMatches(d) == \A c \in events : c.id = d.target => d.amount = c.amount

CheckedUndo(t) ==
  tx[t].draft.kind = "CONSUMPTION_REVERSAL" /\ tx[t].pc \in {"insert", "inserted"} =>
    Refers("OUTBOUND_CONSUMPTION", tx[t].draft) /\ UndoMatches(tx[t].draft)

CheckedConsumption(t) ==
  Capped(tx[t].draft) /\ tx[t].pc \in {"insert", "inserted"} =>
    InboundFits(tx[t].draft) \/ Unchecked(tx[t].draft)

Checked(t) ==
  CheckedReversal(t) /\ CheckedCorrection(t) /\ CheckedUndo(t) /\ CheckedConsumption(t)

\* No row in the indexes stands in the way of an insert that was made.
Clear(t) == tx[t].pc = "inserted" => \A e \in events : ~Conflicts(tx[t].draft, e)

KeyUnused(t) ==
  tx[t].pc \in InTrigger /\ tx[t].draft.via = "rpc"
    => \A e \in events : e.key = tx[t].draft.key => e.via = "gateway"

Converges(t) ==
  tx[t].pc = "answered" =>
    \E e \in events : /\ e.id = tx[t].answer
                      /\ e.key = tx[t].draft.key
                      /\ Economics(e) = Economics(tx[t].draft)

Holds(t) == KeyHeld(t) /\ TargetHeld(t) /\ SourceHeld(t) /\ CorrectedHeld(t) /\ LockStage(t)

Good(t) == Holds(t) /\ Staged(t) /\ Checked(t) /\ Clear(t) /\ KeyUnused(t) /\ Converges(t)

Exclusive == \A t, u \in Txs : t # u => locks[t] \cap locks[u] = {}

Apart ==
  \A t, u \in Txs : t # u /\ tx[t].pc = "inserted" /\ tx[u].pc = "inserted"
    => ~Conflicts(tx[t].draft, tx[u].draft)

Unique == \A e, f \in events : e.id = f.id => e = f

IInv == TypeOK /\ Unique /\ Exclusive /\ Apart /\ \A t \in Txs : Good(t)

-----------------------------------------------------------------------------
(***************************************************************************)
(* What does not change while the book does not, or when one row that      *)
(* conflicts with none is added.                                           *)
(***************************************************************************)
LEMMA BookSame ==
  ASSUME events' = events, late' = late, NEW d
  PROVE  /\ \A kind, i : Links(kind, i)' = Links(kind, i)
         /\ \A kind : Refers(kind, d)' <=> Refers(kind, d)
         /\ ReversalFits(d)' <=> ReversalFits(d)
         /\ InboundFits(d)' <=> InboundFits(d)
         /\ Unchecked(d)' <=> Unchecked(d)
<1>1. \A kind, i : Links(kind, i)' = Links(kind, i)
  BY DEF Links
<1>2. \A kind : Refers(kind, d)' <=> Refers(kind, d)
  BY DEF Refers
<1>3. ReversalFits(d)' <=> ReversalFits(d)
  BY <1>1 DEF ReversalFits
<1>4. \A s : Consumed(s)' = Consumed(s)
  BY DEF Consumed
<1>5. \A s : Corrected(s)' = Corrected(s)
  BY <1>1, <1>4 DEF Corrected
<1>6. InboundFits(d)' <=> InboundFits(d)
  BY <1>4, <1>5 DEF InboundFits, Net
<1>7. Unchecked(d)' <=> Unchecked(d)
  BY <1>4 DEF Unchecked
<1> QED BY <1>1, <1>2, <1>3, <1>6, <1>7

Added(x) ==
  /\ x \in Drafts
  /\ events' = events \cup {x}
  /\ \A e \in events : ~Conflicts(x, e)

LEMMA RefersStays ==
  ASSUME NEW x, Added(x), NEW d, NEW kind, Refers(kind, d)
  PROVE  /\ Refers(kind, d)'
         /\ x.id # d.target
BY DEF Refers, Added, Conflicts

LEMMA LinksStay ==
  ASSUME NEW x, Added(x), NEW kind, NEW i, x.kind # kind \/ x.target # i
  PROVE  Links(kind, i)' = Links(kind, i)
BY DEF Added, Links

LEMMA NetStays ==
  ASSUME NEW x, Added(x), NEW s,
         ~(x.kind = "INBOUND_CONSUMPTION" /\ x.source = s),
         ~(x.kind = "CONSUMPTION_CORRECTION" /\ \E e \in Consumed(s) : e.id = x.target)
  PROVE  Consumed(s)' = Consumed(s) /\ Net(s)' = Net(s)
<1>1. Consumed(s)' = Consumed(s)
  BY DEF Added, Consumed
<1>2. \A e \in Consumed(s) : Links("CONSUMPTION_CORRECTION", e.id)' = Links("CONSUMPTION_CORRECTION", e.id)
  BY LinksStay
<1>3. Corrected(s)' = Corrected(s)
  BY <1>1, <1>2 DEF Corrected
<1> QED BY <1>1, <1>3 DEF Net

-----------------------------------------------------------------------------
(***************************************************************************)
(* A transaction keeps its part of the invariant while another one moves.  *)
(***************************************************************************)
LEMMA KeepsGood ==
  ASSUME NEW u \in Txs, Good(u), tx'[u] = tx[u], locks'[u] = locks[u],
         events' = events, late' = late
  PROVE  Good(u)'
<1> DEFINE d == tx[u].draft
<1>1. d' = d
  OBVIOUS
<1>2. Holds(u)'
  BY DEF Good, Holds, KeyHeld, TargetHeld, SourceHeld, CorrectedHeld, LockStage, Capped
<1>3. Staged(u)'
  BY DEF Good, Staged, Capped
<1>4. CheckedReversal(u)'
  <2>1. /\ Refers("SALES_ALLOCATION", d)' <=> Refers("SALES_ALLOCATION", d)
        /\ ReversalFits(d)' <=> ReversalFits(d)
        /\ Links("REVERSAL", d.target)' = Links("REVERSAL", d.target)
    BY <1>1 DEF Refers, ReversalFits, Links
  <2> QED BY <2>1, <1>1 DEF Good, Checked, CheckedReversal
<1>5. CheckedCorrection(u)' /\ CheckedUndo(u)'
  BY DEF Good, Checked, CheckedCorrection, CheckedUndo, CorrectionMatches, UndoMatches, Refers
<1>6. CheckedConsumption(u)'
  <2>1. Consumed(d.source)' = Consumed(d.source) /\ Corrected(d.source)' = Corrected(d.source)
    BY <1>1 DEF Consumed, Corrected, Links
  <2>2. Net(d.source)' = Net(d.source)
    BY <2>1 DEF Net
  <2> QED BY <2>1, <2>2, <1>1 DEF Good, Checked, CheckedConsumption, InboundFits, Unchecked, Capped
<1>7. Clear(u)' /\ KeyUnused(u)' /\ Converges(u)'
  BY DEF Good, Clear, KeyUnused, Converges, Conflicts
<1> QED BY <1>2, <1>3, <1>4, <1>5, <1>6, <1>7 DEF Good, Checked

LEMMA CommitKeepsGood ==
  ASSUME Exclusive, Apart, NEW t \in Txs, NEW u \in Txs, u # t, Good(t), Good(u),
         tx[t].pc = "inserted", tx'[u] = tx[u], locks'[u] = locks[u], Added(tx[t].draft),
         late' = IF tx[t].draft.kind = "REVERSAL" /\ tx[t].unlocked
                   THEN late \cup {tx[t].draft.id} ELSE late
  PROVE  Good(u)'
<1> DEFINE x == tx[t].draft
           d == tx[u].draft
<1>1. d' = d
  OBVIOUS
<1>2. events' = events \cup {x}
  BY DEF Added
<1>3. \A lock : ~(lock \in locks[t] /\ lock \in locks[u])
  BY DEF Exclusive
<1>4. ASSUME NEW kind, Refers(kind, d)
      PROVE  Refers(kind, d)' /\ x.id # d.target
  BY <1>4, RefersStays
<1>5. Holds(u)'
  <2>1. KeyHeld(u)' /\ TargetHeld(u)' /\ SourceHeld(u)' /\ LockStage(u)'
    BY DEF Good, Holds, KeyHeld, TargetHeld, SourceHeld, LockStage, Capped
  <2>2. CorrectedHeld(u)'
    BY <1>1, <1>2, <1>4 DEF Good, Holds, CorrectedHeld, Checked, CheckedCorrection
  <2> QED BY <2>1, <2>2 DEF Holds
<1>6. Staged(u)'
  BY <1>2 DEF Good, Staged, Capped
<1>7. CheckedReversal(u)'
  <2> SUFFICES ASSUME d.kind = "REVERSAL", tx[u].pc \in {"insert", "inserted"}, ~tx[u].unlocked
               PROVE  /\ Refers("SALES_ALLOCATION", d)'
                      /\ \/ \E e \in Links("REVERSAL", d.target)' : e.id \in late'
                         \/ ReversalFits(d)'
    <3>1. d.kind = "REVERSAL" /\ tx[u].pc \in {"insert", "inserted"} => Refers("SALES_ALLOCATION", d)'
      BY <1>4 DEF Good, Checked, CheckedReversal
    <3> QED BY <1>1, <3>1 DEF CheckedReversal
  <2>1. Refers("SALES_ALLOCATION", d)' /\ x.id # d.target
    BY <1>4 DEF Good, Checked, CheckedReversal
  <2>2. CASE x.kind = "REVERSAL" /\ x.target = d.target
    <3>1. RowLock(d.target) \in locks[u]
      BY DEF Good, Holds, TargetHeld
    <3>2. tx[t].unlocked
      BY <1>3, <2>2, <3>1 DEF Good, Holds, TargetHeld
    <3>3. x \in Links("REVERSAL", d.target)' /\ x.id \in late'
      BY <1>2, <2>2, <3>2 DEF Links
    <3> QED BY <2>1, <3>3
  <2>3. CASE ~(x.kind = "REVERSAL" /\ x.target = d.target)
    <3>1. Links("REVERSAL", d.target)' = Links("REVERSAL", d.target)
      BY <2>3, LinksStay
    <3>2. late \subseteq late'
      OBVIOUS
    <3>3. ReversalFits(d) => ReversalFits(d)'
      BY <1>1, <1>2, <2>1, <3>1 DEF ReversalFits
    <3>4. \/ \E e \in Links("REVERSAL", d.target) : e.id \in late
          \/ ReversalFits(d)
      BY DEF Good, Checked, CheckedReversal
    <3> QED BY <2>1, <3>1, <3>2, <3>3, <3>4
  <2> QED BY <2>2, <2>3
<1>8. CheckedCorrection(u)'
  BY <1>1, <1>2, <1>4 DEF Good, Checked, CheckedCorrection, CorrectionMatches
<1>9. CheckedUndo(u)'
  BY <1>1, <1>2, <1>4 DEF Good, Checked, CheckedUndo, UndoMatches
<1>10. CheckedConsumption(u)'
  <2> SUFFICES ASSUME Capped(d), tx[u].pc \in {"insert", "inserted"}
               PROVE  InboundFits(d)' \/ Unchecked(d)'
    BY <1>1 DEF CheckedConsumption, Capped
  <2>1. SourceLock(d.source) \in locks[u] /\ d.source # None
    BY DEF Good, Holds, SourceHeld, Capped
  <2>2. SourceLock(d.source) \notin locks[t]
    BY <1>3, <2>1
  <2>3. Consumed(d.source) \subseteq Consumed(d.source)'
    BY <1>1, <1>2 DEF Consumed
  <2>4. CASE Unchecked(d)
    BY <2>3, <2>4, <1>1 DEF Unchecked, Capped
  <2>5. CASE x.kind = "INBOUND_CONSUMPTION" /\ x.source = d.source
    <3>1. ~Capped(x)
      BY <2>2, <2>5 DEF Good, Holds, SourceHeld
    <3>2. x.snapshot = 0
      <4>1. x \in Event
        BY DraftsAssumption DEF Added
      <4> QED BY <2>1, <2>5, <3>1, <4>1 DEF Capped, Event
    <3>3. x \in Consumed(d.source)'
      BY <1>1, <1>2, <2>5 DEF Consumed
    <3> QED BY <1>1, <3>2, <3>3 DEF Unchecked, Capped
  <2>6. CASE ~Unchecked(d) /\ ~(x.kind = "INBOUND_CONSUMPTION" /\ x.source = d.source)
    <3>1. ~(x.kind = "CONSUMPTION_CORRECTION" /\ \E e \in Consumed(d.source) : e.id = x.target)
      <4> SUFFICES ASSUME x.kind = "CONSUMPTION_CORRECTION",
                          NEW e \in Consumed(d.source), e.id = x.target
                   PROVE  FALSE
        OBVIOUS
      <4>1. e \in events /\ e.source = d.source
        BY DEF Consumed
      <4>2. SourceLock(e.source) \in locks[t]
        BY <2>1, <4>1 DEF Good, Holds, CorrectedHeld
      <4> QED BY <2>2, <4>1, <4>2
    <3>2. Consumed(d.source)' = Consumed(d.source) /\ Net(d.source)' = Net(d.source)
      <4> HIDE DEF x, d
      <4>1. \A s : s = d.source => Consumed(s)' = Consumed(s) /\ Net(s)' = Net(s)
        BY <2>6, <3>1, NetStays DEF x
      <4> QED BY <1>1, <4>1 DEF Consumed, Net
    <3>3. InboundFits(d)
      BY <2>6 DEF Good, Checked, CheckedConsumption
    <3> QED BY <1>1, <3>2, <3>3 DEF InboundFits
  <2> QED BY <2>4, <2>5, <2>6
<1>11. Clear(u)'
  BY <1>1, <1>2 DEF Good, Clear, Apart
<1>12. KeyUnused(u)'
  <2> SUFFICES ASSUME tx[u].pc \in InTrigger, d.via = "rpc", x.key = d.key
               PROVE  x.via = "gateway"
    BY <1>1, <1>2 DEF Good, KeyUnused
  <2>1. KeyLock(d.key) \in locks[u]
    BY DEF Good, Holds, KeyHeld
  <2>2. x.via # "rpc"
    BY <1>3, <2>1 DEF Good, Holds, KeyHeld, InTrigger
  <2>3. x \in Event
    BY DraftsAssumption DEF Added
  <2> QED BY <2>2, <2>3 DEF Event
<1>13. Converges(u)'
  BY <1>2 DEF Good, Converges
<1> QED BY <1>5, <1>6, <1>7, <1>8, <1>9, <1>10, <1>11, <1>12, <1>13 DEF Good, Checked

-----------------------------------------------------------------------------
(***************************************************************************)
(* Every step keeps the invariant.                                         *)
(***************************************************************************)
LEMMA Assemble ==
  ASSUME IInv, NEW t \in Txs, events' = events, late' = late, Others(t),
         tx' \in [Txs -> Tran], locks' \in [Txs -> SUBSET Locks],
         IF tx'[t].pc = "idle" THEN locks'[t] = {} ELSE tx'[t].draft \in Drafts,
         Good(t)',
         \A u \in Txs : u # t => locks'[t] \cap locks[u] = {},
         tx'[t].pc = "inserted" =>
           \A u \in Txs : u # t /\ tx[u].pc = "inserted" => ~Conflicts(tx'[t].draft, tx[u].draft)
  PROVE  IInv'
<1>1. \A u \in Txs : u # t => tx'[u] = tx[u] /\ locks'[u] = locks[u]
  BY DEF Others
<1>2. TypeOK'
  BY <1>1 DEF IInv, TypeOK, Tran, Stages, At
<1>3. Unique'
  BY DEF IInv, Unique
<1>4. Exclusive'
  BY <1>1 DEF IInv, Exclusive
<1>5. Apart'
  <2> SUFFICES ASSUME NEW v \in Txs, NEW w \in Txs, v # w,
                      tx'[v].pc = "inserted", tx'[w].pc = "inserted"
               PROVE  ~Conflicts(tx'[v].draft, tx'[w].draft)
    BY DEF Apart, Conflicts
  <2>1. CASE v # t /\ w # t
    BY <1>1, <2>1 DEF IInv, Apart
  <2>2. CASE v = t
    BY <1>1, <2>2
  <2>3. CASE w = t
    BY <1>1, <2>3 DEF Conflicts
  <2> QED BY <2>1, <2>2, <2>3
<1>6. \A u \in Txs : Good(u)'
  <2> TAKE u \in Txs
  <2>1. CASE u = t
    BY <2>1
  <2>2. CASE u # t
    BY <1>1, <2>2, KeepsGood DEF IInv
  <2> QED BY <2>1, <2>2
<1> QED BY <1>2, <1>3, <1>4, <1>5, <1>6 DEF IInv

LEMMA TypeParts ==
  ASSUME TypeOK
  PROVE  /\ events \subseteq Drafts /\ late \subseteq Ids
         /\ tx \in [Txs -> Tran] /\ locks \in [Txs -> SUBSET Locks]
         /\ \A t \in Txs : tx[t].pc # "idle" => tx[t].draft \in Drafts
         /\ \A t \in Txs : tx[t].pc = "idle" => locks[t] = {}
BY DEF TypeOK, Tran, Stages, At

LEMMA DraftIs ==
  ASSUME NEW d \in Drafts
  PROVE  /\ d \in Event
         /\ d.kind \in Linked => d.target \in Ids
         /\ d.via = "rpc" \/ d.via = "gateway"
         /\ d.id \in Ids /\ d.key \in Keys
BY DEF Event

LEMMA FailKeeps ==
  ASSUME IInv, NEW t \in Txs, Fail(t)
  PROVE  IInv'
<1>1. /\ tx' \in [Txs -> Tran] /\ locks' \in [Txs -> SUBSET Locks]
      /\ tx'[t] = Idle /\ locks'[t] = {} /\ Others(t)
      /\ events' = events /\ late' = late
  BY TypeParts, FailIs DEF IInv
<1>2. tx'[t].pc = "idle"
  BY <1>1, IdleType
<1>3. Good(t)'
  BY <1>1, <1>2 DEF Good, Holds, KeyHeld, TargetHeld, SourceHeld, CorrectedHeld, LockStage, Staged,
     Checked, CheckedReversal, CheckedCorrection, CheckedUndo, CheckedConsumption, Clear,
     KeyUnused, Converges, InTrigger
<1> QED BY <1>1, <1>2, <1>3, Assemble

LEMMA CallKeeps ==
  ASSUME IInv, NEW t \in Txs, Call(t)
  PROVE  IInv'
<1>1. /\ tx' \in [Txs -> Tran] /\ locks' = locks /\ events' = events /\ late' = late
      /\ tx[t].pc = "idle"
      /\ tx'[t].draft \in Drafts
      /\ tx'[t].pc = IF tx'[t].draft.via = "rpc" THEN "key" ELSE "read"
      /\ Others(t)
  BY TypeParts, CallIs DEF IInv
<1>2. locks'[t] = {}
  BY <1>1, TypeParts DEF IInv
<1>3. tx'[t].pc = "key" \/ (tx'[t].pc = "read" /\ tx'[t].draft.via # "rpc")
  BY <1>1
<1>4. Good(t)'
  <2>1. Holds(t)'
    BY <1>2, <1>3 DEF Holds, KeyHeld, TargetHeld, SourceHeld, CorrectedHeld, LockStage, InTrigger
  <2>2. Staged(t)'
    BY <1>3 DEF Staged
  <2>3. Checked(t)'
    BY <1>3 DEF Checked, CheckedReversal, CheckedCorrection, CheckedUndo, CheckedConsumption
  <2>4. Clear(t)' /\ KeyUnused(t)' /\ Converges(t)'
    BY <1>3 DEF Clear, KeyUnused, Converges, InTrigger
  <2> QED BY <2>1, <2>2, <2>3, <2>4 DEF Good
<1>5. tx'[t].pc # "inserted" /\ tx'[t].pc # "idle"
  BY <1>3
<1>6. locks' \in [Txs -> SUBSET Locks]
  BY <1>1, TypeParts DEF IInv
<1> QED BY <1>1, <1>2, <1>4, <1>5, <1>6, Assemble

LEMMA ReadRowKeeps ==
  ASSUME IInv, NEW t \in Txs, ReadRow(t)
  PROVE  IInv'
<1> DEFINE d == tx[t].draft
<1>1. tx[t].pc = "read" /\ locks[t] = {} /\ d.via # "rpc"
  BY DEF ReadRow, At, IInv, Good, Holds, LockStage, Staged
<1>2. /\ tx \in [Txs -> Tran] /\ locks \in [Txs -> SUBSET Locks] /\ d \in Drafts
  BY <1>1, TypeParts DEF IInv
<1>3. CASE Fail(t)
  BY <1>3, FailKeeps
<1>4. CASE Goto(t, FirstStage(d)) /\ UNCHANGED <<events, late, locks>>
  <2>1. FirstStage(d) \in Stages
    BY DEF FirstStage, Stages
  <2>2. /\ tx' \in [Txs -> Tran] /\ tx'[t].pc = FirstStage(d) /\ tx'[t].draft = d
        /\ \A u \in Txs : u # t => tx'[u] = tx[u]
    BY <1>2, <1>4, <2>1, GotoIs
  <2>3. locks' = locks /\ events' = events /\ late' = late
    BY <1>4
  <2>4. \/ tx'[t].pc = "target" /\ d.kind \in Linked
        \/ tx'[t].pc = "source" /\ Capped(d) /\ d.kind \notin Linked
        \/ tx'[t].pc = "insert" /\ ~Capped(d) /\ d.kind \notin Linked
    BY <2>2 DEF FirstStage
  <2>5. Holds(t)'
    BY <1>1, <2>2, <2>3, <2>4
    DEF Holds, KeyHeld, TargetHeld, SourceHeld, CorrectedHeld, LockStage, Linked, Capped
  <2>6. Staged(t)'
    BY <2>2, <2>4 DEF Staged, Capped
  <2>7. Checked(t)'
    BY <2>2, <2>4 DEF Checked, CheckedReversal, CheckedCorrection, CheckedUndo, CheckedConsumption, Linked, Capped
  <2>8. Clear(t)' /\ KeyUnused(t)' /\ Converges(t)'
    BY <1>1, <2>2, <2>3, <2>4 DEF Clear, KeyUnused, Converges
  <2>9. Good(t)'
    BY <2>5, <2>6, <2>7, <2>8 DEF Good
  <2>10. /\ Others(t) /\ tx'[t].pc # "inserted" /\ tx'[t].pc # "idle"
         /\ \A u \in Txs : u # t => locks'[t] \cap locks[u] = {}
    BY <1>1, <2>2, <2>3, <2>4 DEF Others
  <2> QED BY <1>2, <2>2, <2>3, <2>9, <2>10, Assemble
<1> QED BY <1>3, <1>4 DEF ReadRow

LEMMA LocksDiffer ==
  \A k, i, s : /\ KeyLock(k) # RowLock(i)
               /\ KeyLock(k) # SourceLock(s)
               /\ RowLock(i) # SourceLock(s)
BY DEF KeyLock, RowLock, SourceLock

LEMMA LockKeyKeeps ==
  ASSUME IInv, NEW t \in Txs, LockKey(t)
  PROVE  IInv'
<1> DEFINE d == tx[t].draft
<1>1. /\ events' = events /\ late' = late /\ tx[t].pc = "key"
      /\ Take(t, KeyLock(d.key)) /\ Goto(t, "lookup")
  BY DEF LockKey, book, At
<1>2. /\ tx \in [Txs -> Tran] /\ locks \in [Txs -> SUBSET Locks] /\ d \in Drafts
  BY <1>1, TypeParts DEF IInv
<1>3. KeyLock(d.key) \in Locks
  BY <1>2, DraftIs DEF Locks
<1>4. /\ tx' \in [Txs -> Tran] /\ tx'[t].pc = "lookup" /\ tx'[t].draft = d
      /\ \A u \in Txs : u # t => tx'[u] = tx[u]
  BY <1>1, <1>2, GotoIs DEF Stages
<1>5. /\ locks' \in [Txs -> SUBSET Locks]
      /\ locks'[t] = locks[t] \cup {KeyLock(d.key)}
      /\ \A u \in Txs : u # t => locks'[u] = locks[u] /\ KeyLock(d.key) \notin locks[u]
  BY <1>1, <1>2, <1>3, TakeIs
<1>6. locks[t] = {}
  BY <1>1 DEF IInv, Good, Holds, LockStage
<1>7. Holds(t)'
  BY <1>4, <1>5, <1>6
  DEF Holds, KeyHeld, TargetHeld, SourceHeld, CorrectedHeld, LockStage, InTrigger, KeyLock, RowLock, SourceLock
<1>8. Good(t)'
  BY <1>4, <1>7 DEF Good, Staged, Checked, CheckedReversal, CheckedCorrection, CheckedUndo,
     CheckedConsumption, Clear, KeyUnused, Converges, InTrigger
<1>9. Others(t) /\ \A u \in Txs : u # t => locks'[t] \cap locks[u] = {}
  BY <1>4, <1>5, <1>6 DEF Others
<1> QED BY <1>1, <1>2, <1>4, <1>5, <1>8, <1>9, Assemble

LEMMA LookupKeeps ==
  ASSUME IInv, NEW t \in Txs, Lookup(t)
  PROVE  IInv'
<1> DEFINE d == tx[t].draft
           known == {e \in events : e.id = d.id \/ e.key = d.key}
<1>1. tx[t].pc = "lookup"
  BY DEF Lookup, At
<1>2. /\ tx \in [Txs -> Tran] /\ locks \in [Txs -> SUBSET Locks] /\ d \in Drafts
      /\ events \subseteq Drafts
  BY <1>1, TypeParts DEF IInv
<1>3. CASE known = {} /\ Goto(t, FirstStage(d)) /\ UNCHANGED <<events, late, locks>>
  <2>1. FirstStage(d) \in Stages
    BY DEF FirstStage, Stages
  <2>2. /\ tx' \in [Txs -> Tran] /\ tx'[t].pc = FirstStage(d) /\ tx'[t].draft = d
        /\ \A u \in Txs : u # t => tx'[u] = tx[u]
    BY <1>2, <1>3, <2>1, GotoIs
  <2>3. locks' = locks /\ events' = events /\ late' = late
    BY <1>3
  <2>4. \/ tx'[t].pc = "target" /\ d.kind \in Linked
        \/ tx'[t].pc = "source" /\ Capped(d) /\ d.kind \notin Linked
        \/ tx'[t].pc = "insert" /\ ~Capped(d) /\ d.kind \notin Linked
    BY <2>2 DEF FirstStage
  <2>5. /\ d.via = "rpc" => KeyLock(d.key) \in locks[t]
        /\ \A i \in Ids : RowLock(i) \notin locks[t]
        /\ \A s \in Sources : SourceLock(s) \notin locks[t]
    BY <1>1 DEF IInv, Good, Holds, KeyHeld, LockStage
  <2>6. Holds(t)'
    BY <2>2, <2>3, <2>4, <2>5
    DEF Holds, KeyHeld, TargetHeld, SourceHeld, CorrectedHeld, LockStage, Linked, Capped
  <2>7. Staged(t)'
    BY <2>2, <2>4 DEF Staged, Capped
  <2>8. Checked(t)'
    BY <2>2, <2>4 DEF Checked, CheckedReversal, CheckedCorrection, CheckedUndo, CheckedConsumption, Linked, Capped
  <2>9. \A e \in events : e.key # d.key
    BY <1>3
  <2>10. Clear(t)' /\ KeyUnused(t)' /\ Converges(t)'
    BY <2>2, <2>3, <2>4, <2>9 DEF Clear, KeyUnused, Converges
  <2>11. Good(t)'
    BY <2>6, <2>7, <2>8, <2>10 DEF Good
  <2>12. /\ Others(t) /\ tx'[t].pc # "inserted" /\ tx'[t].pc # "idle"
         /\ \A u \in Txs : u # t => locks'[t] \cap locks[u] = {}
    BY <2>2, <2>3, <2>4 DEF Others, IInv, Exclusive
  <2> QED BY <1>2, <2>2, <2>3, <2>11, <2>12, Assemble
<1>4. CASE \E e \in known : (\A f \in known : SameEvent(d, f)) /\ Answer(t, e.id) /\ UNCHANGED book
  <2>1. PICK e \in known : SameEvent(d, e) /\ Answer(t, e.id) /\ UNCHANGED book
    BY <1>4
  <2>2. e \in events /\ e.id \in Ids
    BY <1>2, DraftIs
  <2>3. /\ tx' \in [Txs -> Tran] /\ locks' \in [Txs -> SUBSET Locks]
        /\ tx'[t].pc = "answered" /\ tx'[t].draft = d /\ tx'[t].answer = e.id
        /\ locks'[t] = {}
        /\ Others(t)
    BY <1>2, <2>1, <2>2, AnswerIs
  <2>4. events' = events /\ late' = late
    BY <2>1 DEF book
  <2>5. Converges(t)'
    BY <2>1, <2>2, <2>3, <2>4 DEF Converges, SameEvent
  <2>6. Good(t)'
    BY <2>3, <2>5 DEF Good, Holds, KeyHeld, TargetHeld, SourceHeld, CorrectedHeld, LockStage, Staged,
       Checked, CheckedReversal, CheckedCorrection, CheckedUndo, CheckedConsumption, Clear,
       KeyUnused, InTrigger
  <2> QED BY <1>2, <2>3, <2>4, <2>6, Assemble
<1>5. CASE Fail(t)
  BY <1>5, FailKeeps
<1> QED BY <1>3, <1>4, <1>5 DEF Lookup

LEMMA LockTargetKeeps ==
  ASSUME IInv, NEW t \in Txs, LockTarget(t)
  PROVE  IInv'
<1> DEFINE d == tx[t].draft
           i == d.target
<1>1. tx[t].pc = "target"
  BY DEF LockTarget, At
<1>2. /\ tx \in [Txs -> Tran] /\ locks \in [Txs -> SUBSET Locks] /\ d \in Drafts
  BY <1>1, TypeParts DEF IInv
<1>3. d.kind \in Linked /\ i \in Ids
  BY <1>1, <1>2, DraftIs DEF IInv, Good, Staged
<1>4. /\ tx' \in [Txs -> Tran] /\ locks' \in [Txs -> SUBSET Locks]
      /\ events' = events /\ late' = late
      /\ tx'[t].pc = "check" /\ tx'[t].draft = d
      /\ Others(t)
      /\ \/ /\ tx'[t].unlocked = FALSE
            /\ locks'[t] = locks[t] \cup {RowLock(i)}
            /\ \A u \in Txs : u # t => RowLock(i) \notin locks[u]
         \/ tx'[t].unlocked = TRUE /\ locks'[t] = locks[t]
  BY <1>2, <1>3, LockTargetIs
<1>5. \A u \in Txs : u # t => locks'[t] \cap locks[u] = {}
  <2>1. \A u \in Txs : u # t => locks[t] \cap locks[u] = {}
    BY DEF IInv, Exclusive
  <2> QED BY <1>4, <2>1
<1>6. /\ d.via = "rpc" => KeyLock(d.key) \in locks[t]
      /\ \A s \in Sources : SourceLock(s) \notin locks[t]
  BY <1>1 DEF IInv, Good, Holds, KeyHeld, LockStage, InTrigger
<1>7. ~Capped(d)
  BY <1>3 DEF Capped, Linked
<1>8. Holds(t)'
  <2>1. KeyHeld(t)' /\ TargetHeld(t)' /\ CorrectedHeld(t)'
    BY <1>4, <1>6 DEF KeyHeld, TargetHeld, CorrectedHeld
  <2>2. SourceHeld(t)'
    BY <1>4, <1>7 DEF SourceHeld, Capped
  <2>3. \A s \in Sources : SourceLock(s) \notin locks'[t]
    BY <1>4, <1>6, LocksDiffer
  <2>4. LockStage(t)'
    BY <1>4, <2>3 DEF LockStage
  <2> QED BY <2>1, <2>2, <2>4 DEF Holds
<1>9. KeyUnused(t)'
  BY <1>1, <1>4 DEF IInv, Good, KeyUnused, InTrigger
<1>10. Good(t)'
  BY <1>4, <1>8, <1>9 DEF Good, Staged, Checked, CheckedReversal, CheckedCorrection, CheckedUndo,
     CheckedConsumption, Clear, Converges
<1> QED BY <1>2, <1>4, <1>5, <1>10, Assemble

LEMMA CheckKeeps ==
  ASSUME IInv, NEW t \in Txs, Check(t)
  PROVE  IInv'
<1> DEFINE d == tx[t].draft
<1>1. tx[t].pc = "check"
  BY DEF Check, At
<1>2. /\ tx \in [Txs -> Tran] /\ locks \in [Txs -> SUBSET Locks] /\ d \in Drafts
  BY <1>1, TypeParts DEF IInv
<1>3. CASE Permitted(d) /\ Goto(t, AfterCheck(d)) /\ UNCHANGED <<events, late, locks>>
  <2>1. AfterCheck(d) \in Stages
    BY DEF AfterCheck, Stages
  <2>2. /\ tx' \in [Txs -> Tran] /\ tx'[t].pc = AfterCheck(d) /\ tx'[t].draft = d
        /\ tx'[t].unlocked = tx[t].unlocked
        /\ \A u \in Txs : u # t => tx'[u] = tx[u]
    BY <1>2, <1>3, <2>1, GotoIs
  <2>3. locks' = locks /\ events' = events /\ late' = late
    BY <1>3
  <2>4. d.kind = "CONSUMPTION_CORRECTION" =>
          Refers("INBOUND_CONSUMPTION", d) /\ CorrectionMatches(d)
    BY <1>3 DEF Permitted, CorrectionFits, CorrectionMatches
  <2>5. d.kind = "CONSUMPTION_CORRECTION" =>
          \A e \in events : e.id = d.target => e.source = SourceOf(d)
    <3>1. SUFFICES ASSUME d.kind = "CONSUMPTION_CORRECTION", NEW f \in events, f.id = d.target
                   PROVE  f.source = SourceOf(d)
      OBVIOUS
    <3> DEFINE c == CHOOSE e \in events : e.id = d.target
    <3>2. c \in events /\ c.id = d.target
      BY <3>1
    <3>3. SourceOf(d) = c.source
      BY <3>1, Zenon DEF SourceOf
    <3> HIDE DEF c
    <3>4. c = f
      BY <3>1, <3>2 DEF IInv, Unique
    <3> QED BY <3>3, <3>4
  <2>6. \/ /\ tx'[t].pc = "source" /\ d.kind = "CONSUMPTION_CORRECTION"
           /\ \E e \in events : e.id = d.target /\ e.source # None
        \/ /\ tx'[t].pc = "insert"
           /\ d.kind = "CONSUMPTION_CORRECTION" =>
                \A e \in events : e.id = d.target => e.source = None
    BY <2>2, <2>4, <2>5 DEF AfterCheck, Refers
  <2>7. /\ d.via = "rpc" => KeyLock(d.key) \in locks[t]
        /\ d.kind = "REVERSAL" => tx[t].unlocked \/ RowLock(d.target) \in locks[t]
        /\ Capped(d) => SourceLock(d.source) \in locks[t]
        /\ (\E s \in Sources : SourceLock(s) \in locks[t]) => Capped(d)
    BY <1>1 DEF IInv, Good, Holds, KeyHeld, TargetHeld, SourceHeld, LockStage, InTrigger
  <2>8. Holds(t)'
    <3>1. KeyHeld(t)' /\ TargetHeld(t)' /\ SourceHeld(t)' /\ CorrectedHeld(t)'
      BY <2>2, <2>3, <2>6, <2>7 DEF KeyHeld, TargetHeld, SourceHeld, CorrectedHeld, Capped
    <3>2. LockStage(t)'
      BY <2>2, <2>3, <2>6, <2>7 DEF LockStage, Capped
    <3> QED BY <3>1, <3>2 DEF Holds
  <2>9. Staged(t)'
    BY <2>2, <2>3, <2>6 DEF Staged
  <2>10. CheckedReversal(t)'
    BY <1>3, <2>2, <2>3, BookSame DEF CheckedReversal, Permitted
  <2>11. CheckedCorrection(t)'
    BY <2>2, <2>3, <2>4, BookSame DEF CheckedCorrection, CorrectionMatches
  <2>12. CheckedUndo(t)'
    BY <1>3, <2>2, <2>3, BookSame DEF CheckedUndo, UndoMatches, Permitted, ConsumptionReversalFits
  <2>13. CheckedConsumption(t)'
    BY <1>3, <2>2, <2>3, BookSame DEF CheckedConsumption, Permitted, Capped
  <2>14. KeyUnused(t)'
    BY <1>1, <2>2, <2>3 DEF IInv, Good, KeyUnused, InTrigger
  <2>15. Good(t)'
    BY <2>6, <2>8, <2>9, <2>10, <2>11, <2>12, <2>13, <2>14 DEF Good, Checked, Clear, Converges
  <2>16. /\ Others(t) /\ tx'[t].pc # "inserted" /\ tx'[t].pc # "idle"
         /\ \A u \in Txs : u # t => locks'[t] \cap locks[u] = {}
    BY <2>2, <2>3, <2>6 DEF Others, IInv, Exclusive
  <2> QED BY <1>2, <2>2, <2>3, <2>15, <2>16, Assemble
<1>4. CASE Fail(t)
  BY <1>4, FailKeeps
<1> QED BY <1>3, <1>4 DEF Check

LEMMA LockSourceKeeps ==
  ASSUME IInv, NEW t \in Txs, LockSource(t)
  PROVE  IInv'
<1> DEFINE d == tx[t].draft
           s == SourceOf(d)
           pc == IF Capped(d) THEN "check" ELSE "insert"
<1>1. /\ events' = events /\ late' = late /\ tx[t].pc = "source"
      /\ Take(t, SourceLock(s)) /\ Goto(t, pc)
  BY DEF LockSource, book, At
<1>2. /\ tx \in [Txs -> Tran] /\ locks \in [Txs -> SUBSET Locks] /\ d \in Drafts
      /\ events \subseteq Drafts
  BY <1>1, TypeParts DEF IInv
<1>3. \/ Capped(d) /\ s = d.source
      \/ /\ ~Capped(d) /\ d.kind = "CONSUMPTION_CORRECTION"
         /\ \E e \in events : e.id = d.target /\ e.source = s /\ e.source # None
  <2>1. CASE Capped(d)
    BY <2>1 DEF SourceOf, Capped
  <2>2. CASE ~Capped(d)
    <3>1. PICK f \in events : d.kind = "CONSUMPTION_CORRECTION" /\ f.id = d.target /\ f.source # None
      BY <1>1, <2>2 DEF IInv, Good, Staged
    <3> DEFINE c == CHOOSE e \in events : e.id = d.target
    <3>2. c \in events /\ c.id = d.target
      BY <3>1
    <3>3. SourceOf(d) = c.source
      BY <3>1, Zenon DEF SourceOf
    <3> HIDE DEF c
    <3>4. c = f
      BY <3>1, <3>2 DEF IInv, Unique
    <3> QED BY <2>2, <3>1, <3>3, <3>4
  <2> QED BY <2>1, <2>2
<1> HIDE DEF s
<1>4. s \in Sources
  <2>1. CASE Capped(d)
    BY <1>2, <1>3, <2>1, DraftIs DEF Capped, Event
  <2>2. CASE ~Capped(d)
    BY <1>2, <1>3, <2>2, DraftIs DEF Event
  <2> QED BY <2>1, <2>2
<1>5. SourceLock(s) \in Locks
  BY <1>4 DEF Locks
<1>6. /\ tx' \in [Txs -> Tran] /\ tx'[t].pc = pc /\ tx'[t].draft = d
      /\ tx'[t].unlocked = tx[t].unlocked
      /\ \A u \in Txs : u # t => tx'[u] = tx[u]
  <2>1. pc \in Stages
    BY DEF Stages
  <2> QED BY <1>1, <1>2, <2>1, GotoIs
<1>7. /\ locks' \in [Txs -> SUBSET Locks]
      /\ locks'[t] = locks[t] \cup {SourceLock(s)}
      /\ \A u \in Txs : u # t => locks'[u] = locks[u] /\ SourceLock(s) \notin locks[u]
  BY <1>1, <1>2, <1>5, TakeIs
<1>8. d.via = "rpc" => KeyLock(d.key) \in locks[t]
  BY <1>1 DEF IInv, Good, Holds, KeyHeld, InTrigger
<1>9. Holds(t)'
  <2>1. KeyHeld(t)'
    BY <1>6, <1>7, <1>8 DEF KeyHeld
  <2>2. TargetHeld(t)' /\ SourceHeld(t)' /\ LockStage(t)'
    BY <1>3, <1>6, <1>7 DEF TargetHeld, SourceHeld, LockStage, Capped
  <2>3. CorrectedHeld(t)'
    <3> SUFFICES ASSUME ~Capped(d), NEW f \in events, f.id = d.target
                 PROVE  f.source = None \/ SourceLock(f.source) \in locks'[t]
      BY <1>1, <1>6 DEF CorrectedHeld, Capped
    <3>1. f.source = s
      BY <1>3 DEF IInv, Unique
    <3> QED BY <1>7, <3>1
  <2> QED BY <2>1, <2>2, <2>3 DEF Holds
<1>10. CheckedCorrection(t)'
  <2>1. d.kind = "CONSUMPTION_CORRECTION" =>
          Refers("INBOUND_CONSUMPTION", d) /\ CorrectionMatches(d)
    BY <1>1 DEF IInv, Good, Checked, CheckedCorrection
  <2> QED BY <1>1, <1>6, <2>1, BookSame DEF CheckedCorrection, CorrectionMatches
<1>11. CheckedReversal(t)' /\ CheckedUndo(t)' /\ CheckedConsumption(t)'
  BY <1>3, <1>6 DEF CheckedReversal, CheckedUndo, CheckedConsumption, Capped
<1>12. KeyUnused(t)'
  BY <1>1, <1>6 DEF IInv, Good, KeyUnused, InTrigger
<1>13. Good(t)'
  BY <1>6, <1>9, <1>10, <1>11, <1>12 DEF Good, Staged, Checked, Clear, Converges
<1>14. /\ Others(t) /\ tx'[t].pc # "inserted" /\ tx'[t].pc # "idle"
       /\ \A u \in Txs : u # t => locks'[t] \cap locks[u] = {}
  <2>1. \A u \in Txs : u # t => locks[t] \cap locks[u] = {}
    BY DEF IInv, Exclusive
  <2> QED BY <1>6, <1>7, <2>1 DEF Others
<1> QED BY <1>1, <1>2, <1>6, <1>7, <1>13, <1>14, Assemble

LEMMA InsertKeeps ==
  ASSUME IInv, NEW t \in Txs, Insert(t)
  PROVE  IInv'
<1> DEFINE d == tx[t].draft
<1>1. tx[t].pc = "insert" /\ \A u \in Inserted : ~Conflicts(d, tx[u].draft)
  BY DEF Insert, At
<1>2. /\ tx \in [Txs -> Tran] /\ locks \in [Txs -> SUBSET Locks] /\ d \in Drafts
  BY <1>1, TypeParts DEF IInv
<1>3. CASE /\ \A e \in events : ~Conflicts(d, e)
           /\ Goto(t, "inserted") /\ UNCHANGED <<events, late, locks>>
  <2>1. /\ tx' \in [Txs -> Tran] /\ tx'[t].pc = "inserted" /\ tx'[t].draft = d
        /\ tx'[t].unlocked = tx[t].unlocked
        /\ \A u \in Txs : u # t => tx'[u] = tx[u]
    BY <1>2, <1>3, GotoIs DEF Stages
  <2>2. locks' = locks /\ events' = events /\ late' = late
    BY <1>3
  <2>3. Holds(t)'
    BY <1>1, <2>1, <2>2
    DEF IInv, Good, Holds, KeyHeld, TargetHeld, SourceHeld, CorrectedHeld, LockStage, InTrigger, Capped
  <2>4. CheckedReversal(t)'
    <3>1. d.kind = "REVERSAL" =>
            /\ Refers("SALES_ALLOCATION", d)
            /\ \/ tx[t].unlocked
               \/ \E e \in Links("REVERSAL", d.target) : e.id \in late
               \/ ReversalFits(d)
      BY <1>1 DEF IInv, Good, Checked, CheckedReversal
    <3> QED BY <2>1, <2>2, <3>1, BookSame DEF CheckedReversal
  <2>5. CheckedCorrection(t)'
    <3>1. d.kind = "CONSUMPTION_CORRECTION" =>
            Refers("INBOUND_CONSUMPTION", d) /\ CorrectionMatches(d)
      BY <1>1 DEF IInv, Good, Checked, CheckedCorrection
    <3> QED BY <2>1, <2>2, <3>1, BookSame DEF CheckedCorrection, CorrectionMatches
  <2>6. CheckedUndo(t)'
    <3>1. d.kind = "CONSUMPTION_REVERSAL" => Refers("OUTBOUND_CONSUMPTION", d) /\ UndoMatches(d)
      BY <1>1 DEF IInv, Good, Checked, CheckedUndo
    <3> QED BY <2>1, <2>2, <3>1, BookSame DEF CheckedUndo, UndoMatches
  <2>7. CheckedConsumption(t)'
    <3>1. Capped(d) => InboundFits(d) \/ Unchecked(d)
      BY <1>1 DEF IInv, Good, Checked, CheckedConsumption
    <3> QED BY <2>1, <2>2, <3>1, BookSame DEF CheckedConsumption, Capped
  <2>8. Clear(t)'
    BY <1>3, <2>1, <2>2 DEF Clear
  <2>9. KeyUnused(t)'
    BY <1>1, <2>1, <2>2 DEF IInv, Good, KeyUnused, InTrigger
  <2>10. Good(t)'
    BY <2>1, <2>3, <2>4, <2>5, <2>6, <2>7, <2>8, <2>9 DEF Good, Staged, Checked, Converges
  <2>11. /\ Others(t)
         /\ \A u \in Txs : u # t => locks'[t] \cap locks[u] = {}
         /\ \A u \in Txs : u # t /\ tx[u].pc = "inserted" => ~Conflicts(tx'[t].draft, tx[u].draft)
    BY <1>1, <2>1, <2>2 DEF Others, IInv, Exclusive, Inserted, At
  <2> QED BY <1>2, <2>1, <2>2, <2>10, <2>11, Assemble
<1>4. CASE Fail(t)
  BY <1>4, FailKeeps
<1> QED BY <1>3, <1>4 DEF Insert

LEMMA CommitIs ==
  ASSUME IInv, NEW t \in Txs, Commit(t)
  PROVE  /\ tx[t].pc = "inserted" /\ tx[t].draft \in Drafts
         /\ Added(tx[t].draft)
         /\ late' = IF tx[t].draft.kind = "REVERSAL" /\ tx[t].unlocked
                      THEN late \cup {tx[t].draft.id} ELSE late
         /\ tx' \in [Txs -> Tran] /\ locks' \in [Txs -> SUBSET Locks]
         /\ tx'[t].pc = "answered" /\ tx'[t].draft = tx[t].draft
         /\ tx'[t].answer = tx[t].draft.id /\ locks'[t] = {}
         /\ Others(t)
<1> DEFINE d == tx[t].draft
<1>1. /\ tx[t].pc = "inserted" /\ events' = events \cup {d} /\ Answer(t, d.id)
      /\ late' = IF d.kind = "REVERSAL" /\ tx[t].unlocked THEN late \cup {d.id} ELSE late
  BY DEF Commit, At
<1>2. /\ tx \in [Txs -> Tran] /\ locks \in [Txs -> SUBSET Locks] /\ d \in Drafts /\ d.id \in Ids
  BY <1>1, TypeParts, DraftIs DEF IInv
<1>3. Added(d)
  BY <1>1, <1>2 DEF Added, IInv, Good, Clear
<1>4. /\ tx' \in [Txs -> Tran] /\ locks' \in [Txs -> SUBSET Locks]
      /\ tx'[t].pc = "answered" /\ tx'[t].draft = d /\ tx'[t].answer = d.id /\ locks'[t] = {}
      /\ Others(t)
  BY <1>1, <1>2, AnswerIs
<1> QED BY <1>1, <1>2, <1>3, <1>4

LEMMA CommitKeeps ==
  ASSUME IInv, NEW t \in Txs, Commit(t)
  PROVE  IInv'
<1> DEFINE d == tx[t].draft
<1>1. /\ tx[t].pc = "inserted" /\ d \in Drafts /\ d.id \in Ids
      /\ Added(d) /\ events' = events \cup {d}
      /\ tx' \in [Txs -> Tran] /\ locks' \in [Txs -> SUBSET Locks]
      /\ tx'[t].pc = "answered" /\ tx'[t].draft = d /\ tx'[t].answer = d.id /\ locks'[t] = {}
      /\ \A u \in Txs : u # t => tx'[u] = tx[u] /\ locks'[u] = locks[u]
  BY CommitIs, DraftIs DEF Others, Added
<1>2. late' = IF d.kind = "REVERSAL" /\ tx[t].unlocked THEN late \cup {d.id} ELSE late
  BY CommitIs
<1>3. TypeOK'
  <2>1. events' \subseteq Drafts /\ late' \subseteq Ids
    BY <1>1, <1>2, TypeParts DEF IInv
  <2>2. \A u \in Txs : IF tx'[u].pc = "idle" THEN locks'[u] = {} ELSE tx'[u].draft \in Drafts
    <3> TAKE u \in Txs
    <3>1. CASE u = t
      BY <1>1, <3>1
    <3>2. CASE u # t
      BY <1>1, <3>2, TypeParts DEF IInv
    <3> QED BY <3>1, <3>2
  <2> QED BY <1>1, <2>1, <2>2 DEF TypeOK, Tran, Stages, At
<1>4. Unique'
  BY <1>1 DEF IInv, Unique, Added, Conflicts
<1>5. Exclusive'
  BY <1>1 DEF IInv, Exclusive
<1>6. Apart'
  <2> SUFFICES ASSUME NEW v \in Txs, NEW w \in Txs, v # w,
                      tx'[v].pc = "inserted", tx'[w].pc = "inserted"
               PROVE  ~Conflicts(tx'[v].draft, tx'[w].draft)
    BY DEF Apart, Conflicts
  <2> QED BY <1>1 DEF IInv, Apart
<1>7. Good(t)'
  <2>1. Converges(t)'
    BY <1>1 DEF Converges
  <2> QED BY <1>1, <2>1 DEF Good, Holds, KeyHeld, TargetHeld, SourceHeld, CorrectedHeld, LockStage, Staged,
          Checked, CheckedReversal, CheckedCorrection, CheckedUndo, CheckedConsumption, Clear,
          KeyUnused, InTrigger
<1>8. ASSUME NEW u \in Txs, u # t
      PROVE  Good(u)'
  BY <1>1, <1>2, <1>8, CommitKeepsGood DEF IInv
<1> QED BY <1>3, <1>4, <1>5, <1>6, <1>7, <1>8 DEF IInv

-----------------------------------------------------------------------------
(***************************************************************************)
(* The theorems.                                                           *)
(***************************************************************************)
LEMMA InitIInv == Init => IInv
<1> SUFFICES ASSUME Init
             PROVE  IInv
  OBVIOUS
<1>1. /\ events = {} /\ late = {}
      /\ tx \in [Txs -> Tran] /\ locks \in [Txs -> SUBSET Locks]
      /\ \A t \in Txs : tx[t].pc = "idle" /\ locks[t] = {}
  BY IdleType DEF Init, BookInit
<1>2. TypeOK
  BY <1>1 DEF TypeOK, Tran, Stages, At
<1>3. ASSUME NEW t \in Txs
      PROVE  Good(t)
  BY <1>1, <1>3 DEF Good, Holds, KeyHeld, TargetHeld, SourceHeld, CorrectedHeld, LockStage, Staged,
     Checked, CheckedReversal, CheckedCorrection, CheckedUndo, CheckedConsumption, Clear,
     KeyUnused, Converges, InTrigger
<1>4. Unique /\ Exclusive /\ Apart
  BY <1>1 DEF Unique, Exclusive, Apart
<1> QED BY <1>2, <1>3, <1>4 DEF IInv

LEMMA NextIInv == IInv /\ [Next]_vars => IInv'
<1> SUFFICES ASSUME IInv, [Next]_vars
             PROVE  IInv'
  OBVIOUS
<1>1. CASE UNCHANGED vars
  <2>1. tx' = tx /\ locks' = locks /\ events' = events /\ late' = late
    BY <1>1 DEF vars
  <2>2. TypeOK' /\ Unique' /\ Exclusive' /\ Apart'
    BY <2>1 DEF IInv, TypeOK, At, Unique, Exclusive, Apart, Conflicts
  <2>3. \A u \in Txs : Good(u)'
    BY <2>1, KeepsGood DEF IInv
  <2> QED BY <2>2, <2>3 DEF IInv
<1>2. CASE Next
  <2>1. PICK t \in Txs :
          \/ Call(t) \/ ReadRow(t) \/ LockKey(t) \/ Lookup(t) \/ LockTarget(t) \/ Check(t)
          \/ LockSource(t) \/ PushAgain(t) \/ Insert(t) \/ Commit(t) \/ Rollback(t) \/ Return(t)
    BY <1>2 DEF Next
  <2>2. CASE Call(t)
    BY <2>2, CallKeeps
  <2>3. CASE LockKey(t)
    BY <2>3, LockKeyKeeps
  <2>4. CASE Lookup(t)
    BY <2>4, LookupKeeps
  <2>5. CASE LockTarget(t)
    BY <2>5, LockTargetKeeps
  <2>6. CASE Check(t)
    BY <2>6, CheckKeeps
  <2>7. CASE LockSource(t)
    BY <2>7, LockSourceKeeps
  <2>8. CASE Insert(t)
    BY <2>8, InsertKeeps
  <2>9. CASE Commit(t)
    BY <2>9, CommitKeeps
  <2>10. CASE ReadRow(t)
    BY <2>10, ReadRowKeeps
  <2>11. CASE PushAgain(t) \/ Rollback(t) \/ Return(t)
    BY <2>11, FailKeeps DEF PushAgain, Rollback, Return
  <2> QED BY <2>1, <2>2, <2>3, <2>4, <2>5, <2>6, <2>7, <2>8, <2>9, <2>10, <2>11
<1> QED BY <1>1, <1>2

LEMMA SpecIInv == Spec => []IInv
BY InitIInv, NextIInv, PTL DEF Spec

\* Every transaction and lock keeps its shape.
THEOREM TypeCorrect == Spec => []TypeOK
<1>1. IInv => TypeOK
  BY DEF IInv
<1> QED BY <1>1, SpecIInv, PTL

\* An answered append is stored under the answered id, with its key and its
\* economics, whatever the others did meanwhile.
THEOREM RetriesConvergeHolds == Spec => []RetriesConverge
<1>1. IInv => RetriesConverge
  BY DEF IInv, Good, Converges, RetriesConverge, At
<1> QED BY <1>1, SpecIInv, PTL

\* Between the lookup of an RPC and its commit no other RPC uses its key.
THEOREM OnlyDirectOvertakesHolds == Spec => []OnlyDirectOvertakes
<1>1. IInv => OnlyDirectOvertakes
  BY DEF IInv, Good, KeyUnused, OnlyDirectOvertakes, InTrigger
<1> QED BY <1>1, SpecIInv, PTL

\* The locks of any number of transactions are taken in one order: nobody
\* waits in a circle, unless somebody in it pushes an event that was committed
\* since its gateway read that there is none.
THEOREM NoCircularWaitHolds == Spec => []NoCircularWait
<1>1. IInv => NoCircularWait
  <2> SUFFICES ASSUME IInv, NEW t \in Txs, NEW u \in Txs, Waits(t, u)
               PROVE  Rank(t) < Rank(u) \/ RowLast(t)
    BY DEF NoCircularWait
  <2>1. /\ tx \in [Txs -> Tran] /\ locks \in [Txs -> SUBSET Locks] /\ events \subseteq Drafts
        /\ \A v \in Txs : tx[v].pc # "idle" => tx[v].draft \in Drafts
    BY TypeParts DEF IInv
  <2>2. tx[u].pc \in Stages
    BY <2>1 DEF Tran
  <2>3. LockStage(u)
    BY DEF IInv, Good, Holds
  <2>4. CASE At(t, "key") /\ KeyLock(tx[t].draft.key) \in locks[u]
    <3>1. tx[u].pc \notin {"idle", "read", "key", "answered"} /\ locks[u] # {}
      BY <2>3, <2>4 DEF LockStage
    <3>2. Rank(t) = 1
      BY <2>4 DEF Rank, At
    <3>3. Rank(u) \in {2, 3, 4, 5}
      BY <2>2, <3>1 DEF Rank, At, Stages
    <3> QED BY <3>2, <3>3
  <2>5. CASE At(t, "target") /\ RowLock(tx[t].draft.target) \in locks[u]
    <3>1. tx[t].draft.target \in Ids
      BY <2>1, <2>5, DraftIs DEF IInv, Good, Staged, At
    <3>2. tx[u].pc \in {"check", "source", "insert", "inserted"} /\ locks[u] # {}
      BY <2>3, <2>5, <3>1 DEF LockStage
    <3>3. Rank(t) = 2
      BY <2>5 DEF Rank, At
    <3>4. Rank(u) \in {3, 4, 5}
      BY <3>2 DEF Rank, At
    <3> QED BY <3>3, <3>4
  <2>6. CASE At(t, "source") /\ SourceLock(SourceOf(tx[t].draft)) \in locks[u]
    <3>1. PICK l \in Locks : l = SourceLock(SourceOf(tx[t].draft)) /\ l \in locks[u]
      BY <2>1, <2>6
    <3>2. \E s \in Sources : SourceLock(s) = l
      BY <3>1, LocksDiffer DEF Locks
    <3>3. \E s \in Sources : SourceLock(s) \in locks[u]
      BY <3>1, <3>2
    <3>4. /\ tx[u].pc \in {"insert", "inserted"} \/ (tx[u].pc = "check" /\ Capped(tx[u].draft))
          /\ locks[u] # {}
      BY <2>3, <3>3 DEF LockStage
    <3>5. Rank(t) = 3
      BY <2>6 DEF Rank, At
    <3>6. Rank(u) \in {4, 5}
      BY <3>4 DEF Rank, At
    <3> QED BY <3>5, <3>6
  <2>7. CASE At(t, "insert") /\ Overtaken(t) /\ RowLock(tx[t].draft.id) \in locks[u]
    <3>1. CASE locks[t] # {}
      BY <2>7, <3>1 DEF RowLast
    <3>2. CASE locks[t] = {}
      <4>1. tx[t].draft \in Drafts
        BY <2>1, <2>7 DEF At
      <4>2. tx[t].draft.id \in Ids
        BY <4>1, DraftIs
      <4>3. tx[u].pc \in {"check", "source", "insert", "inserted"} /\ locks[u] # {}
        BY <2>3, <2>7, <4>2 DEF LockStage
      <4>4. Rank(t) = 0
        BY <2>7, <3>2 DEF Rank, At
      <4>5. Rank(u) \in {3, 4, 5}
        BY <4>3 DEF Rank, At
      <4> QED BY <4>4, <4>5
    <3> QED BY <3>1, <3>2
  <2>8. CASE At(t, "insert") /\ At(u, "inserted")
    <3>1. Rank(t) \in {0, 4} /\ Rank(u) = 5
      BY <2>8 DEF Rank, At
    <3> QED BY <3>1
  <2> QED BY <2>4, <2>5, <2>6, <2>7, <2>8 DEF Waits
<1> QED BY <1>1, SpecIInv, PTL

-----------------------------------------------------------------------------
(***************************************************************************)
(* The refinement: a commit is an atomic append, every other step leaves   *)
(* the book alone.                                                         *)
(***************************************************************************)
LEMMA CommitAppends ==
  ASSUME IInv, NEW t \in Txs, Commit(t)
  PROVE  \E d \in Drafts : Append(d)
<1> DEFINE d == tx[t].draft
<1>1. /\ tx[t].pc = "inserted" /\ d \in Drafts /\ events' = events \cup {d}
      /\ late' = IF d.kind = "REVERSAL" /\ tx[t].unlocked THEN late \cup {d.id} ELSE late
      /\ \A e \in events : ~Conflicts(d, e)
  BY CommitIs DEF Added
<1>2. Good(t)
  BY DEF IInv
<1>3. Permitted(d) \/ Unserialized(d) \/ Unchecked(d)
  <2>1. CASE d.kind = "REVERSAL"
    <3>1. /\ Refers("SALES_ALLOCATION", d)
          /\ \/ tx[t].unlocked
             \/ \E e \in Links("REVERSAL", d.target) : e.id \in late
             \/ ReversalFits(d)
      BY <1>1, <1>2, <2>1 DEF Good, Checked, CheckedReversal
    <3>2. CASE tx[t].unlocked
      BY <1>1, <2>1, <3>1, <3>2 DEF Unserialized
    <3>3. CASE \E e \in Links("REVERSAL", d.target) : e.id \in late
      BY <1>1, <2>1, <3>1, <3>3 DEF Unserialized
    <3>4. CASE ReversalFits(d)
      BY <2>1, <3>1, <3>4 DEF Permitted, Capped
    <3> QED BY <3>1, <3>2, <3>3, <3>4
  <2>2. CASE d.kind = "CONSUMPTION_CORRECTION"
    <3>1. Refers("INBOUND_CONSUMPTION", d) /\ CorrectionMatches(d)
      BY <1>1, <1>2, <2>2 DEF Good, Checked, CheckedCorrection
    <3>2. Links("CONSUMPTION_CORRECTION", d.target) = {}
      BY <1>1, <2>2 DEF Links, Conflicts
    <3> QED BY <2>2, <3>1, <3>2 DEF Permitted, CorrectionFits, CorrectionMatches, Capped
  <2>3. CASE d.kind = "CONSUMPTION_REVERSAL"
    <3>1. Refers("OUTBOUND_CONSUMPTION", d) /\ UndoMatches(d)
      BY <1>1, <1>2, <2>3 DEF Good, Checked, CheckedUndo
    <3>2. Links("CONSUMPTION_REVERSAL", d.target) = {}
      BY <1>1, <2>3 DEF Links, Conflicts
    <3> QED BY <2>3, <3>1, <3>2 DEF Permitted, ConsumptionReversalFits, UndoMatches, Capped
  <2>4. CASE Capped(d)
    <3>1. InboundFits(d) \/ Unchecked(d)
      BY <1>1, <1>2, <2>4 DEF Good, Checked, CheckedConsumption
    <3> QED BY <2>4, <3>1 DEF Permitted, Capped
  <2>5. CASE d.kind \notin Linked /\ ~Capped(d)
    BY <2>5 DEF Permitted, Linked
  <2> QED BY <2>1, <2>2, <2>3, <2>4, <2>5 DEF Linked
<1> QED BY <1>1, <1>3 DEF Append

\* However the transactions interleave, each row is as if appended in one
\* checked step, but for the exceptions the abstract ledger names.
THEOREM AppendsAreAtomicHolds == Spec => AppendsAreAtomic
<1>1. Init => BookInit
  BY DEF Init
<1>2. IInv /\ [Next]_vars => [BookNext]_book
  <2> SUFFICES ASSUME IInv, [Next]_vars
               PROVE  BookNext \/ UNCHANGED book
    OBVIOUS
  <2>1. CASE UNCHANGED vars
    BY <2>1 DEF vars, book
  <2>2. CASE Next
    <3>1. PICK t \in Txs :
            \/ Call(t) \/ ReadRow(t) \/ LockKey(t) \/ Lookup(t) \/ LockTarget(t) \/ Check(t)
            \/ LockSource(t) \/ PushAgain(t) \/ Insert(t) \/ Commit(t) \/ Rollback(t) \/ Return(t)
      BY <2>2 DEF Next
    <3>2. CASE Commit(t)
      BY <3>2, CommitAppends DEF BookNext
    <3>3. CASE Call(t) \/ LockKey(t) \/ LockTarget(t) \/ LockSource(t)
      BY <3>3 DEF Call, LockKey, LockTarget, LockSource, book
    <3>4. CASE Lookup(t)
      BY <3>4 DEF Lookup, Fail, book
    <3>5. CASE Check(t)
      BY <3>5 DEF Check, Fail, book
    <3>6. CASE Insert(t)
      BY <3>6 DEF Insert, Fail, book
    <3>7. CASE ReadRow(t)
      BY <3>7 DEF ReadRow, Fail, book
    <3>8. CASE PushAgain(t) \/ Rollback(t) \/ Return(t)
      BY <3>8 DEF PushAgain, Rollback, Return, Fail, book
    <3> QED BY <3>1, <3>2, <3>3, <3>4, <3>5, <3>6, <3>7, <3>8
  <2> QED BY <2>1, <2>2
<1> QED BY <1>1, <1>2, SpecIInv, PTL DEF Spec, AppendsAreAtomic, BookSpec

-----------------------------------------------------------------------------
(***************************************************************************)
(* Sums.  Total is a fold over the set, one element after the other; it    *)
(* counts the units of the events, and counting does not depend on the     *)
(* order.  The library's induction takes an operator, which no prover here *)
(* can instantiate; a smallest counterexample does the same.               *)
(***************************************************************************)
\* The events of S, each as often as its amount says.
Units(S) == UNION {{e} \X (1..e.amount) : e \in S}

Amounts(S) == \A e \in S : e.amount \in Nat

LEMMA UnitsOfOne ==
  ASSUME NEW e, NEW n \in Nat
  PROVE  IsFiniteSet({e} \X (1..n)) /\ Cardinality({e} \X (1..n)) = n
<1>1. IsFiniteSet({e}) /\ Cardinality({e}) = 1
  BY FS_Singleton
<1>2. IsFiniteSet(1..n) /\ Cardinality(1..n) = n
  BY FS_Interval
<1>3. /\ IsFiniteSet({e} \X (1..n))
      /\ Cardinality({e} \X (1..n)) = Cardinality({e}) * Cardinality(1..n)
  BY <1>1, <1>2, FS_Product, Zenon
<1> QED
  BY <1>1, <1>2, <1>3

LEMMA DisjointUnion ==
  ASSUME NEW S, IsFiniteSet(S), NEW T, IsFiniteSet(T), S \cap T = {}
  PROVE  /\ IsFiniteSet(S \cup T)
         /\ Cardinality(S \cup T) = Cardinality(S) + Cardinality(T)
<1>1. /\ IsFiniteSet(S \cup T)
      /\ Cardinality(S \cup T) = Cardinality(S) + Cardinality(T) - Cardinality(S \cap T)
  BY FS_Union
<1>2. Cardinality(S \cap T) = 0
  BY FS_EmptySet
<1>3. Cardinality(S) \in Nat /\ Cardinality(T) \in Nat
  BY FS_CardinalityType
<1> QED
  BY <1>1, <1>2, <1>3

LEMMA UnitsAdd ==
  ASSUME NEW S, NEW e, e.amount \in Nat, e \notin S, IsFiniteSet(Units(S))
  PROVE  /\ IsFiniteSet(Units(S \cup {e}))
         /\ Cardinality(Units(S \cup {e})) = Cardinality(Units(S)) + e.amount
<1> DEFINE One == {e} \X (1..e.amount)
<1>1. Units(S \cup {e}) = Units(S) \cup One
  BY DEF Units
<1>2. Units(S) \cap One = {}
  BY DEF Units
<1>3. IsFiniteSet(One) /\ Cardinality(One) = e.amount
  BY UnitsOfOne
<1> HIDE DEF One
<1>4. /\ IsFiniteSet(Units(S) \cup One)
      /\ Cardinality(Units(S) \cup One) = Cardinality(Units(S)) + Cardinality(One)
  BY <1>2, <1>3, DisjointUnion
<1> QED
  BY <1>1, <1>3, <1>4, Zenon

\* A set that is smaller comes first.
LEMMA Smallest ==
  ASSUME NEW Bad, Bad # {}, \A S \in Bad : IsFiniteSet(S)
  PROVE  \E S \in Bad : \A x \in S : S \ {x} \notin Bad
<1> DEFINE Sizes == {Cardinality(S) : S \in Bad}
<1>1. Sizes \subseteq Nat /\ Sizes # {}
  BY FS_CardinalityType
<1>2. PICK n \in Sizes : \A m \in Sizes : ~(<<m, n>> \in OpToRel(<, Nat))
  BY <1>1, WFMin, NatLessThanWellFounded, Zenon
<1>3. \A m \in Sizes : ~(m < n)
  BY <1>1, <1>2, Zenon DEF OpToRel
<1>4. PICK S \in Bad : n = Cardinality(S)
  OBVIOUS
<1>5. ASSUME NEW x \in S, S \ {x} \in Bad PROVE FALSE
  <2>1. Cardinality(S \ {x}) = Cardinality(S) - 1
    BY FS_RemoveElement
  <2>2. Cardinality(S \ {x}) \in Sizes
    BY <1>5
  <2>3. Cardinality(S) \in Nat
    BY FS_CardinalityType
  <2>4. ~(Cardinality(S \ {x}) < Cardinality(S))
    BY <1>3, <1>4, <2>2
  <2> QED
    BY <2>1, <2>3, <2>4
<1> QED
  BY <1>5

LEMMA UnitsFinite ==
  ASSUME NEW S, IsFiniteSet(S), Amounts(S)
  PROVE  IsFiniteSet(Units(S))
<1> DEFINE Bad == {T \in SUBSET S : ~IsFiniteSet(Units(T))}
<1>1. ASSUME Bad # {} PROVE FALSE
  <2>1. \A T \in Bad : IsFiniteSet(T)
    BY FS_Subset
  <2>2. PICK T \in Bad : \A x \in T : T \ {x} \notin Bad
    BY <1>1, <2>1, Smallest
  <2>3. T # {}
    <3>1. Units({}) = {}
      BY DEF Units
    <3> QED BY <3>1, FS_EmptySet
  <2>4. PICK x \in T : TRUE
    BY <2>3
  <2>5. IsFiniteSet(Units(T \ {x})) /\ x.amount \in Nat
    BY <2>2, <2>4 DEF Amounts
  <2>6. (T \ {x}) \cup {x} = T /\ x \notin T \ {x}
    BY <2>4
  <2> QED
    BY <2>5, <2>6, UnitsAdd
<1> QED
  BY <1>1

LEMMA TotalIs ==
  ASSUME NEW S, IsFiniteSet(S), Amounts(S)
  PROVE  Total(S) = Cardinality(Units(S))
<1> DEFINE x(T) == CHOOSE x \in T : TRUE
           Step(f, T) == IF T = {} THEN 0 ELSE x(T).amount + f[T \ {x(T)}]
           Sums(f) == f = [T \in SUBSET S |-> Step(f, T)]
           g == [T \in SUBSET S |-> Cardinality(Units(T))]
           iter == CHOOSE f : Sums(f)
<1>1. Total(S) = iter[S]
  BY Zenon DEF Total, MapThenSumSet, MapThenFoldSet
<1>2. ASSUME NEW T \in SUBSET S, T # {}
      PROVE  /\ x(T) \in T
             /\ Cardinality(Units(T)) = x(T).amount + Cardinality(Units(T \ {x(T)}))
  <2>1. x(T) \in T
    BY <1>2
  <2> DEFINE y == x(T)
  <2>2. y.amount \in Nat /\ T = (T \ {y}) \cup {y} /\ y \notin T \ {y}
    BY <2>1 DEF Amounts
  <2>3. IsFiniteSet(T \ {y}) /\ Amounts(T \ {y})
    BY <2>1, FS_Subset DEF Amounts
  <2>4. IsFiniteSet(Units(T \ {y}))
    BY <2>3, UnitsFinite
  <2> HIDE DEF x
  <2>5. Cardinality(Units(T)) = Cardinality(Units(T \ {y})) + y.amount
    BY <2>2, <2>4, UnitsAdd
  <2>6. Cardinality(Units(T \ {y})) \in Nat
    BY <2>4, FS_CardinalityType
  <2> QED
    BY <2>1, <2>2, <2>5, <2>6
<1> HIDE DEF x
<1>3. Cardinality(Units({})) = 0
  <2>1. Units({}) = {}
    BY DEF Units
  <2> QED BY <2>1, FS_EmptySet
<1>4. Sums(g)
  <2>1. ASSUME NEW T \in SUBSET S PROVE Cardinality(Units(T)) = Step(g, T)
    <3>1. CASE T = {}
      BY <3>1, <1>3
    <3>2. CASE T # {}
      <4>1. T \ {x(T)} \in SUBSET S
        OBVIOUS
      <4> QED BY <3>2, <4>1, <1>2
    <3> QED BY <3>1, <3>2
  <2> HIDE DEF Step
  <2> QED BY <2>1
<1>5. Sums(iter)
  <2> HIDE DEF Sums, g
  <2> QED BY <1>4
<1> HIDE DEF iter
<1> DEFINE Bad == {T \in SUBSET S : iter[T] # Cardinality(Units(T))}
<1>6. ASSUME Bad # {} PROVE FALSE
  <2>1. \A T \in Bad : IsFiniteSet(T)
    BY FS_Subset
  <2>2. PICK T \in Bad : \A y \in T : T \ {y} \notin Bad
    BY <1>6, <2>1, Smallest
  <2>3. iter[T] = Step(iter, T)
    BY <1>5
  <2>4. CASE T = {}
    BY <2>2, <2>3, <2>4, <1>3
  <2>5. CASE T # {}
    <3>1. x(T) \in T /\ T \ {x(T)} \in SUBSET S
      BY <1>2, <2>5
    <3>2. iter[T \ {x(T)}] = Cardinality(Units(T \ {x(T)}))
      BY <3>1, <2>2
    <3> QED
      BY <2>2, <2>3, <2>5, <3>2, <1>2
  <2> QED BY <2>4, <2>5
<1> QED
  BY <1>1, <1>6


LEMMA TotalOfNone == Total({}) = 0
<1>1. Units({}) = {} /\ Amounts({})
  BY DEF Units, Amounts
<1> QED
  BY <1>1, TotalIs, FS_EmptySet

LEMMA TotalType ==
  ASSUME NEW S, IsFiniteSet(S), Amounts(S)
  PROVE  Total(S) \in Nat
BY TotalIs, UnitsFinite, FS_CardinalityType

LEMMA TotalAdd ==
  ASSUME NEW S, IsFiniteSet(S), Amounts(S), NEW d, d \notin S, d.amount \in Nat
  PROVE  Total(S \cup {d}) = Total(S) + d.amount
<1>1. IsFiniteSet(S \cup {d}) /\ Amounts(S \cup {d})
  BY FS_AddElement DEF Amounts
<1>2. IsFiniteSet(Units(S))
  BY UnitsFinite
<1>3. Cardinality(Units(S \cup {d})) = Cardinality(Units(S)) + d.amount
  BY <1>2, UnitsAdd
<1> QED
  BY <1>1, <1>3, TotalIs

-----------------------------------------------------------------------------
Answers(kind, allocation) ==
  \A e \in events : e.kind = kind => \E a \in events : a.id = e.target /\ a.kind = allocation

BookInv ==
  /\ events \subseteq Drafts
  /\ IsFiniteSet(events)
  /\ Unique
  /\ Answers("REVERSAL", "SALES_ALLOCATION")
  /\ Answers("CONSUMPTION_CORRECTION", "INBOUND_CONSUMPTION")
  /\ ReversalsWithinAllocation
  /\ ConsumptionWithinSource

LEMMA DraftType ==
  ASSUME NEW d \in Drafts
  PROVE  d.amount \in Nat /\ d.snapshot \in Nat /\ d.kind \in Kinds
BY DraftsAssumption DEF Event, Kinds

LEMMA SomeEvents ==
  ASSUME events \subseteq Drafts, IsFiniteSet(events), NEW S, S \subseteq events
  PROVE  IsFiniteSet(S) /\ Amounts(S)
BY DraftType, FS_Subset DEF Amounts

\* What the appended event is linked to, and what it is not.
LEMMA LinksGrow ==
  ASSUME NEW d, events' = events \cup {d}, NEW kind, NEW i
  PROVE  Links(kind, i)' = Links(kind, i) \cup (IF d.kind = kind /\ d.target = i THEN {d} ELSE {})
BY DEF Links

LEMMA ReferredStays ==
  ASSUME BookInv, NEW d \in Drafts, Append(d)
  PROVE  /\ Answers("REVERSAL", "SALES_ALLOCATION")'
         /\ Answers("CONSUMPTION_CORRECTION", "INBOUND_CONSUMPTION")'
<1>1. d.kind = "REVERSAL" => Refers("SALES_ALLOCATION", d)
  BY DEF Append, Permitted, Unserialized, Unchecked, Capped
<1>2. d.kind = "CONSUMPTION_CORRECTION" => Refers("INBOUND_CONSUMPTION", d)
  BY DEF Append, Permitted, Unserialized, Unchecked, Capped
<1> QED
  BY <1>1, <1>2 DEF BookInv, Answers, Append, Refers

LEMMA ReversalsStayWithin ==
  ASSUME BookInv, NEW d \in Drafts, Append(d)
  PROVE  ReversalsWithinAllocation'
<1> SUFFICES ASSUME NEW a \in events', a.kind = "SALES_ALLOCATION",
                    ~\E e \in Links("REVERSAL", a.id)' : e.id \in late'
             PROVE  Total(Links("REVERSAL", a.id)') <= a.amount
  BY DEF ReversalsWithinAllocation
<1> DEFINE old == Links("REVERSAL", a.id)
           new == Links("REVERSAL", a.id)'
<1>1. events' = events \cup {d} /\ \A e \in events : e.id # d.id
  BY DEF Append, Conflicts
<1>2. new = old \cup (IF d.kind = "REVERSAL" /\ d.target = a.id THEN {d} ELSE {})
  BY <1>1, LinksGrow
<1>3. late \subseteq late'
  BY DEF Append
<1>4. old \subseteq events /\ a.amount \in Nat /\ a \in Drafts
  BY <1>1, DraftType DEF Links, BookInv
<1>5. IsFiniteSet(old) /\ Amounts(old)
  BY <1>4, SomeEvents DEF BookInv
<1>6. CASE d.kind = "REVERSAL" /\ d.target = a.id
  <2>1. new = old \cup {d} /\ d \notin old
    BY <1>1, <1>2, <1>4, <1>6
  <2>2. a \in events
    BY <1>1, <1>6
  <2>3. ~Unserialized(d) /\ ~Unchecked(d)
    BY <1>2, <1>3, <1>6 DEF Unserialized, Unchecked, Capped
  <2>4. ReversalFits(d)
    BY <1>6, <2>3 DEF Append, Permitted
  <2>5. Total(old) + d.amount <= a.amount
    BY <1>6, <2>2, <2>4 DEF ReversalFits
  <2>6. Total(new) = Total(old) + d.amount
    BY <1>5, <2>1, DraftType, TotalAdd
  <2>7. Total(new) <= a.amount
    <3> HIDE DEF old, new
    <3> QED BY <2>5, <2>6
  <2> QED
    BY <2>7
<1>7. CASE ~(d.kind = "REVERSAL" /\ d.target = a.id)
  <2>1. new = old
    BY <1>2, <1>7
  <2>2. CASE a \in events
    <3>1. Total(old) <= a.amount
      BY <1>2, <1>3, <2>2 DEF BookInv, ReversalsWithinAllocation
    <3> QED
      BY <2>1, <3>1
  <2>3. CASE a = d
    <3>1. old = {}
      BY <1>1, <2>3 DEF BookInv, Answers, Links
    <3>2. Total(new) = 0
      BY <2>1, <3>1, TotalOfNone
    <3>3. Total(new) <= a.amount
      <4> HIDE DEF new
      <4> QED BY <1>4, <3>2
    <3> QED
      BY <3>3
  <2> QED
    BY <1>1, <2>2, <2>3
<1> QED
  BY <1>6, <1>7

\* A consumption is new: nothing corrects it yet.
LEMMA CorrectedGrows ==
  ASSUME BookInv, NEW d \in Drafts, Append(d), NEW s \in Sources
  PROVE  \/ /\ Corrected(s)' = Corrected(s)
            /\ Consumed(s)' = Consumed(s) \cup
                 (IF d.kind = "INBOUND_CONSUMPTION" /\ d.source = s THEN {d} ELSE {})
         \/ /\ Corrected(s)' = Corrected(s) \cup {d}
            /\ Consumed(s)' = Consumed(s)
<1>1. events' = events \cup {d} /\ \A e \in events : e.id # d.id
  BY DEF Append, Conflicts
<1>2. Consumed(s)' = Consumed(s) \cup
        (IF d.kind = "INBOUND_CONSUMPTION" /\ d.source = s THEN {d} ELSE {})
  BY <1>1 DEF Consumed
<1>3. \A i : Links("CONSUMPTION_CORRECTION", i)' = Links("CONSUMPTION_CORRECTION", i) \cup
        (IF d.kind = "CONSUMPTION_CORRECTION" /\ d.target = i THEN {d} ELSE {})
  BY <1>1, LinksGrow
<1>4. CASE d.kind = "CONSUMPTION_CORRECTION"
  <2>1. Consumed(s)' = Consumed(s)
    BY <1>2, <1>4
  <2>2. CASE \E e \in Consumed(s) : d.target = e.id
    BY <1>3, <1>4, <2>1, <2>2 DEF Corrected
  <2>3. CASE ~\E e \in Consumed(s) : d.target = e.id
    BY <1>2, <1>3, <1>4, <2>1, <2>3 DEF Corrected
  <2> QED
    BY <2>2, <2>3
<1>5. CASE d.kind # "CONSUMPTION_CORRECTION"
  <2>1. \A i : Links("CONSUMPTION_CORRECTION", i)' = Links("CONSUMPTION_CORRECTION", i)
    BY <1>3, <1>5
  <2>2. Links("CONSUMPTION_CORRECTION", d.id) = {}
    BY <1>1 DEF BookInv, Answers, Links
  <2> QED
    BY <1>2, <2>1, <2>2 DEF Corrected
<1> QED
  BY <1>4, <1>5

LEMMA ConsumptionStaysWithin ==
  ASSUME BookInv, NEW d \in Drafts, Append(d)
  PROVE  ConsumptionWithinSource'
<1> SUFFICES ASSUME NEW s \in Sources, Consumed(s)' # {}
             PROVE  \E e \in Consumed(s)' : Net(s)' <= e.snapshot \/ e.snapshot = 0
  BY DEF ConsumptionWithinSource
<1>1. events' = events \cup {d} /\ d \notin events
  BY DEF Append, Conflicts
<1>2. /\ IsFiniteSet(Consumed(s)) /\ Amounts(Consumed(s)) /\ d \notin Consumed(s)
      /\ IsFiniteSet(Corrected(s)) /\ Amounts(Corrected(s)) /\ d \notin Corrected(s)
  BY <1>1, SomeEvents DEF Consumed, Corrected, Links, BookInv
<1>3. d.amount \in Nat /\ d.snapshot \in Nat
  BY DraftType
<1>4. Total(Consumed(s)) \in Nat /\ Total(Corrected(s)) \in Nat
  BY <1>2, TotalType
<1>5. CASE d.kind = "INBOUND_CONSUMPTION" /\ d.source = s
  <2>1. Consumed(s)' = Consumed(s) \cup {d}
    BY <1>1, <1>5 DEF Consumed
  <2>2. Corrected(s)' = Corrected(s)
    BY <1>2, <2>1, CorrectedGrows
  <2>3. Net(s)' = Net(s) + d.amount
    <3>1. Total(Consumed(s))' = Total(Consumed(s)) + d.amount
      BY <1>2, <1>3, <2>1, TotalAdd
    <3>2. Total(Corrected(s))' = Total(Corrected(s))
      BY <2>2
    <3> QED
      BY <1>3, <1>4, <3>1, <3>2 DEF Net
  <2>4. CASE d.snapshot = 0
    BY <2>1, <2>4
  <2>5. CASE d.snapshot # 0
    <3>1. Capped(d)
      BY <1>3, <1>5, <2>5, DraftsAssumption DEF Capped
    <3>2. InboundFits(d) \/ Unchecked(d)
      BY <1>5, <3>1 DEF Append, Permitted, Unserialized
    <3>3. CASE InboundFits(d)
      <4>1. PICK cap \in {d.snapshot} \cup {e.snapshot : e \in Consumed(s)} : Net(s) + d.amount <= cap
        BY <1>5, <3>3 DEF InboundFits
      <4>2. PICK e \in Consumed(s)' : cap = e.snapshot
        BY <2>1
      <4> QED
        BY <2>3, <4>1, <4>2
    <3>4. CASE Unchecked(d)
      BY <1>5, <2>1, <3>4 DEF Unchecked
    <3> QED BY <3>2, <3>3, <3>4
  <2> QED BY <2>4, <2>5
<1>6. CASE ~(d.kind = "INBOUND_CONSUMPTION" /\ d.source = s)
  <2>1. Consumed(s)' = Consumed(s)
    BY <1>1, <1>6 DEF Consumed
  <2>2. PICK e \in Consumed(s) : Net(s) <= e.snapshot \/ e.snapshot = 0
    BY <2>1 DEF BookInv, ConsumptionWithinSource
  <2>3. Net(s)' = Net(s) \/ Net(s)' = Net(s) - d.amount
    <3>1. CASE Corrected(s)' = Corrected(s)
      BY <2>1, <3>1 DEF Net
    <3>2. CASE Corrected(s)' = Corrected(s) \cup {d}
      <4>1. Total(Corrected(s))' = Total(Corrected(s)) + d.amount
        BY <1>2, <1>3, <3>2, TotalAdd
      <4>2. Total(Consumed(s))' = Total(Consumed(s))
        BY <2>1
      <4> QED
        BY <1>3, <1>4, <4>1, <4>2 DEF Net
    <3> QED BY <3>1, <3>2, CorrectedGrows
  <2>4. Net(s) \in Int /\ e.snapshot \in Nat
    BY <1>4, DraftType DEF Net, Consumed, BookInv
  <2> QED
    BY <1>3, <2>1, <2>2, <2>3, <2>4
<1> QED
  BY <1>5, <1>6

LEMMA BookKeepsCaps == BookSpec => []BookInv
<1>1. BookInit => BookInv
  BY FS_EmptySet DEF BookInit, BookInv, Unique, Answers, ReversalsWithinAllocation,
     ConsumptionWithinSource, Consumed
<1>2. BookInv /\ [BookNext]_book => BookInv'
  <2> SUFFICES ASSUME BookInv, [BookNext]_book
               PROVE  BookInv'
    OBVIOUS
  <2>1. ASSUME NEW d \in Drafts, Append(d)
        PROVE  BookInv'
    <3>1. events' \subseteq Drafts /\ IsFiniteSet(events')
      BY <2>1, FS_AddElement DEF Append, BookInv
    <3>2. Unique'
      BY <2>1 DEF Append, Conflicts, BookInv, Unique
    <3> QED
      BY <2>1, <3>1, <3>2, ReferredStays, ReversalsStayWithin, ConsumptionStaysWithin DEF BookInv
  <2>2. CASE UNCHANGED book
    BY <2>2 DEF book, BookInv, Unique, Answers, ReversalsWithinAllocation,
       ConsumptionWithinSource, Consumed, Corrected, Net, Links
  <2> QED
    BY <2>1, <2>2 DEF BookNext
<1> QED BY <1>1, <1>2, PTL DEF BookSpec

\* Reversals of an allocation, however they race, give back no more than was
\* allocated, unless one of them locked nothing (migration 0035).
THEOREM ReversalsWithinAllocationHolds == Spec => []ReversalsWithinAllocation
<1>1. BookInv => ReversalsWithinAllocation
  BY DEF BookInv
<1> QED BY <1>1, AppendsAreAtomicHolds, BookKeepsCaps, PTL DEF AppendsAreAtomic

\* The consumptions of a landing cost, however they and their corrections
\* race, stay within the largest source amount they carry, if all carry one.
THEOREM ConsumptionWithinSourceHolds == Spec => []ConsumptionWithinSource
<1>1. BookInv => ConsumptionWithinSource
  BY DEF BookInv
<1> QED BY <1>1, AppendsAreAtomicHolds, BookKeepsCaps, PTL DEF AppendsAreAtomic
=============================================================================
