---------------------------- MODULE BudgetLedger ----------------------------
(***************************************************************************)
(* The transport budget ledger under concurrent appends.  The backend      *)
(* appends through the function append_transport_budget_event() (migration *)
(* 0037), the sync gateway inserts what devices push, and the insert       *)
(* trigger of migration 0035 checks both.                                  *)
(*                                                                         *)
(* Grain: one action per SQL statement that sees or locks what another     *)
(* transaction may change.  The database runs READ COMMITTED: each         *)
(* statement of a function reads the rows committed when it starts.  Rows  *)
(* are never updated or deleted (the triggers of migration 0029 refuse     *)
(* it), so two reads in a row, of a target and of the events linked to it, *)
(* may be taken as one at the time of the second.  Locks are held to the   *)
(* end of the transaction.  The entries of one row in the unique indexes   *)
(* are made in a fixed order and are taken as one.  A transaction may be   *)
(* rolled back at any statement.                                           *)
(***************************************************************************)
EXTENDS BudgetBook

CONSTANT Txs   \* concurrent transactions

VARIABLES
  tx,      \* each transaction: the statement it is at and the event it appends
  locks    \* the advisory and row locks it holds

vars == <<events, late, tx, locks>>

KeyLock(k) == <<"key", k>>
RowLock(i) == <<"row", i>>
SourceLock(s) == <<"source", s>>
Locks == {KeyLock(k) : k \in Keys} \cup {RowLock(i) : i \in Ids} \cup {SourceLock(s) : s \in Sources}

-----------------------------------------------------------------------------
\* unlocked: the lock on the target found no row.  answer: the id returned.
Idle == [pc |-> "idle", draft |-> None, unlocked |-> FALSE, answer |-> None]

Init ==
  /\ BookInit
  /\ tx = [t \in Txs |-> Idle]
  /\ locks = [t \in Txs |-> {}]

At(t, pc) == tx[t].pc = pc
Goto(t, pc) == tx' = [tx EXCEPT ![t].pc = pc]

Free(t, lock) == \A u \in Txs \ {t} : lock \notin locks[u]
Take(t, lock) ==
  /\ Free(t, lock)
  /\ locks' = [locks EXCEPT ![t] = @ \cup {lock}]

\* Mutant: the advisory locks belong to the session, not to the transaction.
ReleaseRows(t) == locks' = [locks EXCEPT ![t] = {l \in @ : l[1] = "key" \/ l[1] = "source"}]

\* The end of a transaction releases every lock it holds.
Release(t) == locks' = [locks EXCEPT ![t] = {}]

Fail(t) ==
  /\ tx' = [tx EXCEPT ![t] = Idle]
  /\ Release(t)
  /\ UNCHANGED book

Answer(t, i) ==
  /\ tx' = [tx EXCEPT ![t].pc = "answered", ![t].unlocked = FALSE, ![t].answer = i]
  /\ Release(t)

-----------------------------------------------------------------------------
\* Mutant: a consumption is checked without a lock on its source.
FirstStageUnlocked(d) ==
  IF d.kind \in Linked THEN "target" ELSE IF Capped(d) THEN "check" ELSE "insert"

\* Where the trigger starts.
FirstStage(d) ==
  IF d.kind \in Linked THEN "target" ELSE IF Capped(d) THEN "source" ELSE "insert"

\* A producer appends an event, or appends it again: the backend through the
\* function, a device through the gateway, which reads the row first.
Call(t) ==
  /\ At(t, "idle")
  /\ \E d \in Drafts :
       tx' = [tx EXCEPT ![t] = [Idle EXCEPT !.pc = IF d.via = "rpc" THEN "key" ELSE "read",
                                            !.draft = d]]
  /\ UNCHANGED <<events, late, locks>>

\* upsertRow(): an event the gateway finds under the id is a conflict, one it
\* does not find is inserted by a later request.
ReadRow(t) ==
  /\ At(t, "read")
  /\ \/ /\ \A e \in events : e.id # tx[t].draft.id
        /\ Goto(t, FirstStage(tx[t].draft))
        /\ UNCHANGED <<events, late, locks>>
     \/ /\ \E e \in events : e.id = tx[t].draft.id
        /\ Fail(t)

\* Mutant: the lookup is made without a lock on the key.
SkipKeyLock(t) ==
  /\ At(t, "key")
  /\ Goto(t, "lookup")
  /\ UNCHANGED <<events, late, locks>>

LockKey(t) ==
  /\ At(t, "key")
  /\ Take(t, KeyLock(tx[t].draft.key))
  /\ Goto(t, "lookup")
  /\ UNCHANGED book

\* Mutant: an event with the key answers whatever its economics are, as in
\* migration 0029.
SameKey(d, e) == e.key = d.key

Economics(e) == <<e.kind, e.amount, e.source, e.snapshot, e.target>>
SameEvent(d, e) == e.key = d.key /\ Economics(e) = Economics(d)

\* An event with the id answers if its payload is the same, one with the key
\* if its economics are; otherwise the call fails.
Lookup(t) ==
  /\ At(t, "lookup")
  /\ LET d == tx[t].draft
         known == {e \in events : e.id = d.id \/ e.key = d.key}
     IN \/ /\ known = {}
           /\ Goto(t, FirstStage(d))
           /\ UNCHANGED <<events, late, locks>>
        \/ \E e \in known :
             /\ \A f \in known : SameEvent(d, f)
             /\ Answer(t, e.id)
             /\ UNCHANGED book
        \/ /\ \E e \in known : ~SameEvent(d, e)
           /\ Fail(t)

\* Mutant: the target is read without FOR UPDATE.
ReadTarget(t) ==
  /\ At(t, "target")
  /\ tx' = [tx EXCEPT ![t].pc = "check",
                      ![t].unlocked = ~\E e \in events : e.id = tx[t].draft.target]
  /\ UNCHANGED <<events, late, locks>>

\* SELECT ... FOR UPDATE waits for the holder of the row; a row that is not
\* committed is not seen, and nothing is locked.
LockTarget(t) ==
  /\ At(t, "target")
  /\ LET i == tx[t].draft.target
         found == \E e \in events : e.id = i
     IN /\ IF found THEN Take(t, RowLock(i)) ELSE UNCHANGED locks
        /\ tx' = [tx EXCEPT ![t].pc = "check", ![t].unlocked = ~found]
  /\ UNCHANGED book

\* Mutant: the lock is taken on the source a correction names, its target.
OwnSource(d) == IF d.kind = "CONSUMPTION_CORRECTION" THEN d.target ELSE d.source

\* The landing cost a transaction locks: its own, or that of the consumption
\* it corrects.
SourceOf(d) ==
  IF d.kind = "CONSUMPTION_CORRECTION"
    THEN (CHOOSE e \in events : e.id = d.target).source
    ELSE d.source

AfterCheck(d) ==
  IF d.kind = "CONSUMPTION_CORRECTION" /\ SourceOf(d) # None THEN "source" ELSE "insert"

Check(t) ==
  /\ At(t, "check")
  /\ \/ /\ Permitted(tx[t].draft)
        /\ Goto(t, AfterCheck(tx[t].draft))
        /\ UNCHANGED <<events, late, locks>>
     \/ /\ ~Permitted(tx[t].draft)
        /\ Fail(t)

\* A consumption locks its source before the check, a correction after it.
LockSource(t) ==
  /\ At(t, "source")
  /\ LET d == tx[t].draft
     IN /\ Take(t, SourceLock(SourceOf(d)))
        /\ Goto(t, IF Capped(d) THEN "check" ELSE "insert")
  /\ UNCHANGED book

\* The gateway's insert says ON CONFLICT (id) DO UPDATE; the row was committed
\* after the gateway read that there is none.
Overtaken(t) ==
  /\ tx[t].draft.via = "gateway"
  /\ \E e \in events : e.id = tx[t].draft.id

\* It waits for the lock on the row, with the source locked by its trigger,
\* and then may not update the row.
PushAgain(t) ==
  /\ At(t, "insert")
  /\ Overtaken(t)
  /\ Free(t, RowLock(tx[t].draft.id))
  /\ Fail(t)

\* An uncommitted row with the same entry in a unique index is waited for, a
\* committed one refuses the insert.
Inserted == {t \in Txs : At(t, "inserted")}
Insert(t) ==
  /\ At(t, "insert")
  /\ ~Overtaken(t)
  /\ \A u \in Inserted : ~Conflicts(tx[t].draft, tx[u].draft)
  /\ \/ /\ \A e \in events : ~Conflicts(tx[t].draft, e)
        /\ Goto(t, "inserted")
        /\ UNCHANGED <<events, late, locks>>
     \/ /\ \E e \in events : Conflicts(tx[t].draft, e)
        /\ Fail(t)

Commit(t) ==
  /\ At(t, "inserted")
  /\ LET d == tx[t].draft
     IN /\ events' = events \cup {d}
        /\ late' = IF d.kind = "REVERSAL" /\ tx[t].unlocked THEN late \cup {d.id} ELSE late
        /\ Answer(t, d.id)

\* A lost connection, a timeout or a deadlock report.
Rollback(t) ==
  /\ tx[t].pc \notin {"idle", "answered"}
  /\ Fail(t)

Return(t) ==
  /\ At(t, "answered")
  /\ Fail(t)

Next == \E t \in Txs :
  \/ Call(t) \/ ReadRow(t) \/ LockKey(t) \/ Lookup(t) \/ LockTarget(t) \/ Check(t)
  \/ LockSource(t) \/ PushAgain(t) \/ Insert(t) \/ Commit(t) \/ Rollback(t) \/ Return(t)

Spec == Init /\ [][Next]_vars

-----------------------------------------------------------------------------
\* Every transaction and lock keeps its shape, and a transaction that is over
\* holds no lock.
TypeOK ==
  /\ events \subseteq Drafts
  /\ late \subseteq Ids
  /\ tx \in [Txs -> [pc : {"idle", "read", "key", "lookup", "target", "check", "source",
                           "insert", "inserted", "answered"},
                     draft : Drafts \cup {None}, unlocked : BOOLEAN, answer : Ids \cup {None}]]
  /\ locks \in [Txs -> SUBSET Locks]
  /\ \A t \in Txs : IF At(t, "idle") THEN locks[t] = {} ELSE tx[t].draft \in Drafts

\* However the transactions interleave, the rows come to be as if each was
\* appended in one step that made all the checks of the trigger: the locks
\* and the unique indexes close every window between a check and the insert,
\* but for the two exceptions of BudgetBook.
AppendsAreAtomic == BookSpec

\* A retry converges (append_transport_budget_event()): an append that is
\* answered is stored, under the id of the answer and with the economics that
\* were submitted.
RetriesConverge ==
  \A t \in Txs : At(t, "answered") =>
    \E e \in events :
      /\ e.id = tx[t].answer
      /\ e.key = tx[t].draft.key
      /\ Economics(e) = Economics(tx[t].draft)

\* "same-key concurrent calls: serialized on a key-scoped advisory lock, so
\* the second caller deterministically observes the winner's row" (migration
\* 0037): once a call of the RPC has found its key unused, only an insert of
\* the gateway, which takes no key lock, can use it first.
OnlyDirectOvertakes ==
  \A t \in Txs :
    /\ tx[t].pc \in {"target", "check", "source", "insert", "inserted"}
    /\ tx[t].draft.via = "rpc"
    => \A e \in events : e.key = tx[t].draft.key => e.via = "gateway"

\* Who waits for whom: t for a lock u holds, or for the end of an insert.
Waits(t, u) ==
  /\ t # u
  /\ \/ At(t, "key") /\ KeyLock(tx[t].draft.key) \in locks[u]
     \/ At(t, "target") /\ RowLock(tx[t].draft.target) \in locks[u]
     \/ At(t, "source") /\ SourceLock(SourceOf(tx[t].draft)) \in locks[u]
     \/ At(t, "insert") /\ Overtaken(t) /\ RowLock(tx[t].draft.id) \in locks[u]
     \/ /\ At(t, "insert") /\ ~Overtaken(t)
        /\ At(u, "inserted") /\ Conflicts(tx[t].draft, tx[u].draft)

\* The rank of the next lock a transaction may have to wait for; 0 when it
\* holds none, 5 when it waits for none any more.
Rank(t) ==
  CASE At(t, "key") -> 1
    [] At(t, "lookup") \/ At(t, "target") -> 2
    [] At(t, "source") -> 3
    [] At(t, "check") -> IF Capped(tx[t].draft) THEN 4 ELSE 3
    [] At(t, "insert") -> IF locks[t] = {} THEN 0 ELSE 4
    [] At(t, "inserted") -> 5
    [] OTHER -> 0

\* The one wait against the order, and with a correction of the event, which
\* locks the row and then the source, a real circle: a push waits for the row
\* of its event while it holds the source (or a target) of it.
RowLast(t) == At(t, "insert") /\ Overtaken(t) /\ locks[t] # {}

\* Apart from that wait the transactions never wait in a circle, nor for one
\* that is over: key lock, target row, landing cost and index entries are
\* taken in one order on every path of the RPC, the gateway and the trigger,
\* and given back at the end.
NoCircularWait ==
  \A t, u \in Txs : Waits(t, u) => Rank(t) < Rank(u) \/ RowLast(t)
=============================================================================
