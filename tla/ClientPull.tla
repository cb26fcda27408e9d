----------------------------- MODULE ClientPull -----------------------------
(***************************************************************************)
(* How a device takes in what other devices have written                   *)
(* (frontend/services/syncService.ts): the cursor pull, the realtime       *)
(* handler and the drain of deferred merges, three writers of one local    *)
(* table that read a row, wait, and write it.  The local database (db.ts), *)
(* the field merge (syncConflictResolver.ts) and the page query of the     *)
(* gateway (cloudSyncStore.cjs, routes/sync.cjs) are the ones they call.   *)
(*                                                                         *)
(* Grain: one action per request of the local database or the gateway,     *)
(* with the code up to the next one.  Two requests are one step where what *)
(* may come between commutes with one of them: the read of a row and the   *)
(* look at the queue that follows it, the last page and the cursor that is *)
(* saved after it.                                                         *)
(*                                                                         *)
(* Abstractions.  A record is one field; a version is named by the write   *)
(* that made it, and so is the value it holds.  Time is the server's; the  *)
(* clock of the device differs from it.  A queued operation and its        *)
(* settlement are single steps (they are the subject of BackgroundSync),   *)
(* and a device edits records, it does not delete them.  A record that was *)
(* deleted stays so, whatever its stamp: the time of a deletion is left    *)
(* out.                                                                    *)
(* One table, one realtime event at a time.  The drain works on all tables *)
(* in turn: what happens to this one when an earlier one is refused is a   *)
(* step of its own.  Of the push engine, what it has to do with the drain: *)
(* whether its cycles come to it.  Full passes after the first, the reset  *)
(* of a company, the physical deletion of a row and a read of the cursor   *)
(* that fails are left out.                                                *)
(***************************************************************************)
EXTENDS Integers, Sequences, FiniteSets, SequencesExt

CONSTANTS
  Rows,        \* record ids, in the order of the gateway's pages
  Shared,      \* the rows that are written; the others only fill pages
  New,         \* the rows the device has not got yet
  Leftover,    \* the deferred merges an earlier session has stored
  PageSize,    \* PULL_PAGE_SIZE
  DeferMax,    \* DEFERRED_MERGE_MAX_PER_TABLE
  IdsMax,      \* PULL_IDS_MAX
  PassMax,     \* MAX_PULL_ROWS_PER_TABLE_PER_PASS
  Skews,       \* what the clock of the device may show more, or less, than the server's
  MaxWrites,   \* bound: writes of other devices
  MaxEdits,    \* bound: edits of this device
  MaxIncidents \* bound: events that arrive, failures, restarts, late writes

ASSUME PullAssumption ==
  /\ Rows \in SUBSET Nat /\ IsFiniteSet(Rows) /\ Shared \subseteq Rows /\ New \subseteq Rows
  /\ Leftover \in Seq(Rows \ New) /\ IsInjective(Leftover) /\ Len(Leftover) <= DeferMax
  /\ PageSize \in Nat \ {0}
  /\ DeferMax \in Nat \ {0}
  /\ IdsMax \in Nat
  /\ PassMax \in Nat \ {0}
  /\ MaxWrites \in Nat
  /\ MaxEdits \in Nat
  /\ MaxIncidents \in Nat

ASSUME SkewAssumption == Skews \subseteq Int

VARIABLES
  cloud,       \* the cloud table
  events,      \* realtime events on their way
  clock,       \* the time of the server, by its latest stamp
  written,     \* the latest write, by which a version is named
  edited,      \* the edits among them
  engine,      \* whether the push engine is kept from the drain
  incidents,   \* the incidents so far
  local,       \* the local table
  saving,      \* edits stored locally and not yet enqueued
  pending,     \* the active operation of each row in the sync queue
  cursor,      \* last_synced_at:<table>, in the queue's meta
  pass,        \* the pull in progress
  drain,       \* the drain of deferred merges in progress
  job,         \* the row each of the three writers is working on
  deferred,    \* deferredMerges, in memory
  stored,      \* deferred_merge:<table>, in the queue's meta
  persistDue,  \* deferredPersistTimer is set
  hydrated,    \* deferredHydrated
  missed,      \* history: why a row's last version may never be read
  unsent,      \* history: the rows an edit of this device was given up on
  ahead        \* history: the rows it edited while its clock was ahead

world == <<cloud, events, clock, written, edited, engine>>
device == <<local, saving, pending>>
deferral == <<deferred, stored, persistDue, hydrated>>
history == <<missed, unsent, ahead>>
vars == <<world, incidents, device, cursor, pass, drain, job, deferral, history>>

-----------------------------------------------------------------------------
Writers == {"pull", "drain", "realtime"}

\* Why the last version of a row may never reach the device.
Causes == {"late", "skipped", "crash", "overwritten", "dropped", "failed", "stale", "refused",
           "unread"}

\* The cycles of the push engine are skipped while it is paused or blocked, and
\* with operations of other tables they may end before the drain: it is kept
\* from it, until it finds nothing to send.
Engines == {"quiet", "kept"}

\* The cloud table returns copies of its rows.
Version(r) == <<r, cloud[r].write>>
Copy(r) == [id |-> r, write |-> cloud[r].write, at |-> cloud[r].at, gone |-> cloud[r].gone]

\* at: serverUpdatedAt, time: _updatedAt of a record.
Absent == [here |-> "absent", version |-> 0, value |-> 0, at |-> 0, time |-> 0]
NoOp == [write |-> 0, base |-> 0]
NoRow == [id |-> 0, write |-> 0, at |-> 0, gone |-> FALSE]

IdlePass == [pc |-> "fetch", offset |-> 0, todo |-> <<>>, fresh |-> {}, more |-> FALSE,
             tail |-> 0, covered |-> {}]
IdleDrain == [on |-> FALSE, ids |-> <<>>, todo |-> <<>>, blocked |-> <<>>]
IdleJob == [pc |-> "idle", row |-> NoRow, seen |-> Absent]

\* An earlier session has pulled up to instant 2.  It had to defer the merge
\* of the leftovers, whose last version is older than that.
Init ==
  /\ cloud = [r \in Rows |-> IF r \in ToSet(Leftover) THEN [write |-> 1, at |-> 1, gone |-> FALSE]
                             ELSE [write |-> 0, at |-> 2, gone |-> FALSE]]
  /\ events = {}
  /\ clock = 2
  /\ written = 1
  /\ edited = 0
  /\ engine = "quiet"
  /\ incidents = 0
  /\ local = [r \in Rows |-> IF r \in New THEN Absent
                             ELSE [Absent EXCEPT !.here = "live", !.at = cloud[r].at, !.time = cloud[r].at]]
  /\ saving = [r \in Rows |-> NoOp]
  /\ pending = [r \in Rows |-> NoOp]
  /\ cursor = IF New = Rows THEN 0 ELSE 2
  /\ pass = IdlePass
  /\ drain = IdleDrain
  /\ job = [w \in Writers |-> IdleJob]
  /\ deferred = <<>>
  /\ stored = Leftover
  /\ persistDue = FALSE
  /\ hydrated = FALSE
  /\ missed = [r \in Rows |-> {}]
  /\ unsent = {}
  /\ ahead = {}

Incident == incidents < MaxIncidents /\ incidents' = incidents + 1

\* The device has the last version; of a deleted row it shows nothing.
HasVersion(r, record) ==
  IF cloud[r].gone THEN record.here # "live"
  ELSE record.here # "absent" /\ record.version = cloud[r].write

\* History: the last version of some rows, still missing here, is now out of reach.
Miss(rows, cause) ==
  /\ missed' = [r \in Rows |->
       missed[r] \cup (IF r \in rows /\ ~HasVersion(r, local[r]) THEN {cause} ELSE {})]
  /\ UNCHANGED <<unsent, ahead>>

-----------------------------------------------------------------------------
(***************************************************************************)
(* The cloud.  The gateway stamps updated_at before the write; that one    *)
(* gets the stamp of another write, or becomes visible after a later one,  *)
(* is an incident.  An event is published, and may be lost.                *)
(***************************************************************************)
Publish(row) == events' = events \cup {row}

Commit(r, write, t, gone) ==
  /\ cloud' = [cloud EXCEPT ![r] = [write |-> write, at |-> t, gone |-> gone]]
  /\ Publish([id |-> r, write |-> write, at |-> t, gone |-> gone])

OtherWrites ==
  /\ written - edited <= MaxWrites /\ written' = written + 1
  /\ UNCHANGED edited

OtherDeviceWrites(r, gone) ==
  /\ OtherWrites
  /\ clock' = clock + 1
  /\ Commit(r, written + 1, clock + 1, gone)
  /\ missed' = [missed EXCEPT ![r] = {}]
  /\ UNCHANGED <<unsent, ahead, engine, incidents, device, cursor, pass, drain, job, deferral>>

LateWrite(r) ==
  /\ Incident
  /\ OtherWrites
  /\ \E t \in cloud[r].at..clock :
       /\ Commit(r, written + 1, t, FALSE)
       /\ missed' = [missed EXCEPT ![r] = IF t < cursor \/ t < pass.tail THEN {"late"} ELSE {}]
  /\ UNCHANGED <<unsent, ahead, clock, engine, device, cursor, pass, drain, job, deferral>>

\* listPullPage(): the rows from the cursor on, by updated_at and id.
Precedes(q, r) == cloud[q].at < cloud[r].at \/ (cloud[q].at = cloud[r].at /\ q <= r)
Listing ==
  LET rows == {r \in Rows : cloud[r].at >= cursor}
      at(i) == CHOOSE r \in rows : Cardinality({q \in rows : Precedes(q, r)}) = i
  IN  [i \in 1..Cardinality(rows) |-> at(i)]

UpTo(n) == Min({n, Len(Listing)})
Page(offset) == SubSeq(Listing, offset + 1, UpTo(offset + PageSize))

\* The same route, asked for ids: the cursor does not matter, the number does.
ByIds(ids) == [i \in DOMAIN ids |-> Copy(ids[i])]

-----------------------------------------------------------------------------
(***************************************************************************)
(* The device's own edits: db.put() stores the record, then enqueues it.   *)
(***************************************************************************)
Edit(r) ==
  /\ local[r].here = "live"
  /\ saving[r] = NoOp
  /\ edited < MaxEdits /\ edited' = edited + 1
  /\ written' = written + 1
  /\ clock' = clock + 1
  /\ \E skew \in Skews :
       /\ local' = [local EXCEPT ![r].value = written + 1, ![r].time = clock + 1 + skew]
       /\ ahead' = IF skew > 0 THEN ahead \cup {r} ELSE ahead
  /\ saving' = [saving EXCEPT ![r] = [write |-> written + 1, base |-> local[r].version]]
  /\ UNCHANGED <<cloud, events, engine, incidents, pending, cursor, pass, drain, job, deferral,
                 missed, unsent>>

Enqueue(r) ==
  /\ saving[r] # NoOp
  /\ pending' = [pending EXCEPT ![r] = saving[r]]
  /\ saving' = [saving EXCEPT ![r] = NoOp]
  /\ UNCHANGED <<world, incidents, local, cursor, pass, drain, job, deferral, history>>

\* The write of a row is conditional on the version it was made from.
Conflicts(r) == cloud[r].write # pending[r].base

\* The push engine settles an operation: it is written, or given up.  Nothing
\* gives a conflicting operation a new base, so it conflicts on every retry
\* until its budget is spent.  The local row is left as it is: the device
\* learns its new version from a pull or an event.
Settle(r) ==
  /\ pending[r] # NoOp
  /\ pending' = [pending EXCEPT ![r] = NoOp]
  /\ \/ /\ ~Conflicts(r)
        /\ Commit(r, pending[r].write, clock + 1, FALSE)
        /\ clock' = clock + 1
        /\ missed' = [missed EXCEPT ![r] = {}] /\ UNCHANGED <<incidents, unsent>>
     \/ /\ IF Conflicts(r) THEN UNCHANGED incidents ELSE Incident
        /\ unsent' = unsent \cup {r}
        /\ UNCHANGED <<cloud, events, clock, missed>>
  /\ UNCHANGED <<written, edited, engine, ahead, local, saving, cursor, pass, drain, job, deferral>>

-----------------------------------------------------------------------------
(***************************************************************************)
(* Deferred merges.                                                        *)
(***************************************************************************)
\* applyDeferred(): the ids are a set in order of insertion; what is new goes
\* last, the oldest is dropped.
Clamp(ids) == SubSeq(ids, IF Len(ids) > DeferMax THEN Len(ids) - DeferMax + 1 ELSE 1, Len(ids))
\* Mutant: an id that is there already is added again.
AddAgain(ids, more) == Clamp(ids \o more)
AddTo(ids, more) ==
  LET added[n \in 0..Len(more)] ==
        IF n = 0 THEN ids
        ELSE IF more[n] \in ToSet(added[n - 1]) THEN added[n - 1] ELSE Append(added[n - 1], more[n])
  IN  Clamp(added[Len(more)])
DroppedBy(ids, more) == (ToSet(ids) \cup ToSet(more)) \ ToSet(AddTo(ids, more))

deferRemoteMerge(r) ==
  /\ deferred' = AddTo(deferred, <<r>>)
  /\ persistDue' = TRUE
  /\ Miss(DroppedBy(deferred, <<r>>), "dropped")
  /\ UNCHANGED <<stored, hydrated>>

\* The timer of scheduleDeferredPersist().  Ids an earlier session stored and
\* this one has not read back are overwritten.
Persist ==
  /\ persistDue
  /\ persistDue' = FALSE
  /\ stored' = deferred
  /\ Miss(IF hydrated THEN {} ELSE ToSet(stored) \ ToSet(deferred), "overwritten")
  /\ UNCHANGED <<world, incidents, device, cursor, pass, drain, job, deferred, hydrated>>

-----------------------------------------------------------------------------
(***************************************************************************)
(* One row: what each writer does with a copy of it.                       *)
(***************************************************************************)
Work(w, pc, row, seen) == job' = [job EXCEPT ![w] = [pc |-> pc, row |-> row, seen |-> seen]]
Rest(w) == job' = [job EXCEPT ![w] = IdleJob]
At(w, pc) == job[w].pc = pc

\* fieldLevelMerge(): the value of the later stamp, where the server's own and
\* the device's both speak for the local record, and always the version of the
\* remote copy; a local deletedAt stays, for a live copy carries none.
Outdates(row, seen) == row.at >= seen.at /\ row.at >= seen.time
\* Mutant: the version is taken over, the value of the same instant is not.
MergeKeepsTie(seen, row) ==
  [here    |-> IF seen.here = "deleted" THEN "deleted" ELSE "live",
   version |-> row.write,
   value   |-> IF seen.here = "absent" \/ (Outdates(row, seen) /\ row.at # seen.time)
                THEN row.write ELSE seen.value,
   at      |-> row.at,
   time    |-> row.at]
Merge(seen, row) ==
  [here    |-> IF seen.here = "deleted" THEN "deleted" ELSE "live",
   version |-> row.write,
   value   |-> IF seen.here = "absent" \/ Outdates(row, seen) THEN row.write ELSE seen.value,
   at      |-> row.at,
   time    |-> row.at]

\* A writer stores records; it may take the last version back.
Store(records) ==
  /\ local' = [r \in Rows |-> IF r \in DOMAIN records THEN records[r] ELSE local[r]]
  /\ missed' = [r \in Rows |->
       IF r \notin DOMAIN records THEN missed[r]
       ELSE IF HasVersion(r, records[r]) THEN {}
       ELSE missed[r] \cup (IF HasVersion(r, local[r]) THEN {"stale"} ELSE {})]
  /\ UNCHANGED <<unsent, ahead>>

\* db.delete() with cloudSource reads the row; the realtime handler does not
\* look first whether it is deleted already.
Tombstone(w, row, seen) ==
  IF seen.here = "live" \/ (w = "realtime" /\ seen.here = "deleted")
  THEN Work(w, "tombstone", row, seen)
  ELSE Rest(w)

\* The pull or the realtime handler takes a row up: it reads the local one and
\* defers the merge if a mutation is pending.  A tombstone is applied without
\* a look at the queue.
TakeUp(w, row) ==
  LET seen == local[row.id]
  IN  \/ /\ row.gone
         /\ Tombstone(w, row, seen)
         /\ UNCHANGED <<deferral, history>>
      \/ /\ ~row.gone /\ (seen = Absent \/ pending[row.id] = NoOp)
         /\ Work(w, "store", row, seen)
         /\ UNCHANGED <<deferral, history>>
      \/ /\ ~row.gone /\ seen # Absent /\ pending[row.id] # NoOp
         /\ deferRemoteMerge(row.id)
         /\ Rest(w)

\* db.put() with cloudSource.
Put(w) ==
  /\ At(w, "store")
  /\ Store([r \in {job[w].row.id} |-> Merge(job[w].seen, job[w].row)])
  /\ Rest(w)
  /\ UNCHANGED <<world, incidents, saving, pending, cursor, pass, drain, deferral>>

\* db.delete() with cloudSource, the write of what it has read.
DeleteWrite(w) ==
  /\ At(w, "tombstone")
  /\ Store([r \in {job[w].row.id} |-> [job[w].seen EXCEPT !.here = "deleted"]])
  /\ Rest(w)
  /\ UNCHANGED <<world, incidents, saving, pending, cursor, pass, drain, deferral>>

-----------------------------------------------------------------------------
(***************************************************************************)
(* runPullRemoteChanges(), at most one at a time; a pass begins with the   *)
(* fetch of its first page.                                                *)
(***************************************************************************)
\* The pass ends, and the cursor is saved.
EndPass ==
  /\ pass' = IdlePass
  /\ cursor' = IF pass.tail > 0 THEN pass.tail ELSE cursor

\* The next page.  Rows that moved to the end since the last one leave others
\* before the offset in a version that no page has held.
FetchPage ==
  /\ pass.pc = "fetch"
  /\ LET page == Page(pass.offset)
         before == ToSet(SubSeq(Listing, 1, UpTo(pass.offset)))
     IN  IF page = <<>>
         THEN EndPass /\ UNCHANGED history
         ELSE /\ pass' = [pass EXCEPT !.pc = "rows",
                            !.todo = [i \in DOMAIN page |-> Copy(page[i])],
                            !.more = Len(page) = PageSize,
                            !.tail = cloud[Last(page)].at,
                            !.covered = @ \cup {Version(r) : r \in ToSet(page)}]
              /\ Miss({r \in before : Version(r) \notin pass.covered}, "skipped")
              /\ UNCHANGED cursor
  /\ UNCHANGED <<world, incidents, device, drain, job, deferral>>

\* A failed page ends the pass; the pages before it count.
PageFails ==
  /\ pass.pc = "fetch"
  /\ Incident
  /\ EndPass
  /\ UNCHANGED <<world, device, drain, job, deferral, history>>

PullRow ==
  /\ pass.pc = "rows"
  /\ At("pull", "idle")
  /\ pass.todo # <<>>
  /\ LET row == Head(pass.todo)
         new == ~row.gone /\ local[row.id].here = "absent"
     IN  /\ pass' = [pass EXCEPT !.todo = Tail(@),
                                 !.fresh = IF new THEN @ \cup {row} ELSE @]
         /\ IF new THEN Rest("pull") /\ UNCHANGED <<deferral, history>> ELSE TakeUp("pull", row)
  /\ UNCHANGED <<world, incidents, device, cursor, drain>>

\* Mutant: the pass ends a page before its cap.
MorePagesShort == pass.more /\ pass.offset + 2 * PageSize < PassMax

\* A full page is followed by another one, up to the cap of the pass.
MorePages == pass.more /\ pass.offset + PageSize < PassMax

\* bulkPut() of the rows that were absent when they were read.
EndPage ==
  /\ pass.pc = "rows"
  /\ At("pull", "idle")
  /\ pass.todo = <<>>
  /\ Store([r \in {row.id : row \in pass.fresh} |->
       Merge(Absent, CHOOSE row \in pass.fresh : row.id = r)])
  /\ \/ /\ MorePages
        /\ pass' = [pass EXCEPT !.pc = "fetch", !.offset = @ + PageSize, !.fresh = {}, !.more = FALSE]
        /\ UNCHANGED cursor
     \/ ~MorePages /\ EndPass
  /\ UNCHANGED <<world, incidents, saving, pending, drain, job, deferral>>

\* An exception leaves the pass without saving the cursor.
PassFails ==
  /\ pass.pc = "rows"
  /\ Incident
  /\ pass' = IdlePass
  /\ Rest("pull")
  /\ UNCHANGED <<world, device, cursor, drain, deferral, history>>

-----------------------------------------------------------------------------
(***************************************************************************)
(* The realtime handler.  Events arrive in any order; its errors are       *)
(* swallowed, which is an event that was lost.                             *)
(***************************************************************************)
Receive ==
  /\ At("realtime", "idle")
  /\ Incident
  /\ \E row \in events : events' = events \ {row} /\ TakeUp("realtime", row)
  /\ UNCHANGED <<cloud, clock, written, edited, engine, device, cursor, pass, drain>>

-----------------------------------------------------------------------------
(***************************************************************************)
(* drainDeferredRemoteMerges(), called where a cycle of the push engine    *)
(* ends, if it comes that far.  Memory is cleared, the stored ids stay     *)
(* until the outcome is known.                                             *)
(***************************************************************************)
\* The ids of every table are taken, this one's with the others.
StartDrain ==
  /\ ~drain.on
  /\ LET ids == IF hydrated THEN deferred ELSE AddTo(deferred, stored)
     IN  /\ ids # <<>>
         /\ drain' = [IdleDrain EXCEPT !.on = TRUE, !.ids = ids]
         /\ Miss(IF hydrated THEN {} ELSE DroppedBy(deferred, stored), "dropped")
  /\ hydrated' = TRUE
  /\ deferred' = <<>>
  /\ UNCHANGED <<world, incidents, device, cursor, pass, job, stored, persistDue>>

\* ensureDeferredHydrated() takes a read that fails for nothing stored, and
\* does not read again in this session.
HydrateFails ==
  /\ ~drain.on /\ ~hydrated
  /\ Incident
  /\ hydrated' = TRUE
  /\ Miss(ToSet(stored) \ ToSet(deferred), "unread")
  /\ UNCHANGED <<world, device, cursor, pass, drain, job, deferred, stored, persistDue>>

\* It is this table's turn.  All ids are asked for at once; too many are
\* refused.  An error, or no time left, defers all of them again.
DrainFetch ==
  /\ drain.ids # <<>>
  /\ \/ /\ Len(drain.ids) <= IdsMax
        /\ drain' = [drain EXCEPT !.ids = <<>>, !.todo = ByIds(drain.ids)]
        /\ UNCHANGED incidents
     \/ /\ IF Len(drain.ids) > IdsMax THEN UNCHANGED incidents ELSE Incident
        /\ drain' = [drain EXCEPT !.ids = <<>>, !.blocked = drain.ids]
  /\ UNCHANGED <<world, device, cursor, pass, job, deferral, history>>

\* An earlier table meets the rate limit.  Its ids are deferred again and the
\* drain ends; those of the tables after it are in no set any more, and what
\* memory holds is stored.
DrainBreaks ==
  /\ drain.ids # <<>>
  /\ Incident
  /\ drain' = IdleDrain
  /\ stored' = deferred
  /\ Miss(ToSet(drain.ids) \ ToSet(deferred), "refused")
  /\ UNCHANGED <<world, device, cursor, pass, job, deferred, persistDue, hydrated>>

\* A row whose mutation is still pending is deferred again.
DrainCheck ==
  /\ drain.on /\ drain.todo # <<>>
  /\ At("drain", "idle")
  /\ LET row == Head(drain.todo)
     IN  IF pending[row.id] # NoOp
         THEN /\ drain' = [drain EXCEPT !.todo = Tail(@), !.blocked = Append(@, row.id)]
              /\ UNCHANGED job
         ELSE /\ drain' = [drain EXCEPT !.todo = Tail(@)]
              /\ Work("drain", "read", row, Absent)
  /\ UNCHANGED <<world, incidents, device, cursor, pass, deferral, history>>

DrainRead ==
  /\ At("drain", "read")
  /\ LET row == job["drain"].row
     IN  IF ~row.gone THEN Work("drain", "store", row, local[row.id]) ELSE Tombstone("drain", row, local[row.id])
  /\ UNCHANGED <<world, incidents, device, cursor, pass, drain, deferral, history>>

\* An error on one row is reported; the row is not deferred again.
DrainRowFails ==
  /\ ~At("drain", "idle")
  /\ Incident
  /\ Miss({job["drain"].row.id}, "failed")
  /\ Rest("drain")
  /\ UNCHANGED <<world, device, cursor, pass, drain, deferral>>

\* Mutant: the ids of a request that failed are not deferred again.
EndDrainForgets ==
  /\ drain.on /\ drain.ids = <<>> /\ drain.todo = <<>>
  /\ At("drain", "idle")
  /\ stored' = deferred
  /\ drain' = IdleDrain
  /\ UNCHANGED <<world, incidents, device, cursor, pass, job, deferred, persistDue, hydrated, history>>

\* The outcome is kept in memory and stored.
EndDrain ==
  /\ drain.on /\ drain.ids = <<>> /\ drain.todo = <<>>
  /\ At("drain", "idle")
  /\ deferred' = AddTo(deferred, drain.blocked)
  /\ stored' = deferred'
  /\ Miss(DroppedBy(deferred, drain.blocked), "dropped")
  /\ drain' = IdleDrain
  /\ UNCHANGED <<world, incidents, device, cursor, pass, job, persistDue, hydrated>>

-----------------------------------------------------------------------------
(***************************************************************************)
(* The push engine: a 401 or the user pauses it, an expired session blocks *)
(* it, other tables have something to send.                                *)
(***************************************************************************)
EngineStops ==
  /\ engine = "quiet"
  /\ Incident
  /\ engine' = "kept"
  /\ UNCHANGED <<cloud, events, clock, written, edited, device, cursor, pass, drain, job, deferral,
                 history>>

EngineSettles ==
  /\ engine = "kept"
  /\ engine' = "quiet"
  /\ UNCHANGED <<cloud, events, clock, written, edited, incidents, device, cursor, pass, drain, job,
                 deferral, history>>

-----------------------------------------------------------------------------
\* What a session holds in memory only.
DrainRows == ToSet(drain.ids) \cup {row.id : row \in ToSet(drain.todo)} \cup ToSet(drain.blocked)
               \cup (IF At("drain", "idle") THEN {} ELSE {job["drain"].row.id})

\* The page is closed and opened again.
Restart ==
  /\ Incident
  /\ missed' = [r \in Rows |-> missed[r]
       \cup (IF ~HasVersion(r, local[r]) /\ r \in (ToSet(deferred) \cup DrainRows) \ ToSet(stored)
             THEN {"crash"} ELSE {})]
  /\ unsent' = unsent \cup {r \in Rows : saving[r] # NoOp}
  /\ saving' = [r \in Rows |-> NoOp]
  /\ events' = {}
  /\ pass' = IdlePass
  /\ drain' = IdleDrain
  /\ job' = [w \in Writers |-> IdleJob]
  /\ deferred' = <<>>
  /\ persistDue' = FALSE
  /\ hydrated' = FALSE
  /\ UNCHANGED <<cloud, clock, written, edited, engine, local, pending, cursor, stored, ahead>>

RowStep(w) == Put(w) \/ DeleteWrite(w)
PullStep == FetchPage \/ PullRow \/ EndPage \/ RowStep("pull")
DrainStep == DrainFetch \/ DrainCheck \/ DrainRead \/ EndDrain \/ RowStep("drain")

Next ==
  \/ \E r \in Shared, gone \in BOOLEAN : OtherDeviceWrites(r, gone)
  \/ \E r \in Rows : LateWrite(r)
  \/ \E r \in Shared : Edit(r) \/ Enqueue(r) \/ Settle(r)
  \/ Persist
  \/ PullStep \/ PageFails \/ PassFails
  \/ Receive
  \/ HydrateFails \/ StartDrain \/ DrainStep \/ DrainRowFails \/ DrainBreaks
  \/ RowStep("realtime")
  \/ EngineStops \/ EngineSettles
  \/ Restart

Spec == Init /\ [][Next]_vars

\* Ids wait for a drain.
DrainDue == ~drain.on /\ (deferred # <<>> \/ (~hydrated /\ stored # <<>>))

\* A cycle that finds nothing to send comes to the drain.
Quiet == engine = "quiet" /\ \A r \in Rows : pending[r] = NoOp

(***************************************************************************)
(* Fairness.  While the device is signed in, the timer of the pull starts  *)
(* one every few minutes, and its requests are answered or fail.  A drain  *)
(* that has begun goes on in the same way.  One begins if the cycles of    *)
(* the engine keep finding nothing to send: a batch that is thrown out of, *)
(* a pause or a block would keep them from it.  It is weak fairness of the *)
(* three, written with what enables them.  Nothing is assumed of users, of *)
(* other devices, of realtime events, of an operation ever being settled   *)
(* or of the engine ever being quiet.                                      *)
(***************************************************************************)
Fairness ==
  /\ []<>(engine = "kept") \/ []<><<PullStep>>_vars
  /\ []<>~drain.on \/ []<><<DrainStep>>_vars
  /\ []<>~(DrainDue /\ Quiet) \/ []<><<StartDrain>>_vars

FairSpec == Spec /\ Fairness

-----------------------------------------------------------------------------
Ids == Seq(Rows)
Writes == 0..(MaxWrites + MaxEdits + 1)
Times == 0..(MaxWrites + 2 * MaxEdits + 2)
Op == [write: Writes, base: Writes]
RowCopy == [id: Rows \cup {0}, write: Writes, at: Times, gone: BOOLEAN]
Record == [here: {"absent", "live", "deleted"}, version: Writes, value: Writes, at: Times, time: Int]

\* Every variable keeps the shape the code gives it; the deferred ids are a
\* set of bounded size.
TypeOK ==
  /\ cloud \in [Rows -> [write: Writes, at: Times, gone: BOOLEAN]]
  /\ events \subseteq RowCopy
  /\ clock \in Times /\ written \in Writes /\ edited \in 0..MaxEdits
  /\ engine \in Engines /\ incidents \in 0..MaxIncidents
  /\ local \in [Rows -> Record]
  /\ saving \in [Rows -> Op] /\ pending \in [Rows -> Op]
  /\ cursor \in Times
  /\ pass.pc \in {"fetch", "rows"} /\ pass.tail \in Times
  /\ \A ids \in {deferred, stored} :
       /\ ToSet(ids) \subseteq Rows
       /\ Len(ids) = Cardinality(ToSet(ids)) /\ Len(ids) <= DeferMax
  /\ missed \in [Rows -> SUBSET Causes] /\ unsent \subseteq Rows /\ ahead \subseteq Rows

\* The next incremental pull reads the row, or the device remembers to.
Remembered == ToSet(deferred) \cup DrainRows \cup (IF hydrated THEN {} ELSE ToSet(stored))
ToBeRead(r) == cloud[r].at >= cursor \/ r \in Remembered

\* No silent gap.  The cursor moves past rows that were not merged; a row the
\* device lacks the last version of is nevertheless one it will read, unless
\* one of the causes above has been at work.
NoSilentGap == \A r \in Rows : HasVersion(r, local[r]) \/ ToBeRead(r) \/ missed[r] # {}

\* The row holds the last value, if it has the last version and no edit to send.
ValueTold(r) ==
  /\ local[r].here = "live" /\ local[r].version = cloud[r].write
  /\ pending[r] = NoOp /\ saving[r] = NoOp
  => local[r].value = cloud[r].write

\* A version tells its value.  The merge takes the version over even when it
\* keeps the local value; a row that carries the last version, and has no edit
\* to send, nevertheless holds the last value, unless the queue has given an
\* edit of it up, or the clock of the device was ahead when it was edited.
VersionTellsValue == \A r \in Rows : ValueTold(r) \/ r \in unsent \/ r \in ahead

\* More ids than a request may carry wait for a drain.
OverIdsMax ==
  Cardinality(ToSet(deferred) \cup ToSet(drain.ids) \cup ToSet(drain.blocked)) > IdsMax

\* The rows stamped with the time of the cursor fill a pass.
Crowded == Cardinality({r \in Rows : cloud[r].at = cursor}) >= PassMax

\* Nothing keeps the row from coming: no cause, no operation, no refusal.
Reaches(r) == HasVersion(r, local[r]) \/ missed[r] # {} \/ OverIdsMax

\* Convergence.  When the writes end and the push engine is quiet, the pull
\* and the drain bring the last version of every row, with no help from
\* realtime events, unless a cause above has been at work, the drain is refused
\* for good, or a pass cannot get past the time of the cursor.
Converges == <>[](Quiet => \A r \in Rows : Reaches(r) \/ Crowded)
=============================================================================
