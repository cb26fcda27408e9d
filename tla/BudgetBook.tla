----------------------------- MODULE BudgetBook -----------------------------
(***************************************************************************)
(* What the transport budget ledger promises                               *)
(* (supabase/migrations/0029 to 0037, table transport_budget_events): a    *)
(* book of events to which one event at a time is added, and only if the   *)
(* checks of the insert trigger hold in the book as it then is.            *)
(*                                                                         *)
(* Amounts are kept without their sign, which the kind determines          *)
(* (chk_transport_budget_events_sign).  Of an event only what decides      *)
(* whether another may be added is kept; dates, providers, rates and       *)
(* methods are compared with the event or its target alone and never with  *)
(* what a concurrent call may change.                                      *)
(***************************************************************************)
EXTENDS Integers, FiniteSetsExt

CONSTANTS
  Ids,       \* physical ids of events
  Keys,      \* idempotency keys
  Sources,   \* landing costs
  Drafts,    \* the events callers append
  None

Kinds == {"SALES_ALLOCATION", "REVERSAL", "INBOUND_CONSUMPTION", "OUTBOUND_CONSUMPTION",
          "CONSUMPTION_CORRECTION", "CONSUMPTION_REVERSAL"}

\* Kinds that name another event (reversesEventId, correctsEventId).
Linked == {"REVERSAL", "CONSUMPTION_CORRECTION", "CONSUMPTION_REVERSAL"}

\* snapshot is sourceAmount, 0 when there is none.  via is history: whether
\* the event is appended by the backend's RPC or by the sync gateway.
Event == [id : Ids, key : Keys, kind : Kinds, amount : Nat \ {0}, target : Ids \cup {None},
          source : Sources \cup {None}, snapshot : Nat, via : {"rpc", "gateway"}]

ASSUME DraftsAssumption ==
  /\ Drafts \subseteq Event
  /\ \A d \in Drafts : d.kind \in Linked => d.target \in Ids
  /\ None \notin Ids \cup Sources

VARIABLES
  events,    \* the committed rows of transport_budget_events
  late       \* history: the reversals whose lock found no target to lock

book == <<events, late>>

-----------------------------------------------------------------------------
Total(S) == MapThenSumSet(LAMBDA e : e.amount, S)

Links(kind, i) == {e \in events : e.kind = kind /\ e.target = i}

\* Mutant: only ids and keys are unique.
ConflictsInKey(d, e) == d.id = e.id \/ d.key = e.key

\* No two rows may agree in one of the unique indexes.
Conflicts(d, e) ==
  \/ d.id = e.id
  \/ d.key = e.key
  \/ /\ d.kind = e.kind
     /\ d.kind \in {"CONSUMPTION_CORRECTION", "CONSUMPTION_REVERSAL"}
     /\ d.target = e.target

Refers(kind, d) == \E e \in events : e.id = d.target /\ e.kind = kind

ReversalFits(d) ==
  \A a \in events : a.id = d.target =>
    Total(Links("REVERSAL", d.target)) + d.amount <= a.amount

CorrectionFits(d) ==
  /\ \A c \in events : c.id = d.target =>
       c.snapshot > 0 /\ d.snapshot = c.snapshot /\ d.amount <= c.amount
  /\ Links("CONSUMPTION_CORRECTION", d.target) = {}

ConsumptionReversalFits(d) ==
  /\ \A c \in events : c.id = d.target => d.amount = c.amount
  /\ Links("CONSUMPTION_REVERSAL", d.target) = {}

\* Consumptions that carry no snapshot are not checked.
Capped(d) == d.kind = "INBOUND_CONSUMPTION" /\ d.source # None /\ d.snapshot > 0

Consumed(s) == {e \in events : e.kind = "INBOUND_CONSUMPTION" /\ e.source = s}
Corrected(s) == UNION {Links("CONSUMPTION_CORRECTION", e.id) : e \in Consumed(s)}
Net(s) == Total(Consumed(s)) - Total(Corrected(s))

InboundFits(d) ==
  \E cap \in {d.snapshot} \cup {e.snapshot : e \in Consumed(d.source)} :
    Net(d.source) + d.amount <= cap

\* transport_budget_events_validate_insert()
Permitted(d) ==
  /\ d.kind = "REVERSAL" => Refers("SALES_ALLOCATION", d) /\ ReversalFits(d)
  /\ d.kind = "CONSUMPTION_CORRECTION" => Refers("INBOUND_CONSUMPTION", d) /\ CorrectionFits(d)
  /\ d.kind = "CONSUMPTION_REVERSAL" => Refers("OUTBOUND_CONSUMPTION", d) /\ ConsumptionReversalFits(d)
  /\ Capped(d) => InboundFits(d)

\* The two exceptions: a reversal that locked nothing, and the others of its
\* allocation; a source consumed without a snapshot.
Unserialized(d) ==
  /\ d.kind = "REVERSAL"
  /\ d.id \in late' \/ \E e \in Links("REVERSAL", d.target) : e.id \in late
  /\ Refers("SALES_ALLOCATION", d)
Unchecked(d) == Capped(d) /\ \E e \in Consumed(d.source) : e.snapshot = 0

-----------------------------------------------------------------------------
BookInit == events = {} /\ late = {}

Append(d) ==
  /\ \A e \in events : ~Conflicts(d, e)
  /\ late' \in {late, late \cup {d.id}}
  /\ Permitted(d) \/ Unserialized(d) \/ Unchecked(d)
  /\ events' = events \cup {d}

BookNext == \E d \in Drafts : Append(d)

BookSpec == BookInit /\ [][BookNext]_book

-----------------------------------------------------------------------------
\* "concurrent reversals of the same allocation serialize here instead of
\* racing past the cap" (migration 0035, the lock on the target): together
\* they give back no more than was allocated, unless one of them found no row
\* to lock because the allocation was committed only after it had looked.
ReversalsWithinAllocation ==
  \A a \in events : a.kind = "SALES_ALLOCATION" =>
    \/ Total(Links("REVERSAL", a.id)) <= a.amount
    \/ \E e \in Links("REVERSAL", a.id) : e.id \in late

\* What a landing cost has consumed, less its corrections, stays within the
\* largest source amount its consumptions carry, if all of them carry one.
ConsumptionWithinSource ==
  \A s \in Sources :
    \/ \E e \in Consumed(s) : Net(s) <= e.snapshot \/ e.snapshot = 0
    \/ Consumed(s) = {}
=============================================================================
