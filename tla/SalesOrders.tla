----------------------------- MODULE SalesOrders -----------------------------
(***************************************************************************)
(* Official numbers of sales orders: the pushes of the ERP devices through *)
(* the sync gateway (backend/services/cloudSyncStore.cjs, applyOp() on the *)
(* table sales_orders) and the conversions of portal requests and          *)
(* quotations (portalLifecycleService.cjs), which number the same rows     *)
(* from one counter (salesOrderNumbering.cjs, migration 0027).             *)
(*                                                                         *)
(* Grain: one action per database request and the code up to the next one. *)
(* Calls run concurrently, a request may fail or its answer be lost, and a *)
(* call may die between two requests.                                      *)
(*                                                                         *)
(* Abstractions.  One series; of a row only the version and the number are *)
(* kept.  A number is a value of the counter, 0 when there is none, or the *)
(* id of an order for a number from before the counter (the row ids of     *)
(* legacy orders are their numbers).  The stale and idempotency checks of  *)
(* applyOp() and deletions are those of CloudGateway.  A request stays     *)
(* open when it is converted: the conditional UPDATE looks the row up      *)
(* under the expected status, finds none and reports one change, so a      *)
(* conversion may be repeated and its state is not modelled.               *)
(***************************************************************************)
EXTENDS Naturals

CONSTANTS
  Orders,       \* row ids
  Calls,        \* concurrent gateway calls and conversions
  MaxVersion,   \* bound: row versions
  MaxClaims     \* bound: values of the counter

ASSUME OrdersAssumption ==
  /\ 0 \notin Orders
  /\ Orders \cap Nat = {}
  /\ MaxVersion \in Nat \ {0, 1}
  /\ MaxClaims \in Nat

VARIABLES
  order,        \* the rows of sales_orders
  last_value,   \* sales_order_number_counters
  call,         \* the calls in progress, and the conversions confirmed
  seen          \* the numbers devices may have seen: all ever stored

vars == <<order, last_value, call, seen>>

-----------------------------------------------------------------------------
Absent == [version |-> 0, number |-> 0]
Exists(i) == order[i].version > 0

\* isOfficialSalesOrderNumber() with the prefix the counter's values have.
IsOfficial(n) == n \in Nat \ {0}

\* base is the version the payload carries, 0 when it carries none.  blind
\* and overtaken are history: a read of the call failed, another call wrote
\* the order after this one had read it.
IdleCall == [pc |-> "idle", kind |-> "none", id |-> 0, base |-> 0, number |-> 0,
             minted |-> FALSE, retried |-> FALSE, blind |-> FALSE, overtaken |-> FALSE]

Init ==
  /\ \E legacy \in SUBSET Orders :
       order = [i \in Orders |-> IF i \in legacy THEN [version |-> 1, number |-> i] ELSE Absent]
  /\ last_value = 0
  /\ call = [c \in Calls |-> IdleCall]
  /\ seen = {i \in Orders : Exists(i)}

-----------------------------------------------------------------------------
At(c, pc) == call[c].pc = pc
Move(c, state) == call' = [call EXCEPT ![c] = state]
Goto(c, pc) == Move(c, [call[c] EXCEPT !.pc = pc])

\* The steps before a call has read the order.
Ahead == {"idle", "number", "claim", "adopt"}

\* A device pushes an order.  Its copy may be of any earlier version or none,
\* and the payload carries no number or one the device has seen.
Push(c, i) ==
  /\ call[c].pc \in {"idle", "confirmed"}
  /\ order[i].version < MaxVersion
  /\ \E base \in 0..order[i].version \cup {1}, number \in seen \cup {0} :
       Move(c, [IdleCall EXCEPT !.pc = "number", !.kind = "push", !.id = i,
                                !.base = base, !.number = number])
  /\ UNCHANGED <<order, last_value, seen>>

\* completeSalesOrder() for an order the ERP editor has saved under the id i,
\* which may have reached the cloud or not.
Convert(c, i) ==
  /\ call[c].pc \in {"idle", "confirmed"}
  /\ Move(c, [IdleCall EXCEPT !.pc = "claim", !.kind = "convert", !.id = i])
  /\ UNCHANGED <<order, last_value, seen>>

-----------------------------------------------------------------------------
(***************************************************************************)
(* The counter: one transaction of the database.  The claim may fail, also *)
(* after it has been made.                                                 *)
(***************************************************************************)
\* Mutant: the next number is computed from the rows.
AfterTheHighest == CHOOSE n \in 1..(MaxClaims + 1) :
                     /\ \A i \in Orders : IsOfficial(order[i].number) => order[i].number < n
                     /\ n = 1 \/ \E i \in Orders : order[i].number = n - 1

NextValue == last_value + 1

Claim(c, pc) ==
  /\ last_value < MaxClaims
  /\ last_value' = NextValue
  /\ Move(c, [call[c] EXCEPT !.pc = pc, !.number = NextValue, !.minted = TRUE,
                             !.retried = At(c, "remint")])

ClaimFails(c, state) ==
  /\ Move(c, state)
  /\ \/ UNCHANGED last_value
     \/ /\ last_value < MaxClaims
        /\ last_value' = NextValue

\* convertToOrder(): the number is claimed and the order confirmed, but the
\* INSERT names a column updated_at, which the query shim takes for an UPDATE
\* it cannot parse: no order is stored.
ConvertQuotation ==
  /\ last_value < MaxClaims
  /\ last_value' = NextValue
  /\ UNCHANGED <<order, call, seen>>

-----------------------------------------------------------------------------
(***************************************************************************)
(* ensureSalesOrderNumber().  An existing order keeps its number, or goes  *)
(* on with what the payload carries; a new one keeps an official number    *)
(* that is free, or gets one from the counter.  Whatever fails is caught   *)
(* and the payload saved as it is.                                         *)
(***************************************************************************)
\* Mutant: the number of the payload wins over the one of the row.
ReadKeepsPayload(c) ==
  LET i == call[c].id
  IN  /\ At(c, "number")
      /\ IF Exists(i)
         THEN Move(c, [call[c] EXCEPT !.pc = "write",
                         !.number = IF @ = 0 THEN order[i].number ELSE @])
         ELSE Goto(c, "mint")
      /\ UNCHANGED <<order, last_value, seen>>

ReadNumber(c) ==
  LET i == call[c].id
      create == IF IsOfficial(call[c].number) THEN "taken" ELSE "mint"
  IN  /\ At(c, "number")
      /\ \/ /\ Exists(i)
            /\ Move(c, [call[c] EXCEPT !.pc = "write",
                          !.number = IF order[i].number # 0 THEN order[i].number ELSE @])
         \/ ~Exists(i) /\ Goto(c, create)
         \/ Move(c, [call[c] EXCEPT !.pc = create, !.blind = TRUE])
      /\ UNCHANGED <<order, last_value, seen>>

Held(n, i) == n # 0 /\ \E j \in Orders \ {i} : order[j].number = n

CheckTaken(c) ==
  /\ At(c, "taken")
  /\ \/ Held(call[c].number, call[c].id) /\ Goto(c, "mint")
     \/ Goto(c, "write")
  /\ UNCHANGED <<order, last_value, seen>>

Mint(c) ==
  /\ At(c, "mint")
  /\ \/ Claim(c, "write")
     \/ ClaimFails(c, [call[c] EXCEPT !.pc = "write"])
  /\ UNCHANGED <<order, seen>>

-----------------------------------------------------------------------------
(***************************************************************************)
(* completeSalesOrder(): it claims a number, fails without one, and merges *)
(* it into the order it then reads.  A read that fails finds no order.     *)
(***************************************************************************)
ClaimForRequest(c) ==
  /\ At(c, "claim")
  /\ \/ Claim(c, "adopt")
     \/ ClaimFails(c, IdleCall)
  /\ UNCHANGED <<order, seen>>

\* Mutant: the order is saved without the version it was read with.
AdoptUnversioned(c) ==
  /\ At(c, "adopt")
  /\ Goto(c, "write")
  /\ UNCHANGED <<order, last_value, seen>>

Adopt(c) ==
  /\ At(c, "adopt")
  /\ order[call[c].id].version < MaxVersion
  /\ \/ Move(c, [call[c] EXCEPT !.pc = "write", !.base = order[call[c].id].version])
     \/ Move(c, [call[c] EXCEPT !.pc = "write", !.blind = TRUE])
  /\ UNCHANGED <<order, last_value, seen>>

-----------------------------------------------------------------------------
(***************************************************************************)
(* upsertRow(), for both.                                                  *)
(***************************************************************************)
\* A push ends.  A conversion takes any row it gets back for its order, also
\* the one a conflict answers with, and confirms its own number.
Outcomes(c) == {IdleCall} \cup
  (IF call[c].kind = "convert" THEN {[call[c] EXCEPT !.pc = "confirmed"]} ELSE {})

\* The row is written; the other calls that have read it are overtaken.
Store(c, version) ==
  LET i == call[c].id
  IN  /\ order' = [order EXCEPT ![i] = [version |-> version, number |-> call[c].number]]
      /\ seen' = seen \cup ({call[c].number} \ {0})
      /\ \E outcome \in Outcomes(c) :
           call' = [d \in Calls |->
             IF d = c THEN outcome
             ELSE IF call[d].id = i /\ call[d].pc \notin Ahead
                  THEN [call[d] EXCEPT !.overtaken = TRUE]
                  ELSE call[d]]

\* idx_sales_orders_official_number_unique.
\* Mutant: only the check before the write protects a number.
NoIndex(c) == FALSE

IndexRefuses(c) == Held(call[c].number, call[c].id)

\* Mutant: the retry is not given the payload.
RefusedWithoutPayload(c) ==
  /\ Move(c, [IdleCall EXCEPT !.pc = "remint"])
  /\ UNCHANGED <<order, seen>>

\* The gateway answers a refused official number with one fresh number.
Refused(c) ==
  /\ IF call[c].kind = "push" /\ IsOfficial(call[c].number) /\ ~call[c].retried
     THEN Goto(c, "remint") ELSE Move(c, IdleCall)
  /\ UNCHANGED <<order, seen>>

Patch(c) ==
  /\ At(c, "write")
  /\ call[c].base > 0
  /\ IF order[call[c].id].version # call[c].base
     THEN Goto(c, "reread") /\ UNCHANGED <<order, seen>>
     ELSE IF IndexRefuses(c) THEN Refused(c) ELSE Store(c, call[c].base + 1)
  /\ UNCHANGED last_value

\* Without a version, or when none was updated: a conflict or a create.
ReadRow(c) ==
  /\ \/ At(c, "reread")
     \/ At(c, "write") /\ call[c].base = 0
  /\ IF Exists(call[c].id)
     THEN \E outcome \in Outcomes(c) : Move(c, outcome)
     ELSE Goto(c, "insert")
  /\ UNCHANGED <<order, last_value, seen>>

\* POST with merge-duplicates: it overwrites a row that exists by now.
Insert(c) ==
  /\ At(c, "insert")
  /\ IF IndexRefuses(c) THEN Refused(c) ELSE Store(c, 1)
  /\ UNCHANGED last_value

Remint(c) ==
  /\ At(c, "remint")
  /\ \/ Claim(c, "write")
     \/ ClaimFails(c, IdleCall)
  /\ UNCHANGED <<order, seen>>

\* A request fails outside the code's own try blocks, or the process dies.
Abort(c) ==
  /\ call[c].pc \notin {"idle", "confirmed"}
  /\ Move(c, IdleCall)
  /\ UNCHANGED <<order, last_value, seen>>

-----------------------------------------------------------------------------
CallStep(c) ==
  \/ ReadNumber(c) \/ CheckTaken(c) \/ Mint(c)
  \/ ClaimForRequest(c) \/ Adopt(c)
  \/ Patch(c) \/ ReadRow(c) \/ Insert(c) \/ Remint(c)
  \/ Abort(c)

Next ==
  \/ \E c \in Calls, i \in Orders : Push(c, i) \/ Convert(c, i)
  \/ \E c \in Calls : CallStep(c)
  \/ ConvertQuotation

Spec == Init /\ [][Next]_vars

-----------------------------------------------------------------------------
Numbers == Nat \cup Orders

Call == [pc: {"idle", "number", "taken", "mint", "claim", "adopt", "write", "reread",
              "insert", "remint", "confirmed"},
         kind: {"none", "push", "convert"}, id: Orders \cup {0}, base: Nat, number: Numbers,
         minted: BOOLEAN, retried: BOOLEAN, blind: BOOLEAN, overtaken: BOOLEAN]

\* Every variable keeps the shape the code gives it: a call in progress names
\* an order.
TypeOK ==
  /\ order \in [Orders -> [version: Nat, number: Numbers]]
  /\ last_value \in Nat
  /\ call \in [Calls -> Call]
  /\ \A c \in Calls : call[c].pc # "idle" => call[c].id \in Orders /\ call[c].kind # "none"
  /\ seen \subseteq Numbers

\* A number from the counter belongs to the call that claimed it until it is
\* stored: no order bears it and no other call carries it.  So the index never
\* refuses it, and one fresh value settles a refusal (cloudSyncStore.cjs:1402,
\* "Consume ONE fresh value and retry once instead of failing forever").
FreshIsUnheld ==
  \A c \in Calls :
    call[c].minted /\ call[c].pc # "confirmed" =>
      /\ \A i \in Orders : order[i].number # call[c].number
      /\ \A d \in Calls \ {c} : call[d].number # call[c].number

\* A conversion confirms to the customer the number its order bears, until
\* another call writes the order, unless a read of the order failed or
\* another call wrote it while the conversion ran: then the conflict is taken
\* for success and the number confirmed was never stored.
ConfirmedIsStored ==
  \A c \in Calls :
    At(c, "confirmed") /\ ~call[c].blind /\ ~call[c].overtaken =>
      order[call[c].id].number = call[c].number

\* The number of a stored order is history (ensureSalesOrderNumber): a push
\* changes it only when its read failed, when another call wrote the order
\* after that read, or to give an order without a number the one its payload
\* carries.  It never mints for an order stored without a number, except to
\* replace a refused one, although cloudSyncStore.cjs:1394 says that "the
\* next push re-runs the mint".
Accountable(c) ==
  \/ call[c].kind = "convert" \/ call[c].blind \/ call[c].overtaken
  \/ order[call[c].id].number = 0 /\ (call[c].minted => call[c].retried)

NumberStands ==
  [][\A i \in Orders :
       Exists(i) /\ order'[i].number # order[i].number =>
         \E c \in Calls : call[c].id = i /\ call'[c] # call[c] /\ Accountable(c)]_vars

\* Whatever the calls do, the numbers are those of the register: each value
\* of the counter is given out once, and no two orders bear the same number.
Register == INSTANCE NumberRegister WITH
  last <- last_value, number <- [i \in Orders |-> order[i].number]

NumbersAreRegistered == Register!RegisterSpec
=============================================================================
