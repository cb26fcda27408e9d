-------------------------- MODULE SalesOrdersProofs --------------------------
(***************************************************************************)
(* Proofs about the numbers of sales orders for every value of the         *)
(* constants: any number of orders, concurrent calls, versions and claims. *)
(***************************************************************************)
EXTENDS SalesOrders, TLAPS

USE OrdersAssumption

-----------------------------------------------------------------------------
(***************************************************************************)
(* How a step changes the calls.                                           *)
(***************************************************************************)
\* A call in progress names an order.
Named(x) == x.pc # "idle" => x.id \in Orders /\ x.kind # "none"

CallsOK == call \in [Calls -> Call] /\ \A c \in Calls : Named(call[c])

LEMMA MoveIs ==
  ASSUME CallsOK, NEW c \in Calls, NEW x, Move(c, x)
  PROVE  /\ call'[c] = x
         /\ \A d \in Calls : d # c => call'[d] = call[d]
         /\ x \in Call /\ Named(x) => CallsOK'
BY DEF CallsOK, Move, Named

LEMMA IdleCallType == IdleCall \in Call /\ Named(IdleCall)
BY DEF IdleCall, Call, Numbers, Named

\* Goto() changes the step a call is at and nothing else.
LEMMA GotoIs ==
  ASSUME CallsOK, NEW c \in Calls,
         NEW pc \in {"taken", "mint", "write", "reread", "insert", "remint"},
         ~At(c, "idle"), Goto(c, pc)
  PROVE  /\ call'[c] = [call[c] EXCEPT !.pc = pc]
         /\ \A d \in Calls : d # c => call'[d] = call[d]
         /\ CallsOK'
<1> DEFINE x == [call[c] EXCEPT !.pc = pc]
<1>1. x \in Call /\ Named(x)
  <2>1. call[c] \in Call /\ Named(call[c]) /\ call[c].pc # "idle"
    BY DEF CallsOK, At
  <2> QED BY <2>1 DEF Call, Named
<1>2. Move(c, x)
  BY DEF Goto
<1> HIDE DEF x
<1>3. call'[c] = x /\ (\A d \in Calls : d # c => call'[d] = call[d]) /\ CallsOK'
  BY <1>1, <1>2, MoveIs
<1> QED BY <1>3 DEF x

\* A claim gives the call the next value.
LEMMA ClaimIs ==
  ASSUME CallsOK, last_value \in Nat, NEW c \in Calls, NEW pc \in {"write", "adopt"},
         ~At(c, "idle"), Claim(c, pc)
  PROVE  /\ call'[c].pc = pc /\ call'[c].number = last_value + 1 /\ call'[c].minted
         /\ call'[c].retried <=> call[c].pc = "remint"
         /\ call'[c].id = call[c].id /\ call'[c].kind = call[c].kind /\ call'[c].base = call[c].base
         /\ call'[c].blind = call[c].blind /\ call'[c].overtaken = call[c].overtaken
         /\ \A d \in Calls : d # c => call'[d] = call[d]
         /\ CallsOK'
         /\ last_value' = last_value + 1
<1> DEFINE x == [call[c] EXCEPT !.pc = pc, !.number = last_value + 1, !.minted = TRUE,
                                !.retried = At(c, "remint")]
<1>1. x \in Call /\ Named(x)
  <2>1. call[c] \in Call /\ Named(call[c]) /\ call[c].pc # "idle"
    BY DEF CallsOK, At
  <2>2. At(c, "remint") \in BOOLEAN /\ last_value + 1 \in Numbers
    BY DEF At, Numbers
  <2> QED BY <2>1, <2>2 DEF Call, Named
<1>2. Move(c, x) /\ last_value' = last_value + 1
  BY DEF Claim, NextValue
<1> HIDE DEF x
<1>3. call'[c] = x /\ (\A d \in Calls : d # c => call'[d] = call[d]) /\ CallsOK'
  BY <1>1, <1>2, MoveIs
<1>4. call[c] \in Call
  BY DEF CallsOK
<1>5. /\ x.pc = pc /\ x.number = last_value + 1 /\ x.minted
      /\ x.retried <=> call[c].pc = "remint"
      /\ x.id = call[c].id /\ x.kind = call[c].kind /\ x.base = call[c].base
      /\ x.blind = call[c].blind /\ x.overtaken = call[c].overtaken
  BY <1>4 DEF x, Call, At
<1> QED BY <1>2, <1>3, <1>5

\* What a call leaves behind when it ends.
LEMMA OutcomeIs ==
  ASSUME CallsOK, NEW c \in Calls, ~At(c, "idle"), NEW outcome \in Outcomes(c)
  PROVE  /\ outcome \in Call /\ Named(outcome)
         /\ \/ outcome = IdleCall
            \/ call[c].kind = "convert" /\ outcome = [call[c] EXCEPT !.pc = "confirmed"]
<1>1. CASE outcome = IdleCall
  BY <1>1, IdleCallType
<1>2. CASE call[c].kind = "convert" /\ outcome = [call[c] EXCEPT !.pc = "confirmed"]
  <2>1. call[c] \in Call /\ Named(call[c]) /\ call[c].pc # "idle"
    BY DEF CallsOK, At
  <2> QED BY <1>2, <2>1 DEF Call, Named
<1> QED BY <1>1, <1>2 DEF Outcomes

\* A write: the order, the numbers seen, the end of the call, and the others.
Overtaken(c, d) ==
  IF call[d].id = call[c].id /\ call[d].pc \notin Ahead
  THEN call'[d] = [call[d] EXCEPT !.overtaken = TRUE] ELSE call'[d] = call[d]

LEMMA StoreIs ==
  ASSUME CallsOK, NEW c \in Calls, ~At(c, "idle"), NEW version, Store(c, version)
  PROVE  /\ call'[c] \in Outcomes(c)
         /\ \A d \in Calls : d # c => Overtaken(c, d)
         /\ CallsOK'
         /\ order' = [order EXCEPT ![call[c].id] = [version |-> version, number |-> call[c].number]]
         /\ seen' = seen \cup ({call[c].number} \ {0})
<1>1. PICK outcome \in Outcomes(c) :
        call' = [d \in Calls |->
          IF d = c THEN outcome
          ELSE IF call[d].id = call[c].id /\ call[d].pc \notin Ahead
               THEN [call[d] EXCEPT !.overtaken = TRUE]
               ELSE call[d]]
  BY DEF Store
<1>2. call'[c] = outcome /\ \A d \in Calls : d # c => Overtaken(c, d)
  BY <1>1 DEF Overtaken
<1>3. ASSUME NEW d \in Calls PROVE call'[d] \in Call /\ Named(call'[d])
  <2>1. CASE d = c
    BY <1>2, <2>1, OutcomeIs
  <2>2. CASE d # c
    <3>1. call[d] \in Call /\ Named(call[d])
      BY DEF CallsOK
    <3> QED BY <1>2, <2>2, <3>1 DEF Overtaken, Call, Named
  <2> QED BY <2>1, <2>2
<1>4. CallsOK'
  BY <1>1, <1>3 DEF CallsOK
<1> QED BY <1>2, <1>4 DEF Store

-----------------------------------------------------------------------------
(***************************************************************************)
(* Type correctness.                                                       *)
(***************************************************************************)
\* A failed claim leaves the counter or moves it on.
LEMMA ClaimFailsIs ==
  ASSUME last_value \in Nat, NEW c \in Calls, NEW x, ClaimFails(c, x)
  PROVE  Move(c, x) /\ last_value' \in Nat /\ last_value' \in {last_value, last_value + 1}
BY DEF ClaimFails, NextValue

\* A write of the row keeps the types.
LEMMA StoreType ==
  ASSUME TypeOK, NEW c \in Calls, ~At(c, "idle"), NEW version \in Nat, Store(c, version),
         UNCHANGED last_value
  PROVE  TypeOK'
<1>1. CallsOK
  BY DEF TypeOK, CallsOK, Named
<1>2. call[c].id \in Orders /\ call[c].number \in Numbers
  BY DEF TypeOK, At, Call
<1>3. /\ CallsOK'
      /\ order' = [order EXCEPT ![call[c].id] = [version |-> version, number |-> call[c].number]]
      /\ seen' = seen \cup ({call[c].number} \ {0})
  BY <1>1, StoreIs
<1>4. order' \in [Orders -> [version: Nat, number: Numbers]] /\ seen' \subseteq Numbers
  BY <1>2, <1>3 DEF TypeOK
<1> QED BY <1>3, <1>4 DEF TypeOK, CallsOK, Named

LEMMA RefusedIs ==
  ASSUME CallsOK, NEW c \in Calls, At(c, "write") \/ At(c, "insert"), Refused(c)
  PROVE  /\ \A d \in Calls : d # c => call'[d] = call[d]
         /\ CallsOK'
         /\ UNCHANGED <<order, seen>>
         /\ \/ call'[c] = IdleCall
            \/ /\ call'[c] = [call[c] EXCEPT !.pc = "remint"]
               /\ call[c].kind = "push" /\ ~call[c].retried /\ IsOfficial(call[c].number)
<1>1. ~At(c, "idle")
  BY DEF At
<1>2. CASE Goto(c, "remint") /\ call[c].kind = "push" /\ ~call[c].retried /\ IsOfficial(call[c].number)
  BY <1>1, <1>2, GotoIs DEF Refused
<1>3. CASE Move(c, IdleCall)
  BY <1>3, MoveIs, IdleCallType DEF Refused
<1> QED BY <1>2, <1>3 DEF Refused

LEMMA CallStepType ==
  ASSUME TypeOK, NEW c \in Calls, CallStep(c)
  PROVE  TypeOK'
<1>t. /\ CallsOK /\ last_value \in Nat
      /\ call[c] \in Call /\ (call[c].pc # "idle" => call[c].id \in Orders /\ call[c].kind # "none")
      /\ order \in [Orders -> [version: Nat, number: Numbers]]
  BY DEF TypeOK, CallsOK, Named
<1>q. ASSUME CallsOK', UNCHANGED <<order, seen>>, last_value' \in Nat PROVE TypeOK'
  BY <1>q DEF TypeOK, CallsOK, Named
<1>1. CASE ReadNumber(c)
  <2>1. ~At(c, "idle") /\ call[c].id \in Orders
    BY <1>1, <1>t DEF ReadNumber, At
  <2>2. PICK pc \in {"taken", "mint", "write"}, n \in Numbers, b \in BOOLEAN :
          Move(c, [call[c] EXCEPT !.pc = pc, !.number = n, !.blind = b])
    <3>1. order[call[c].id].number \in Numbers /\ call[c].number \in Numbers /\ call[c].blind \in BOOLEAN
      BY <1>t, <2>1 DEF Call
    <3> DEFINE create == IF IsOfficial(call[c].number) THEN "taken" ELSE "mint"
    <3>2. create \in {"taken", "mint"}
      OBVIOUS
    <3> HIDE DEF create
    <3>3. \/ Move(c, [call[c] EXCEPT !.pc = "write",
                        !.number = IF order[call[c].id].number # 0 THEN order[call[c].id].number ELSE @])
          \/ Goto(c, create)
          \/ Move(c, [call[c] EXCEPT !.pc = create, !.blind = TRUE])
      BY <1>1 DEF ReadNumber, create
    <3>4. CASE Move(c, [call[c] EXCEPT !.pc = "write",
                        !.number = IF order[call[c].id].number # 0 THEN order[call[c].id].number ELSE @])
      <4> DEFINE n == IF order[call[c].id].number # 0 THEN order[call[c].id].number ELSE call[c].number
      <4>1. [call[c] EXCEPT !.pc = "write", !.number = n]
              = [call[c] EXCEPT !.pc = "write", !.number = n, !.blind = call[c].blind]
        BY <1>t DEF Call
      <4> QED BY <3>1, <3>4, <4>1
    <3>5. CASE Goto(c, create)
      <4>1. [call[c] EXCEPT !.pc = create]
              = [call[c] EXCEPT !.pc = create, !.number = call[c].number, !.blind = call[c].blind]
        BY <1>t DEF Call
      <4> QED BY <3>1, <3>2, <3>5, <4>1 DEF Goto
    <3>6. CASE Move(c, [call[c] EXCEPT !.pc = create, !.blind = TRUE])
      <4>1. [call[c] EXCEPT !.pc = create, !.blind = TRUE]
              = [call[c] EXCEPT !.pc = create, !.number = call[c].number, !.blind = TRUE]
        BY <1>t DEF Call
      <4> QED BY <3>1, <3>2, <3>6, <4>1
    <3> QED BY <3>3, <3>4, <3>5, <3>6
  <2> DEFINE x == [call[c] EXCEPT !.pc = pc, !.number = n, !.blind = b]
  <2>3. x \in Call /\ Named(x)
    BY <1>t, <2>1 DEF Call, Named, At
  <2> HIDE DEF x
  <2>4. CallsOK'
    BY <1>t, <2>2, <2>3, MoveIs DEF x
  <2> QED BY <1>1, <1>q, <1>t, <2>4 DEF ReadNumber
<1>2. CASE CheckTaken(c)
  <2>1. CallsOK'
    BY <1>2, <1>t, GotoIs DEF CheckTaken, At
  <2> QED BY <1>2, <1>q, <1>t, <2>1 DEF CheckTaken
<1>3. CASE Mint(c)
  <2>1. CASE Claim(c, "write")
    BY <1>3, <1>q, <1>t, <2>1, ClaimIs DEF Mint, At
  <2>2. CASE ClaimFails(c, [call[c] EXCEPT !.pc = "write"])
    BY <1>3, <1>q, <1>t, <2>2, ClaimFailsIs, GotoIs DEF Mint, At, Goto
  <2> QED BY <1>3, <2>1, <2>2 DEF Mint
<1>4. CASE ClaimForRequest(c)
  <2>1. CASE Claim(c, "adopt")
    BY <1>4, <1>q, <1>t, <2>1, ClaimIs DEF ClaimForRequest, At
  <2>2. CASE ClaimFails(c, IdleCall)
    BY <1>4, <1>q, <1>t, <2>2, ClaimFailsIs, MoveIs, IdleCallType DEF ClaimForRequest
  <2> QED BY <1>4, <2>1, <2>2 DEF ClaimForRequest
<1>5. CASE Adopt(c)
  <2>1. call[c].id \in Orders /\ order[call[c].id].version \in Nat
    BY <1>5, <1>t DEF Adopt, At
  <2> DEFINE x == [call[c] EXCEPT !.pc = "write", !.base = order[call[c].id].version]
             y == [call[c] EXCEPT !.pc = "write", !.blind = TRUE]
  <2>2. x \in Call /\ Named(x) /\ y \in Call /\ Named(y)
    BY <1>5, <1>t, <2>1 DEF Adopt, Call, Named, At
  <2>3. Move(c, x) \/ Move(c, y)
    BY <1>5 DEF Adopt
  <2> HIDE DEF x, y
  <2>4. CallsOK'
    BY <1>t, <2>2, <2>3, MoveIs
  <2> QED BY <1>5, <1>q, <1>t, <2>4 DEF Adopt
<1>6. CASE Patch(c)
  <2>1. ~At(c, "idle") /\ call[c].base + 1 \in Nat
    BY <1>6, <1>t DEF Patch, At, Call
  <2>2. CASE Goto(c, "reread") /\ UNCHANGED <<order, seen>>
    BY <1>6, <1>q, <1>t, <2>1, <2>2, GotoIs DEF Patch
  <2>3. CASE Refused(c)
    BY <1>6, <1>q, <1>t, <2>3, RefusedIs DEF Patch
  <2>4. CASE Store(c, call[c].base + 1)
    BY <1>6, <2>1, <2>4, StoreType DEF Patch
  <2> QED BY <1>6, <2>2, <2>3, <2>4 DEF Patch
<1>7. CASE ReadRow(c)
  <2>1. ~At(c, "idle")
    BY <1>7 DEF ReadRow, At
  <2>2. CallsOK'
    <3>1. CASE Goto(c, "insert")
      BY <1>t, <2>1, <3>1, GotoIs
    <3>2. ASSUME NEW outcome \in Outcomes(c), Move(c, outcome) PROVE CallsOK'
      BY <1>t, <2>1, <3>2, OutcomeIs, MoveIs
    <3> QED BY <1>7, <3>1, <3>2 DEF ReadRow
  <2> QED BY <1>7, <1>q, <1>t, <2>2 DEF ReadRow
<1>8. CASE Insert(c)
  <2>1. CASE Refused(c)
    BY <1>8, <1>q, <1>t, <2>1, RefusedIs DEF Insert
  <2>2. CASE Store(c, 1)
    BY <1>8, <2>2, StoreType DEF Insert, At
  <2> QED BY <1>8, <2>1, <2>2 DEF Insert
<1>9. CASE Remint(c)
  <2>1. CASE Claim(c, "write")
    BY <1>9, <1>q, <1>t, <2>1, ClaimIs DEF Remint, At
  <2>2. CASE ClaimFails(c, IdleCall)
    BY <1>9, <1>q, <1>t, <2>2, ClaimFailsIs, MoveIs, IdleCallType DEF Remint
  <2> QED BY <1>9, <2>1, <2>2 DEF Remint
<1>10. CASE Abort(c)
  BY <1>10, <1>q, <1>t, MoveIs, IdleCallType DEF Abort
<1> QED BY <1>1, <1>2, <1>3, <1>4, <1>5, <1>6, <1>7, <1>8, <1>9, <1>10 DEF CallStep

\* What a call that begins looks like.
LEMMA BeginIs ==
  ASSUME CallsOK, seen \subseteq Numbers, order \in [Orders -> [version: Nat, number: Numbers]],
         NEW c \in Calls, NEW i \in Orders, Push(c, i) \/ Convert(c, i)
  PROVE  /\ CallsOK' /\ UNCHANGED <<order, last_value, seen>>
         /\ \A d \in Calls : d # c => call'[d] = call[d]
         /\ ~call'[c].minted /\ ~call'[c].retried /\ call'[c].number \in seen \cup {0}
         /\ \/ call'[c].pc = "number" /\ call'[c].kind = "push"
            \/ call'[c].pc = "claim" /\ call'[c].kind = "convert"
<1>1. CASE Push(c, i)
  <2>1. PICK base \in 0..order[i].version \cup {1}, number \in seen \cup {0} :
          Move(c, [IdleCall EXCEPT !.pc = "number", !.kind = "push", !.id = i,
                                   !.base = base, !.number = number])
    BY <1>1 DEF Push
  <2> DEFINE x == [IdleCall EXCEPT !.pc = "number", !.kind = "push", !.id = i,
                                   !.base = base, !.number = number]
  <2>2. base \in Nat /\ number \in Numbers
    BY DEF Numbers
  <2>3. x \in Call /\ Named(x)
    BY <2>2 DEF IdleCall, Call, Named, Numbers
  <2>4. x.pc = "number" /\ x.kind = "push" /\ ~x.minted /\ ~x.retried /\ x.number = number
    BY DEF IdleCall
  <2>5. Move(c, x)
    BY <2>1
  <2> HIDE DEF x
  <2>6. call'[c] = x /\ (\A d \in Calls : d # c => call'[d] = call[d]) /\ CallsOK'
    BY <2>3, <2>5, MoveIs
  <2> QED BY <1>1, <2>4, <2>6 DEF Push
<1>2. CASE Convert(c, i)
  <2> DEFINE x == [IdleCall EXCEPT !.pc = "claim", !.kind = "convert", !.id = i]
  <2>1. x \in Call /\ Named(x)
    BY DEF IdleCall, Call, Named, Numbers
  <2>2. x.pc = "claim" /\ x.kind = "convert" /\ ~x.minted /\ ~x.retried /\ x.number = 0
    BY DEF IdleCall
  <2>3. Move(c, x)
    BY <1>2 DEF Convert
  <2> HIDE DEF x
  <2>4. call'[c] = x /\ (\A d \in Calls : d # c => call'[d] = call[d]) /\ CallsOK'
    BY <2>1, <2>3, MoveIs
  <2> QED BY <1>2, <2>2, <2>4 DEF Convert
<1> QED BY <1>1, <1>2

\* Every variable keeps the shape the code gives it.
THEOREM TypeCorrect == Spec => []TypeOK
<1>1. Init => TypeOK
  <2> SUFFICES ASSUME Init PROVE TypeOK
    OBVIOUS
  <2>1. order \in [Orders -> [version: Nat, number: Numbers]]
    BY DEF Init, Absent, Numbers
  <2>2. call \in [Calls -> Call] /\ \A c \in Calls : call[c].pc = "idle"
    BY IdleCallType DEF Init, IdleCall
  <2>3. seen \subseteq Numbers /\ last_value \in Nat
    BY DEF Init, Numbers
  <2> QED BY <2>1, <2>2, <2>3 DEF TypeOK
<1>2. TypeOK /\ [Next]_vars => TypeOK'
  <2> SUFFICES ASSUME TypeOK, [Next]_vars PROVE TypeOK'
    OBVIOUS
  <2>1. ASSUME NEW c \in Calls, NEW i \in Orders, Push(c, i) \/ Convert(c, i) PROVE TypeOK'
    <3>1. CallsOK /\ seen \subseteq Numbers /\ order \in [Orders -> [version: Nat, number: Numbers]]
      BY DEF TypeOK, CallsOK, Named
    <3>2. CallsOK' /\ UNCHANGED <<order, last_value, seen>>
      BY <2>1, <3>1, BeginIs
    <3> QED BY <3>2 DEF TypeOK, CallsOK, Named
  <2>2. ASSUME NEW c \in Calls, CallStep(c) PROVE TypeOK'
    BY <2>2, CallStepType
  <2>3. CASE ConvertQuotation
    BY <2>3 DEF ConvertQuotation, NextValue, TypeOK
  <2>4. CASE UNCHANGED vars
    BY <2>4 DEF vars, TypeOK
  <2> QED BY <2>1, <2>2, <2>3, <2>4 DEF Next
<1> QED BY <1>1, <1>2, PTL DEF Spec

-----------------------------------------------------------------------------
(***************************************************************************)
(* Every number in use was given out; a number fresh from the counter is   *)
(* in no order and with no other call.                                     *)
(***************************************************************************)
Fresh(c) ==
  call[c].minted /\ call[c].pc # "confirmed" =>
    /\ call[c].number \notin seen \cup {0}
    /\ \A d \in Calls \ {c} : call[d].number # call[c].number

GivenOut(n) == n \in Nat => n <= last_value

Unminted(c) == call[c].pc \in {"number", "taken", "mint", "claim"} => ~call[c].minted

Numbered ==
  /\ \A i \in Orders : order[i].number \in seen \cup {0}
  /\ \A n \in seen : GivenOut(n)
  /\ \A c \in Calls : GivenOut(call[c].number) /\ Fresh(c) /\ Unminted(c)

\* A step of one call that writes no row and takes no new number.
LEMMA QuietNumbers ==
  ASSUME TypeOK, Numbered, NEW c \in Calls,
         \A d \in Calls : d # c => call'[d] = call[d],
         UNCHANGED <<order, seen>>, last_value' \in {last_value, last_value + 1},
         \/ /\ call'[c].number = call[c].number
            /\ call'[c].minted => call[c].minted /\ call[c].pc # "confirmed"
         \/ ~call'[c].minted /\ call'[c].number \in seen \cup {0},
         Unminted(c)'
  PROVE  Numbered'
<1>1. last_value \in Nat /\ last_value' \in Nat /\ last_value <= last_value'
  BY DEF TypeOK
<1>2. (\A i \in Orders : order'[i].number \in seen' \cup {0}) /\ \A n \in seen' : GivenOut(n)'
  BY <1>1 DEF Numbered, GivenOut
<1>3. ASSUME NEW d \in Calls PROVE GivenOut(call[d].number)'
  <2>1. CASE d # c \/ call'[c].number = call[c].number
    BY <1>1, <2>1 DEF Numbered, GivenOut
  <2>2. CASE d = c /\ call'[c].number \in seen \cup {0}
    BY <1>1, <2>2 DEF Numbered, GivenOut
  <2> QED BY <2>1, <2>2
<1>4. ASSUME NEW d \in Calls PROVE Fresh(d)'
  <2>1. CASE d = c
    BY <2>1 DEF Numbered, Fresh
  <2>2. CASE d # c
    BY <2>2 DEF Numbered, Fresh
  <2> QED BY <2>1, <2>2
<1>5. ASSUME NEW d \in Calls PROVE Unminted(d)'
  BY DEF Numbered, Unminted
<1> QED BY <1>2, <1>3, <1>4, <1>5 DEF Numbered

\* The next value is new to every order and every call.
LEMMA ClaimNumbers ==
  ASSUME TypeOK, Numbered, NEW c \in Calls, NEW pc \in {"write", "adopt"},
         ~At(c, "idle"), Claim(c, pc), UNCHANGED <<order, seen>>
  PROVE  Numbered'
<1>1. /\ CallsOK /\ last_value \in Nat
      /\ \A d \in Calls : call[d].number \in Nat \cup Orders
      /\ \A n \in seen : n \in Nat \cup Orders
  BY DEF TypeOK, CallsOK, Named, Call, Numbers
<1>2. /\ call'[c].pc = pc /\ call'[c].number = last_value + 1
      /\ \A d \in Calls : d # c => call'[d] = call[d]
      /\ last_value' = last_value + 1
  BY <1>1, ClaimIs
<1>3. (\A n \in seen : n # last_value + 1) /\ \A d \in Calls : call[d].number # last_value + 1
  BY <1>1 DEF Numbered, GivenOut
<1>4. (\A i \in Orders : order'[i].number \in seen' \cup {0}) /\ \A n \in seen' : GivenOut(n)'
  BY <1>1, <1>2 DEF Numbered, GivenOut
<1>5. ASSUME NEW d \in Calls PROVE GivenOut(call[d].number)'
  <2>1. CASE d = c
    BY <1>1, <1>2, <2>1 DEF GivenOut
  <2>2. CASE d # c
    BY <1>1, <1>2, <2>2 DEF Numbered, GivenOut
  <2> QED BY <2>1, <2>2
<1>6. ASSUME NEW d \in Calls PROVE Fresh(d)'
  <2>1. CASE d = c
    BY <1>1, <1>2, <1>3, <2>1 DEF Fresh
  <2>2. CASE d # c
    BY <1>2, <1>3, <2>2 DEF Numbered, Fresh
  <2> QED BY <2>1, <2>2
<1>7. ASSUME NEW d \in Calls PROVE Unminted(d)'
  BY <1>2 DEF Numbered, Unminted
<1> QED BY <1>4, <1>5, <1>6, <1>7 DEF Numbered

\* An order takes the number of the call that writes it.
LEMMA StoreNumbers ==
  ASSUME TypeOK, Numbered, NEW c \in Calls, ~At(c, "idle"), NEW version \in Nat,
         Store(c, version), UNCHANGED last_value
  PROVE  Numbered'
<1>1. CallsOK /\ call[c].id \in Orders /\ order \in [Orders -> [version: Nat, number: Numbers]]
  BY DEF TypeOK, CallsOK, Named, At
<1>2. /\ call'[c] \in Outcomes(c)
      /\ \A d \in Calls : d # c => Overtaken(c, d)
      /\ order' = [order EXCEPT ![call[c].id] = [version |-> version, number |-> call[c].number]]
      /\ seen' = seen \cup ({call[c].number} \ {0})
  BY <1>1, StoreIs
<1>3. ASSUME NEW d \in Calls, d # c
      PROVE  /\ call'[d].number = call[d].number /\ call'[d].minted = call[d].minted
             /\ call'[d].pc = call[d].pc
  <2>1. call[d] \in Call
    BY <1>1 DEF CallsOK
  <2> QED BY <1>2, <1>3, <2>1 DEF Overtaken, Call
<1>4. \/ call'[c].number = 0 /\ ~call'[c].minted /\ call'[c].pc = "idle"
      \/ call'[c].number = call[c].number /\ call'[c].pc = "confirmed"
  <2>1. call[c] \in Call
    BY <1>1 DEF CallsOK
  <2> QED BY <1>1, <1>2, <2>1, OutcomeIs DEF IdleCall, Call
<1>5. \A i \in Orders : order'[i].number \in seen' \cup {0}
  BY <1>1, <1>2 DEF Numbered
<1>6. \A n \in seen' : GivenOut(n)'
  BY <1>2 DEF Numbered, GivenOut
<1>7. ASSUME NEW d \in Calls PROVE GivenOut(call[d].number)'
  <2>1. last_value \in Nat
    BY DEF TypeOK
  <2> QED BY <1>3, <1>4, <2>1 DEF Numbered, GivenOut
<1>8. ASSUME NEW d \in Calls PROVE Fresh(d)'
  <2>1. CASE d = c
    BY <1>4, <2>1 DEF Fresh
  <2>2. CASE d # c
    <3>1. Fresh(d)
      BY DEF Numbered
    <3> QED BY <1>2, <1>3, <1>4, <2>2, <3>1 DEF Fresh
  <2> QED BY <2>1, <2>2
<1>9. ASSUME NEW d \in Calls PROVE Unminted(d)'
  BY <1>3, <1>4 DEF Numbered, Unminted
<1> QED BY <1>5, <1>6, <1>7, <1>8, <1>9 DEF Numbered

\* What a step does to the rows: nothing, or one call writes its order with a
\* number no other order bears.
Written(c) ==
  /\ ~At(c, "idle") /\ ~Held(call[c].number, call[c].id)
  /\ \E version \in Nat : Store(c, version)
  /\ UNCHANGED last_value

Quiet ==
  /\ UNCHANGED <<order, seen>>
  /\ last_value' \in {last_value, last_value + 1}

LEMMA CallStepNumbers ==
  ASSUME TypeOK, Numbered, NEW c \in Calls, CallStep(c)
  PROVE  Numbered' /\ (Quiet \/ Written(c))
<1>t. /\ CallsOK /\ last_value \in Nat /\ call[c] \in Call
      /\ order \in [Orders -> [version: Nat, number: Numbers]]
  BY DEF TypeOK, CallsOK, Named
<1>u. Unminted(c)
  BY DEF Numbered
<1>e. ASSUME \A d \in Calls : d # c => call'[d] = call[d], call'[c] = IdleCall,
             UNCHANGED <<order, seen>>, last_value' \in {last_value, last_value + 1}
      PROVE  Numbered'
  <2>1. ~call'[c].minted /\ call'[c].number = 0 /\ Unminted(c)'
    BY <1>e DEF IdleCall, Unminted
  <2> QED BY <1>e, <2>1, QuietNumbers
<1>g. ASSUME NEW pc \in {"taken", "mint", "write", "reread", "insert", "remint"},
             call[c].pc # "idle", call[c].pc # "confirmed",
             pc \in {"taken", "mint"} => ~call[c].minted,
             call'[c] = [call[c] EXCEPT !.pc = pc],
             \A d \in Calls : d # c => call'[d] = call[d],
             UNCHANGED <<order, seen>>, last_value' \in {last_value, last_value + 1}
      PROVE  Numbered'
  <2>1. call'[c].number = call[c].number /\ call'[c].minted = call[c].minted /\ call'[c].pc = pc
    BY <1>t, <1>g DEF Call
  <2>2. Unminted(c)'
    BY <1>g, <2>1 DEF Unminted
  <2> QED BY <1>g, <2>1, <2>2, QuietNumbers
<1>1. CASE ReadNumber(c)
  <2>1. /\ At(c, "number") /\ ~call[c].minted /\ call[c].id \in Orders
        /\ UNCHANGED <<order, last_value, seen>>
    BY <1>1, <1>t, <1>u DEF ReadNumber, At, Unminted, CallsOK, Named
  <2>2. order[call[c].id].number \in seen \cup {0}
    BY <2>1 DEF Numbered
  <2> DEFINE create == IF IsOfficial(call[c].number) THEN "taken" ELSE "mint"
             n == IF order[call[c].id].number # 0 THEN order[call[c].id].number ELSE call[c].number
             x == [call[c] EXCEPT !.pc = "write", !.number = n]
             y == [call[c] EXCEPT !.pc = create]
             z == [call[c] EXCEPT !.pc = create, !.blind = TRUE]
  <2>3. Move(c, x) \/ Move(c, y) \/ Move(c, z)
    BY <1>1 DEF ReadNumber, Goto
  <2>4. /\ x.number = n /\ ~x.minted /\ y.number = call[c].number /\ ~y.minted
        /\ z.number = call[c].number /\ ~z.minted
    BY <1>t, <2>1 DEF Call
  <2>5. n = call[c].number \/ n \in seen \cup {0}
    BY <2>2
  <2> HIDE DEF x, y, z, n, create
  <2>6. /\ \A d \in Calls : d # c => call'[d] = call[d]
        /\ ~call'[c].minted
        /\ call'[c].number = call[c].number \/ call'[c].number \in seen \cup {0}
    <3>1. CASE Move(c, x)
      BY <1>t, <2>4, <2>5, <3>1, MoveIs
    <3>2. CASE Move(c, y)
      BY <1>t, <2>4, <3>2, MoveIs
    <3>3. CASE Move(c, z)
      BY <1>t, <2>4, <3>3, MoveIs
    <3> QED BY <2>3, <3>1, <3>2, <3>3
  <2> QED BY <2>1, <2>6, QuietNumbers DEF Unminted, Quiet
<1>2. CASE CheckTaken(c)
  <2>1. PICK pc \in {"mint", "write"} : Goto(c, pc)
    BY <1>2 DEF CheckTaken
  <2>2. /\ call[c].pc = "taken" /\ ~call[c].minted /\ UNCHANGED <<order, last_value, seen>>
    BY <1>2, <1>u DEF CheckTaken, At, Unminted
  <2>3. call'[c] = [call[c] EXCEPT !.pc = pc] /\ \A d \in Calls : d # c => call'[d] = call[d]
    BY <1>t, <2>1, <2>2, GotoIs DEF At
  <2> QED BY <1>g, <2>2, <2>3 DEF Quiet
<1>3. CASE Mint(c)
  <2>0. call[c].pc = "mint" /\ ~call[c].minted /\ UNCHANGED <<order, seen>> /\ ~At(c, "idle")
    BY <1>3, <1>u DEF Mint, At, Unminted
  <2>1. CASE Claim(c, "write")
    <3>1. last_value' = last_value + 1
      BY <2>1 DEF Claim, NextValue
    <3> QED BY <2>0, <2>1, <3>1, ClaimNumbers DEF Quiet
  <2>2. CASE ClaimFails(c, [call[c] EXCEPT !.pc = "write"])
    <3>1. Goto(c, "write") /\ last_value' \in {last_value, last_value + 1}
      BY <1>t, <2>2, ClaimFailsIs DEF Goto
    <3>2. call'[c] = [call[c] EXCEPT !.pc = "write"] /\ \A d \in Calls : d # c => call'[d] = call[d]
      BY <1>t, <2>0, <3>1, GotoIs
    <3> QED BY <1>g, <2>0, <3>1, <3>2 DEF Quiet
  <2> QED BY <1>3, <2>1, <2>2 DEF Mint
<1>4. CASE ClaimForRequest(c) \/ Remint(c)
  <2>0. ~At(c, "idle") /\ UNCHANGED <<order, seen>>
    BY <1>4 DEF ClaimForRequest, Remint, At
  <2>1. ASSUME NEW pc \in {"adopt", "write"}, Claim(c, pc) PROVE Numbered' /\ Quiet
    <3>1. last_value' = last_value + 1
      BY <2>1 DEF Claim, NextValue
    <3> QED BY <2>0, <2>1, <3>1, ClaimNumbers DEF Quiet
  <2>2. CASE ClaimFails(c, IdleCall)
    BY <1>e, <1>t, <2>0, <2>2, ClaimFailsIs, MoveIs DEF Quiet
  <2> QED BY <1>4, <2>1, <2>2 DEF ClaimForRequest, Remint
<1>5. CASE Adopt(c)
  <2> DEFINE x == [call[c] EXCEPT !.pc = "write", !.base = order[call[c].id].version]
             y == [call[c] EXCEPT !.pc = "write", !.blind = TRUE]
  <2>1. /\ x.number = call[c].number /\ x.minted = call[c].minted /\ x.pc = "write"
        /\ y.number = call[c].number /\ y.minted = call[c].minted /\ y.pc = "write"
    BY <1>t DEF Call
  <2>2. (Move(c, x) \/ Move(c, y)) /\ call[c].pc = "adopt" /\ UNCHANGED <<order, last_value, seen>>
    BY <1>5 DEF Adopt, At
  <2> HIDE DEF x, y
  <2>3. /\ \A d \in Calls : d # c => call'[d] = call[d]
        /\ call'[c].number = call[c].number /\ call'[c].minted = call[c].minted /\ call'[c].pc = "write"
    BY <1>t, <2>1, <2>2, MoveIs
  <2> QED BY <2>2, <2>3, QuietNumbers DEF Unminted, Quiet
<1>r. ASSUME Refused(c), At(c, "write") \/ At(c, "insert"), UNCHANGED last_value
      PROVE  Numbered' /\ Quiet
  <2>1. /\ \A d \in Calls : d # c => call'[d] = call[d]
        /\ UNCHANGED <<order, seen>>
        /\ call'[c] = IdleCall \/ call'[c] = [call[c] EXCEPT !.pc = "remint"]
    BY <1>r, <1>t, RefusedIs
  <2>2. call[c].pc # "idle" /\ call[c].pc # "confirmed"
    BY <1>r DEF At
  <2> QED BY <1>e, <1>g, <1>r, <2>1, <2>2 DEF Quiet
<1>6. CASE Patch(c)
  <2>0. At(c, "write") /\ ~At(c, "idle") /\ call[c].base + 1 \in Nat /\ UNCHANGED last_value
    BY <1>6, <1>t DEF Patch, At, Call
  <2>2. CASE Goto(c, "reread") /\ UNCHANGED <<order, seen>>
    <3>1. call'[c] = [call[c] EXCEPT !.pc = "reread"] /\ \A d \in Calls : d # c => call'[d] = call[d]
      BY <1>t, <2>0, <2>2, GotoIs
    <3> QED BY <1>g, <2>0, <2>2, <3>1 DEF Quiet, At
  <2>3. CASE Refused(c)
    BY <1>r, <2>0, <2>3
  <2>4. CASE Store(c, call[c].base + 1) /\ ~IndexRefuses(c)
    BY <2>0, <2>4, StoreNumbers DEF Written, IndexRefuses
  <2> QED BY <1>6, <2>2, <2>3, <2>4 DEF Patch
<1>7. CASE ReadRow(c)
  <2>1. ~At(c, "idle") /\ call[c].pc \in {"write", "reread"} /\ UNCHANGED <<order, last_value, seen>>
    BY <1>7 DEF ReadRow, At
  <2>2. CASE Goto(c, "insert")
    <3>1. call'[c] = [call[c] EXCEPT !.pc = "insert"] /\ \A d \in Calls : d # c => call'[d] = call[d]
      BY <1>t, <2>1, <2>2, GotoIs
    <3> QED BY <1>g, <2>1, <3>1 DEF Quiet
  <2>3. ASSUME NEW outcome \in Outcomes(c), Move(c, outcome) PROVE Numbered' /\ Quiet
    <3>1. call'[c] = outcome /\ \A d \in Calls : d # c => call'[d] = call[d]
      BY <1>t, <2>3, MoveIs
    <3>2. CASE outcome = IdleCall
      BY <1>e, <2>1, <3>1, <3>2 DEF Quiet
    <3>3. CASE outcome = [call[c] EXCEPT !.pc = "confirmed"]
      <4>1. /\ call'[c].number = call[c].number /\ call'[c].minted = call[c].minted
            /\ call'[c].pc = "confirmed"
        BY <1>t, <3>1, <3>3 DEF Call
      <4> QED BY <2>1, <3>1, <4>1, QuietNumbers DEF Unminted, Quiet
    <3> QED BY <1>t, <2>1, <3>2, <3>3, OutcomeIs
  <2> QED BY <1>7, <2>2, <2>3 DEF ReadRow
<1>8. CASE Insert(c)
  <2>0. At(c, "insert") /\ ~At(c, "idle") /\ UNCHANGED last_value
    BY <1>8 DEF Insert, At
  <2>1. CASE Refused(c)
    BY <1>r, <2>0, <2>1
  <2>2. CASE Store(c, 1) /\ ~IndexRefuses(c)
    BY <2>0, <2>2, StoreNumbers DEF Written, IndexRefuses
  <2> QED BY <1>8, <2>1, <2>2 DEF Insert
<1>9. CASE Abort(c)
  BY <1>9, <1>e, <1>t, MoveIs DEF Abort, Quiet
<1> QED BY <1>1, <1>2, <1>3, <1>4, <1>5, <1>6, <1>7, <1>8, <1>9 DEF CallStep

LEMMA NextNumbers ==
  ASSUME TypeOK, Numbered, [Next]_vars
  PROVE  Numbered' /\ (Quiet \/ \E c \in Calls : Written(c))
<1>1. ASSUME NEW c \in Calls, NEW i \in Orders, Push(c, i) \/ Convert(c, i) PROVE Numbered' /\ Quiet
  <2>1. CallsOK /\ seen \subseteq Numbers /\ order \in [Orders -> [version: Nat, number: Numbers]]
    BY DEF TypeOK, CallsOK, Named
  <2>2. /\ UNCHANGED <<order, last_value, seen>>
        /\ \A d \in Calls : d # c => call'[d] = call[d]
        /\ ~call'[c].minted /\ call'[c].number \in seen \cup {0}
    BY <1>1, <2>1, BeginIs
  <2> QED BY <2>2, QuietNumbers DEF Unminted, Quiet
<1>2. ASSUME NEW c \in Calls, CallStep(c) PROVE Numbered' /\ (Quiet \/ Written(c))
  BY <1>2, CallStepNumbers
<1>3. CASE ConvertQuotation
  <2>1. UNCHANGED <<order, call, seen>> /\ last_value' = last_value + 1 /\ last_value \in Nat
    BY <1>3 DEF ConvertQuotation, NextValue, TypeOK
  <2>2. \A n : GivenOut(n) => GivenOut(n)'
    BY <2>1 DEF GivenOut
  <2> QED BY <2>1, <2>2 DEF Numbered, Fresh, Unminted, GivenOut, Quiet
<1>4. CASE UNCHANGED vars
  BY <1>4 DEF vars, Numbered, GivenOut, Fresh, Unminted, Quiet
<1> QED BY <1>1, <1>2, <1>3, <1>4 DEF Next

LEMMA InitRows ==
  ASSUME Init, NEW i \in Orders
  PROVE  order[i].number \in {0, i} /\ (order[i].number = i => Exists(i))
<1>1. PICK legacy \in SUBSET Orders :
        order = [j \in Orders |-> IF j \in legacy THEN [version |-> 1, number |-> j] ELSE Absent]
  BY DEF Init
<1>2. order[i] = IF i \in legacy THEN [version |-> 1, number |-> i] ELSE Absent
  BY <1>1
<1>3. i # 0
  BY OrdersAssumption
<1>4. CASE i \in legacy
  BY <1>2, <1>4 DEF Exists
<1>5. CASE i \notin legacy
  BY <1>2, <1>3, <1>5 DEF Absent
<1> QED BY <1>4, <1>5

LEMMA InitNumbers ==
  ASSUME Init
  PROVE  Numbered
<1>1. \A i \in Orders : order[i].number \in {0, i} /\ (order[i].number = i => Exists(i))
  BY InitRows
<1>2. \A i \in Orders : order[i].number \in seen \cup {0}
  BY <1>1 DEF Init
<1>3. \A n \in seen : n \notin Nat
  BY DEF Init
<1>4. \A c \in Calls : call[c].number = 0 /\ ~call[c].minted
  BY DEF Init, IdleCall
<1> QED BY <1>2, <1>3, <1>4 DEF Numbered, GivenOut, Fresh, Unminted, Init

\* A number from the counter belongs to the call that claimed it until it is
\* stored: no order bears it and no other call carries it.
THEOREM FreshIsUnheldHolds == Spec => []FreshIsUnheld
<1>1. TypeOK /\ Numbered /\ [Next]_vars => Numbered'
  BY NextNumbers
<1>2. Numbered => FreshIsUnheld
  BY DEF Numbered, Fresh, FreshIsUnheld
<1> QED BY <1>1, <1>2, InitNumbers, TypeCorrect, PTL DEF Spec

-----------------------------------------------------------------------------
(***************************************************************************)
(* The rows bear the numbers of the register.                              *)
(***************************************************************************)
Register_number == [i \in Orders |-> order[i].number]

LEMMA BearIsNext ==
  ASSUME NEW i \in Orders, NEW n \in 0..last_value \cup Orders,
         n # 0 => \A j \in Orders \ {i} : Register_number[j] # n,
         Register_number' = [Register_number EXCEPT ![i] = n],
         UNCHANGED last_value
  PROVE  Register!RegisterNext
BY DEF Register!RegisterNext, Register!Bear, Register_number

LEMMA RegisterStep ==
  ASSUME TypeOK, Numbered, [Next]_vars
  PROVE  [Register!RegisterNext]_(Register!registerVars)
<1>1. CASE Quiet
  BY <1>1 DEF Quiet, Register!RegisterNext, Register!GiveOut, Register!registerVars
<1>2. ASSUME NEW c \in Calls, Written(c) PROVE Register!RegisterNext
  <2> DEFINE i == call[c].id
             n == call[c].number
  <2>1. /\ CallsOK /\ i \in Orders /\ n \in Numbers /\ last_value \in Nat
        /\ order \in [Orders -> [version: Nat, number: Numbers]]
    BY <1>2 DEF Written, TypeOK, CallsOK, Named, Call, At
  <2>2. PICK version \in Nat : Store(c, version)
    BY <1>2 DEF Written
  <2>3. order' = [order EXCEPT ![i] = [version |-> version, number |-> n]]
    BY <1>2, <2>1, <2>2, StoreIs DEF Written
  <2>4. n \in 0..last_value \cup Orders
    BY <2>1 DEF Numbered, GivenOut, Numbers
  <2>5. n # 0 => \A j \in Orders \ {i} : Register_number[j] # n
    BY <1>2 DEF Written, Held, Register_number
  <2>6. Register_number' = [Register_number EXCEPT ![i] = n]
    BY <2>1, <2>3 DEF Register_number
  <2> HIDE DEF i, n
  <2>7. UNCHANGED last_value
    BY <1>2 DEF Written
  <2> QED BY <2>1, <2>4, <2>5, <2>6, <2>7, BearIsNext
<1> QED BY <1>1, <1>2, NextNumbers

\* Whatever the calls do, the numbers are those of the register: each value
\* of the counter is given out once, and no two orders bear the same number.
THEOREM NumbersAreRegisteredHolds == Spec => NumbersAreRegistered
<1>1. Init => Register!RegisterInit
  <2> SUFFICES ASSUME Init PROVE Register!RegisterInit
    OBVIOUS
  <2>1. \A i \in Orders : order[i].number \in {0, i}
    BY InitRows
  <2> QED BY <2>1 DEF Init, Register!RegisterInit
<1>2. TypeOK /\ Numbered /\ [Next]_vars => Numbered' /\ [Register!RegisterNext]_(Register!registerVars)
  BY NextNumbers, RegisterStep
<1> QED BY <1>1, <1>2, InitNumbers, TypeCorrect, PTL DEF Spec, NumbersAreRegistered, Register!RegisterSpec
-----------------------------------------------------------------------------
(***************************************************************************)
(* What a call knows of its order, unless a read failed (blind) or another *)
(* call wrote the order since (overtaken).  A conversion that goes on to   *)
(* write, and one that is confirmed, has the order as it is; a push that   *)
(* goes on to write has its number, or the order has none.                 *)
(***************************************************************************)
Stored(x) == order[x.id].version > 0

KnowsConversion(x) ==
  /\ x.pc # "reread"
  /\ x.pc = "write" => order[x.id].version = x.base
  /\ x.pc = "confirmed" => order[x.id].number = x.number

KnowsPush(x) ==
  Stored(x) /\ x.pc \in {"write", "reread", "remint"} =>
    \/ order[x.id].number = x.number /\ x.pc # "remint"
    \/ order[x.id].number = 0 /\ (x.minted => x.retried)

Knows(x) ==
  /\ x.pc \in {"taken", "mint"} => ~Stored(x)
  /\ x.kind = "convert" => KnowsConversion(x)
  /\ x.kind = "push" => KnowsPush(x)

Steady(x) ==
  /\ x.kind = "convert" =>
       x.pc \in {"claim", "adopt", "write", "reread", "insert", "confirmed"}
  /\ x.pc \in {"claim", "adopt", "confirmed"} => x.kind = "convert"
  /\ x.pc = "insert" => x.overtaken \/ ~Stored(x)
  /\ ~x.blind /\ ~x.overtaken => Knows(x)

Distinct == \A i, j \in Orders : i # j /\ order[i].number # 0 => order[j].number # order[i].number

History == Distinct /\ \A c \in Calls : Steady(call[c])

LEMMA IdleIsSteady == Steady(IdleCall)
BY DEF IdleCall, Steady, Knows, KnowsConversion, KnowsPush

\* A step of one call that writes no order.
LEMMA MoveKeepsHistory ==
  ASSUME History, NEW c \in Calls, \A d \in Calls : d # c => call'[d] = call[d],
         UNCHANGED order, Steady(call'[c])
  PROVE  History'
BY DEF History, Distinct, Steady, Stored, Knows, KnowsConversion, KnowsPush

LEMMA ReadNumberKeepsHistory ==
  ASSUME TypeOK, Numbered, History, NEW c \in Calls, ReadNumber(c)
  PROVE  History'
<1> DEFINE i == call[c].id
           create == IF IsOfficial(call[c].number) THEN "taken" ELSE "mint"
           n == IF order[i].number # 0 THEN order[i].number ELSE call[c].number
           x == [call[c] EXCEPT !.pc = "write", !.number = n]
           y == [call[c] EXCEPT !.pc = create]
           z == [call[c] EXCEPT !.pc = create, !.blind = TRUE]
<1>1. CallsOK /\ call[c] \in Call /\ call[c].pc = "number" /\ UNCHANGED order
  BY DEF TypeOK, CallsOK, Named, ReadNumber, At
<1>2. ~call[c].minted /\ Steady(call[c])
  BY <1>1 DEF Numbered, Unminted, History
<1>3. call[c].kind # "convert"
  BY <1>1, <1>2 DEF Steady
<1>4. \/ Move(c, x)
      \/ ~Exists(i) /\ Move(c, y)
      \/ Move(c, z)
  BY DEF ReadNumber, Goto
<1>5. /\ x.pc = "write" /\ x.kind = call[c].kind /\ x.id = i /\ x.number = n /\ ~x.minted
      /\ y.pc \in {"taken", "mint"} /\ y.kind = call[c].kind /\ y.id = i
      /\ z.pc \in {"taken", "mint"} /\ z.kind = call[c].kind /\ z.blind
  BY <1>1, <1>2 DEF Call
<1>6. Steady(x)
  BY <1>3, <1>5 DEF Steady, Knows, KnowsPush, Stored
<1>7. ~Exists(i) => Steady(y)
  BY <1>3, <1>5 DEF Steady, Knows, KnowsPush, Stored, Exists
<1>8. Steady(z)
  BY <1>3, <1>5 DEF Steady
<1> HIDE DEF x, y, z, n, create
<1>9. (\A d \in Calls : d # c => call'[d] = call[d]) /\ Steady(call'[c])
  BY <1>1, <1>4, <1>6, <1>7, <1>8, MoveIs
<1> QED BY <1>1, <1>9, MoveKeepsHistory

\* A step of a call to another place in the code.
LEMMA GotoKeepsHistory ==
  ASSUME TypeOK, History, NEW c \in Calls, UNCHANGED order,
         NEW pc \in {"taken", "mint", "write", "reread", "insert", "remint"},
         ~At(c, "idle"), Goto(c, pc), Steady([call[c] EXCEPT !.pc = pc])
  PROVE  History'
<1>1. CallsOK
  BY DEF TypeOK, CallsOK, Named
<1>2. /\ call'[c] = [call[c] EXCEPT !.pc = pc]
      /\ \A d \in Calls : d # c => call'[d] = call[d]
  BY <1>1, GotoIs
<1> QED BY <1>2, MoveKeepsHistory

\* The counter gives a call its number.
LEMMA MintKeepsHistory ==
  ASSUME TypeOK, Numbered, History, NEW c \in Calls,
         CheckTaken(c) \/ Mint(c) \/ ClaimForRequest(c) \/ Remint(c)
  PROVE  History'
<1>1. /\ CallsOK /\ call[c] \in Call /\ Steady(call[c]) /\ last_value \in Nat
      /\ call[c].pc \in {"taken", "mint", "claim", "remint"} /\ ~At(c, "idle") /\ UNCHANGED order
  BY DEF TypeOK, CallsOK, Named, History, CheckTaken, Mint, ClaimForRequest, Remint, At
<1>2. ASSUME NEW pc \in {"mint", "write"}, call[c].pc \in {"taken", "mint"}, Goto(c, pc)
      PROVE  History'
  <2> DEFINE x == [call[c] EXCEPT !.pc = pc]
  <2>1. /\ x.pc = pc /\ x.kind = call[c].kind /\ x.id = call[c].id
        /\ x.blind = call[c].blind /\ x.overtaken = call[c].overtaken
    BY <1>1 DEF Call
  <2>2. Steady(x)
    BY <1>1, <1>2, <2>1 DEF Steady, Knows, KnowsPush, Stored
  <2> HIDE DEF x
  <2>3. /\ call'[c] = x /\ \A d \in Calls : d # c => call'[d] = call[d]
    BY <1>1, <1>2, GotoIs DEF x
  <2> QED BY <1>1, <2>2, <2>3, MoveKeepsHistory
<1>3. ASSUME NEW pc \in {"write", "adopt"}, Claim(c, pc),
             IF call[c].pc = "claim" THEN pc = "adopt" ELSE pc = "write" /\ call[c].pc \in {"mint", "remint"}
      PROVE  History'
  <2>1. /\ call'[c].pc = pc /\ call'[c].minted
        /\ call'[c].retried <=> call[c].pc = "remint"
        /\ call'[c].id = call[c].id /\ call'[c].kind = call[c].kind
        /\ call'[c].blind = call[c].blind /\ call'[c].overtaken = call[c].overtaken
        /\ \A d \in Calls : d # c => call'[d] = call[d]
    BY <1>1, <1>3, ClaimIs
  <2>2. Steady(call'[c])
    BY <1>1, <1>3, <2>1 DEF Steady, Knows, KnowsConversion, KnowsPush, Stored
  <2> QED BY <1>1, <2>1, <2>2, MoveKeepsHistory
<1>4. ASSUME ClaimFails(c, IdleCall) PROVE History'
  <2>1. call'[c] = IdleCall /\ \A d \in Calls : d # c => call'[d] = call[d]
    BY <1>1, <1>4, ClaimFailsIs, MoveIs
  <2> QED BY <1>1, <2>1, IdleIsSteady, MoveKeepsHistory
<1>5. CASE CheckTaken(c)
  BY <1>2, <1>5 DEF CheckTaken, At
<1>6. CASE Mint(c)
  <2>1. call[c].pc = "mint" /\ (Claim(c, "write") \/ Goto(c, "write"))
    BY <1>6 DEF Mint, At, ClaimFails, Goto
  <2> QED BY <1>2, <1>3, <2>1
<1>7. CASE ClaimForRequest(c) \/ Remint(c)
  BY <1>3, <1>4, <1>7 DEF ClaimForRequest, Remint, At
<1> QED BY <1>5, <1>6, <1>7

LEMMA AdoptKeepsHistory ==
  ASSUME TypeOK, History, NEW c \in Calls, Adopt(c)
  PROVE  History'
<1> DEFINE x == [call[c] EXCEPT !.pc = "write", !.base = order[call[c].id].version]
           y == [call[c] EXCEPT !.pc = "write", !.blind = TRUE]
<1>1. CallsOK /\ call[c] \in Call /\ Steady(call[c])
  BY DEF TypeOK, CallsOK, Named, History
<1>2. /\ x.kind = call[c].kind /\ x.pc = "write" /\ x.id = call[c].id
      /\ x.base = order[call[c].id].version
      /\ y.kind = call[c].kind /\ y.pc = "write" /\ y.blind
  BY <1>1 DEF Call
<1>3. (Move(c, x) \/ Move(c, y)) /\ call[c].pc = "adopt" /\ UNCHANGED order
  BY DEF Adopt, At
<1>4. call[c].kind = "convert"
  BY <1>1, <1>3 DEF Steady
<1>5. Steady(x) /\ Steady(y)
  BY <1>2, <1>4 DEF Steady, Knows, KnowsConversion
<1> HIDE DEF x, y
<1>6. (\A d \in Calls : d # c => call'[d] = call[d]) /\ Steady(call'[c])
  BY <1>1, <1>3, <1>5, MoveIs
<1> QED BY <1>3, <1>6, MoveKeepsHistory

\* An order is written: what the others knew of it, they no longer know.
LEMMA WriteKeepsHistory ==
  ASSUME TypeOK, History, NEW c \in Calls, Written(c)
  PROVE  History'
<1> DEFINE i == call[c].id
<1>1. CallsOK /\ i \in Orders /\ order \in [Orders -> [version: Nat, number: Numbers]]
  BY DEF TypeOK, CallsOK, Named, Written, At
<1>2. PICK version \in Nat : Store(c, version)
  BY DEF Written
<1>3. /\ call'[c] \in Outcomes(c)
      /\ \A d \in Calls : d # c => Overtaken(c, d)
      /\ order' = [order EXCEPT ![i] = [version |-> version, number |-> call[c].number]]
  BY <1>1, <1>2, StoreIs DEF Written
<1>4. Distinct'
  BY <1>1, <1>3 DEF Distinct, History, Written, Held
<1>5. ASSUME NEW d \in Calls, d # c
      PROVE  Steady(call[d])'
  <2>1. Steady(call[d]) /\ call[d] \in Call /\ Overtaken(c, d)
    BY <1>1, <1>3, <1>5 DEF History, CallsOK
  <2>2. CASE call[d].id = i /\ call[d].pc \notin Ahead
    <3> DEFINE x == [call[d] EXCEPT !.overtaken = TRUE]
    <3>1. x.overtaken /\ x.kind = call[d].kind /\ x.pc = call[d].pc
      BY <2>1 DEF Call
    <3>2. call'[d] = x
      BY <2>1, <2>2 DEF Overtaken
    <3> HIDE DEF x
    <3> QED BY <2>1, <3>1, <3>2 DEF Steady
  <2>3. CASE call[d].id # i
    <3>1. call'[d] = call[d] /\ order'[call[d].id] = order[call[d].id]
      BY <1>1, <1>3, <2>1, <2>3 DEF Overtaken
    <3> QED BY <2>1, <3>1 DEF Steady, Knows, KnowsConversion, KnowsPush, Stored
  <2>4. CASE call[d].pc \in Ahead
    <3>1. call'[d] = call[d]
      BY <2>1, <2>4 DEF Overtaken
    <3> QED BY <2>1, <2>4, <3>1 DEF Steady, Knows, KnowsConversion, KnowsPush, Ahead
  <2> QED BY <2>2, <2>3, <2>4
<1>6. Steady(call[c])'
  <2>1. CASE call'[c] = IdleCall
    BY <2>1 DEF IdleCall, Steady, Knows, KnowsConversion, KnowsPush
  <2>2. CASE call[c].kind = "convert" /\ call'[c] = [call[c] EXCEPT !.pc = "confirmed"]
    <3>1. /\ call'[c].kind = "convert" /\ call'[c].pc = "confirmed"
          /\ call'[c].number = call[c].number /\ call'[c].id = i
      BY <1>1, <2>2 DEF CallsOK, Call
    <3>2. order'[i].number = call[c].number
      BY <1>1, <1>3
    <3> QED BY <3>1, <3>2 DEF Steady, Knows, KnowsConversion
  <2> QED BY <1>1, <1>3, <2>1, <2>2, OutcomeIs DEF Written
<1> QED BY <1>4, <1>5, <1>6 DEF History

\* The index refuses only a number of a push whose order has none.
LEMMA RefusedKeepsHistory ==
  ASSUME TypeOK, Numbered, History, NEW c \in Calls, At(c, "write") \/ At(c, "insert"),
         IndexRefuses(c), Refused(c)
  PROVE  History'
<1>1. /\ CallsOK /\ call[c] \in Call /\ Steady(call[c]) /\ call[c].id \in Orders
  BY DEF TypeOK, CallsOK, Named, History, At
<1>2. /\ \A d \in Calls : d # c => call'[d] = call[d]
      /\ UNCHANGED order
      /\ \/ call'[c] = IdleCall
         \/ call'[c] = [call[c] EXCEPT !.pc = "remint"] /\ call[c].kind = "push"
  BY <1>1, RefusedIs
<1>3. CASE call'[c] = IdleCall
  BY <1>2, <1>3, IdleIsSteady, MoveKeepsHistory
<1>4. CASE call'[c] = [call[c] EXCEPT !.pc = "remint"] /\ call[c].kind = "push"
  <2>1. /\ call'[c].pc = "remint" /\ call'[c].kind = "push" /\ call'[c].id = call[c].id
        /\ call'[c].minted = call[c].minted /\ call'[c].retried = call[c].retried
        /\ call'[c].blind = call[c].blind /\ call'[c].overtaken = call[c].overtaken
    BY <1>1, <1>4 DEF Call
  <2>2. order[call[c].id].number # call[c].number
    BY <1>1 DEF IndexRefuses, Held, History, Distinct
  <2>3. Steady(call'[c])
    BY <1>1, <1>4, <2>1, <2>2 DEF Steady, Knows, KnowsPush, Stored, At
  <2> QED BY <1>2, <2>3, MoveKeepsHistory
<1> QED BY <1>2, <1>3, <1>4

LEMMA PatchKeepsHistory ==
  ASSUME TypeOK, Numbered, History, NEW c \in Calls, Patch(c) \/ Insert(c)
  PROVE  History'
<1>1. /\ call[c] \in Call /\ Steady(call[c]) /\ call[c].id \in Orders
      /\ order \in [Orders -> [version: Nat, number: Numbers]]
      /\ ~At(c, "idle") /\ UNCHANGED last_value
  BY DEF TypeOK, History, Patch, Insert, At
<1>2. CASE Refused(c) /\ IndexRefuses(c)
  BY <1>2, RefusedKeepsHistory DEF Patch, Insert
<1>3. CASE ~IndexRefuses(c) /\ (Store(c, call[c].base + 1) \/ Store(c, 1))
  <2>1. call[c].base + 1 \in Nat /\ 1 \in Nat
    BY <1>1 DEF Call
  <2>2. Written(c)
    BY <1>1, <1>3, <2>1 DEF Written, IndexRefuses
  <2> QED BY <2>2, WriteKeepsHistory
<1>4. CASE Patch(c) /\ order[call[c].id].version # call[c].base /\ Goto(c, "reread") /\ UNCHANGED order
  <2> DEFINE x == [call[c] EXCEPT !.pc = "reread"]
  <2>1. /\ x.pc = "reread" /\ x.kind = call[c].kind /\ x.id = call[c].id /\ x.number = call[c].number
        /\ x.minted = call[c].minted /\ x.retried = call[c].retried
        /\ x.blind = call[c].blind /\ x.overtaken = call[c].overtaken
    BY <1>1 DEF Call
  <2>2. call[c].pc = "write"
    BY <1>4 DEF Patch, At
  <2>3. Steady(x)
    BY <1>1, <1>4, <2>1, <2>2 DEF Steady, Knows, KnowsConversion, KnowsPush, Stored
  <2> QED BY <1>1, <1>4, <2>3, GotoKeepsHistory
<1> QED BY <1>2, <1>3, <1>4 DEF Patch, Insert

LEMMA ReadRowKeepsHistory ==
  ASSUME TypeOK, History, NEW c \in Calls, ReadRow(c)
  PROVE  History'
<1>1. /\ CallsOK /\ call[c] \in Call /\ Steady(call[c]) /\ ~At(c, "idle") /\ UNCHANGED order
      /\ call[c].pc = "reread" \/ (call[c].pc = "write" /\ call[c].base = 0)
  BY DEF TypeOK, CallsOK, Named, History, ReadRow, At
<1>2. CASE ~Exists(call[c].id) /\ Goto(c, "insert")
  <2> DEFINE x == [call[c] EXCEPT !.pc = "insert"]
  <2>1. x.pc = "insert" /\ x.kind = call[c].kind /\ x.id = call[c].id
    BY <1>1 DEF Call
  <2>2. ~Stored(x)
    BY <1>2, <2>1 DEF Stored, Exists
  <2>3. Steady(x)
    BY <1>1, <2>1, <2>2 DEF Steady, Knows, KnowsConversion, KnowsPush
  <2> QED BY <1>1, <1>2, <2>3, GotoKeepsHistory
<1>3. ASSUME NEW outcome \in Outcomes(c), Exists(call[c].id), Move(c, outcome)
      PROVE  History'
  <2>1. call'[c] = outcome /\ \A d \in Calls : d # c => call'[d] = call[d]
    BY <1>1, <1>3, MoveIs
  <2>2. CASE outcome = IdleCall
    BY <1>1, <2>1, <2>2, IdleIsSteady, MoveKeepsHistory
  <2>3. CASE call[c].kind = "convert" /\ outcome = [call[c] EXCEPT !.pc = "confirmed"]
    <3>1. /\ call'[c].kind = "convert" /\ call'[c].pc = "confirmed"
          /\ call'[c].blind = call[c].blind /\ call'[c].overtaken = call[c].overtaken
      BY <1>1, <2>1, <2>3 DEF Call
    <3>2. call[c].blind \/ call[c].overtaken
      BY <1>1, <1>3, <2>3 DEF Steady, Knows, KnowsConversion, Exists
    <3>3. Steady(call'[c])
      BY <1>1, <3>1, <3>2 DEF Steady, Call
    <3> QED BY <1>1, <2>1, <3>3, MoveKeepsHistory
  <2> QED BY <1>1, <2>2, <2>3, OutcomeIs
<1> QED BY <1>2, <1>3 DEF ReadRow

LEMMA InitHistory == Init => History
<1> SUFFICES ASSUME Init PROVE History
  OBVIOUS
<1>1. Distinct
  <2> SUFFICES ASSUME NEW i \in Orders, NEW j \in Orders, i # j, order[i].number # 0
               PROVE  order[j].number # order[i].number
    BY DEF Distinct
  <2>1. order[i].number = i /\ order[j].number \in {0, j}
    BY InitRows
  <2> QED BY <2>1
<1>2. \A c \in Calls : Steady(call[c])
  BY IdleIsSteady DEF Init
<1> QED BY <1>1, <1>2 DEF History

LEMMA NextHistory ==
  ASSUME TypeOK, Numbered, History, [Next]_vars
  PROVE  History'
<1>1. ASSUME NEW c \in Calls, NEW i \in Orders, Push(c, i) \/ Convert(c, i) PROVE History'
  <2>1. CallsOK /\ seen \subseteq Numbers /\ order \in [Orders -> [version: Nat, number: Numbers]]
    BY DEF TypeOK, CallsOK, Named
  <2>2. /\ UNCHANGED order
        /\ \A d \in Calls : d # c => call'[d] = call[d]
        /\ \/ call'[c].pc = "number" /\ call'[c].kind = "push"
           \/ call'[c].pc = "claim" /\ call'[c].kind = "convert"
    BY <1>1, <2>1, BeginIs
  <2>3. Steady(call'[c])
    BY <2>2 DEF Steady, Knows, KnowsConversion, KnowsPush
  <2> QED BY <2>2, <2>3, MoveKeepsHistory
<1>2. ASSUME NEW c \in Calls, CallStep(c) PROVE History'
  <2>1. CASE ReadNumber(c)
    BY <2>1, ReadNumberKeepsHistory
  <2>2. CASE CheckTaken(c) \/ Mint(c) \/ ClaimForRequest(c) \/ Remint(c)
    BY <2>2, MintKeepsHistory
  <2>3. CASE Adopt(c)
    BY <2>3, AdoptKeepsHistory
  <2>4. CASE Patch(c) \/ Insert(c)
    BY <2>4, PatchKeepsHistory
  <2>5. CASE ReadRow(c)
    BY <2>5, ReadRowKeepsHistory
  <2>6. CASE Abort(c)
    <3>1. CallsOK
      BY DEF TypeOK, CallsOK, Named
    <3>2. UNCHANGED order /\ call'[c] = IdleCall /\ \A d \in Calls : d # c => call'[d] = call[d]
      BY <2>6, <3>1, MoveIs DEF Abort
    <3> QED BY <3>2, IdleIsSteady, MoveKeepsHistory
  <2> QED BY <1>2, <2>1, <2>2, <2>3, <2>4, <2>5, <2>6 DEF CallStep
<1>3. CASE ConvertQuotation \/ UNCHANGED vars
  BY <1>3 DEF ConvertQuotation, vars, History, Distinct, Steady, Stored, Knows, KnowsConversion, KnowsPush
<1> QED BY <1>1, <1>2, <1>3 DEF Next

LEMMA SpecHistory == Spec => [](TypeOK /\ Numbered /\ History)
<1>1. TypeOK /\ Numbered /\ History /\ [Next]_vars => Numbered' /\ History'
  BY NextNumbers, NextHistory
<1> QED BY <1>1, InitNumbers, InitHistory, TypeCorrect, PTL DEF Spec

\* A conversion confirms the number its order bears, unless a read failed or
\* another call wrote the order while the conversion ran.
THEOREM ConfirmedIsStoredHolds == Spec => []ConfirmedIsStored
<1>1. TypeOK /\ History => ConfirmedIsStored
  <2> SUFFICES ASSUME TypeOK, History, NEW c \in Calls,
                      At(c, "confirmed"), ~call[c].blind, ~call[c].overtaken
               PROVE  order[call[c].id].number = call[c].number
    BY DEF ConfirmedIsStored
  <2> QED BY DEF History, Steady, Knows, KnowsConversion, At
<1> QED BY <1>1, SpecHistory, PTL

-----------------------------------------------------------------------------
(***************************************************************************)
(* Who changes the number of a stored order.                               *)
(***************************************************************************)
\* A call writes its order from the two places of upsertRow().
WritesFrom(c) ==
  /\ Written(c)
  /\ At(c, "insert") \/ At(c, "write")

LEMMA WhoWrites ==
  ASSUME TypeOK, Numbered, [Next]_vars, ~UNCHANGED order
  PROVE  \E c \in Calls : WritesFrom(c)
<1>1. ASSUME NEW c \in Calls, CallStep(c) PROVE WritesFrom(c)
  <2>1. Patch(c) \/ Insert(c)
    BY <1>1 DEF CallStep, ReadNumber, CheckTaken, Mint, ClaimForRequest, Adopt, ReadRow, Remint, Abort
  <2>2. /\ At(c, "insert") \/ At(c, "write")
        /\ ~At(c, "idle") /\ UNCHANGED last_value /\ ~IndexRefuses(c)
        /\ Store(c, call[c].base + 1) \/ Store(c, 1)
    BY <2>1 DEF Patch, Insert, At, Refused
  <2>3. call[c].base + 1 \in Nat /\ 1 \in Nat
    BY DEF TypeOK, Call
  <2> QED BY <2>2, <2>3 DEF WritesFrom, Written, IndexRefuses
<1>2. CASE Next
  BY <1>1, <1>2 DEF Next, Push, Convert, ConvertQuotation
<1> QED BY <1>2 DEF vars

LEMMA WriterIsAccountable ==
  ASSUME TypeOK, Numbered, History, NEW c \in Calls, WritesFrom(c), Exists(call[c].id),
         order[call[c].id].number # call[c].number
  PROVE  Accountable(c)
<1>1. Steady(call[c]) /\ call[c] \in Call /\ call[c].pc \in {"insert", "write"} /\ call[c].kind # "none"
  BY DEF History, TypeOK, WritesFrom, Written, At
<1>2. call[c].kind \in {"convert", "push"}
  BY <1>1 DEF Call
<1> QED BY <1>1, <1>2 DEF Steady, Knows, KnowsPush, Stored, Exists, Accountable

\* The number of a stored order stands, but for the accountable writes.
THEOREM NumberStandsHolds == Spec => NumberStands
<1> DEFINE Stands == \A i \in Orders :
             Exists(i) /\ order'[i].number # order[i].number =>
               \E c \in Calls : call[c].id = i /\ call'[c] # call[c] /\ Accountable(c)
<1>1. TypeOK /\ Numbered /\ History /\ [Next]_vars => [Stands]_vars
  <2> SUFFICES ASSUME TypeOK, Numbered, History, [Next]_vars,
                      NEW i \in Orders, Exists(i), order'[i].number # order[i].number
               PROVE  \E c \in Calls : call[c].id = i /\ call'[c] # call[c] /\ Accountable(c)
    OBVIOUS
  <2>1. PICK c \in Calls : WritesFrom(c)
    BY WhoWrites
  <2>2. PICK version \in Nat : Store(c, version)
    BY <2>1 DEF WritesFrom, Written
  <2>3. /\ CallsOK /\ call[c].id \in Orders /\ ~At(c, "idle")
        /\ order \in [Orders -> [version: Nat, number: Numbers]]
    BY <2>1 DEF WritesFrom, Written, TypeOK, CallsOK, Named, At
  <2>4. /\ call'[c] \in Outcomes(c)
        /\ order' = [order EXCEPT ![call[c].id] = [version |-> version, number |-> call[c].number]]
    BY <2>2, <2>3, StoreIs
  <2>5. call[c].id = i /\ order[i].number # call[c].number
    BY <2>3, <2>4
  <2>6. call'[c].pc \in {"idle", "confirmed"}
    BY <2>3, <2>4, OutcomeIs DEF CallsOK, Call, IdleCall
  <2>7. call'[c] # call[c]
    BY <2>1, <2>6 DEF WritesFrom, At
  <2> QED BY <2>1, <2>5, <2>7, WriterIsAccountable
<1> HIDE DEF Stands
<1>2. Spec => [][Stands]_vars
  BY <1>1, SpecHistory, PTL DEF Spec
<1> QED BY <1>2 DEF NumberStands, Stands
=============================================================================
