--------------------------- MODULE SendOwnership ---------------------------
(***************************************************************************)
(* What the send-claim registry promises                                   *)
(* (frontend/services/durableSyncQueue.ts, "Shared send-ownership          *)
(* boundary"): at most one sender may own a queue operation at a time, and *)
(* only the owner has a request for it in transit.  BackgroundSync is      *)
(* shown to implement this specification.                                  *)
(***************************************************************************)
CONSTANTS Operations, Senders, Nobody

VARIABLES
  owner,     \* who owns each operation
  transit    \* the senders with a request for the operation in transit

ownershipVars == <<owner, transit>>

OwnershipInit ==
  /\ owner = [r \in Operations |-> Nobody]
  /\ transit = [r \in Operations |-> {}]

\* A sender becomes the owner of operations nobody owns.
Acquire(o, R) ==
  /\ \A r \in R : owner[r] = Nobody
  /\ owner' = [r \in Operations |-> IF r \in R THEN o ELSE owner[r]]
  /\ UNCHANGED transit

\* The owner transmits.
Send(o, R) ==
  /\ \A r \in R : owner[r] = o
  /\ transit' = [r \in Operations |-> IF r \in R THEN transit[r] \cup {o} ELSE transit[r]]
  /\ UNCHANGED owner

\* The answer arrives, or the request fails.
Answer(o) ==
  /\ transit' = [r \in Operations |-> transit[r] \ {o}]
  /\ UNCHANGED owner

\* The owner gives up operations it is not transmitting.
Release(o, R) ==
  /\ \A r \in R : owner[r] = o /\ o \notin transit[r]
  /\ owner' = [r \in Operations |-> IF r \in R THEN Nobody ELSE owner[r]]
  /\ UNCHANGED transit

\* The tab closes: the registry is in memory and the requests are gone.
Close ==
  /\ owner' = [r \in Operations |-> Nobody]
  /\ transit' = [r \in Operations |-> {}]

OwnershipNext ==
  \/ \E o \in Senders, R \in SUBSET Operations : Acquire(o, R) \/ Send(o, R) \/ Release(o, R)
  \/ \E o \in Senders : Answer(o)
  \/ Close

OwnershipSpec == OwnershipInit /\ [][OwnershipNext]_ownershipVars

-----------------------------------------------------------------------------
\* Only the owner of an operation transmits it.
OnlyOwnerSends == \A r \in Operations : transit[r] \subseteq {owner[r]}
=============================================================================
