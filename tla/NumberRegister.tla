--------------------------- MODULE NumberRegister ---------------------------
(***************************************************************************)
(* What the numbering of sales orders promises                             *)
(* (supabase/migrations/0027_sales_order_number_counters.sql): the counter *)
(* of a series gives its values out one after the other, and an order only *)
(* ever takes a number that was given out and that no other order bears.   *)
(* Numbers from before the counter are the ids of their orders.            *)
(***************************************************************************)
EXTENDS Naturals

CONSTANT Orders

VARIABLES
  last,     \* the last value the counter gave out
  number    \* the number each order bears, 0 when it has none

registerVars == <<last, number>>

RegisterInit ==
  /\ last = 0
  /\ number \in [Orders -> Orders \cup {0}]
  /\ \A i \in Orders : number[i] \in {0, i}

GiveOut ==
  /\ last' = last + 1
  /\ UNCHANGED number

\* An order takes a number, exchanges the one it has, or loses it.
Bear(i, n) ==
  /\ n # 0 => \A j \in Orders \ {i} : number[j] # n
  /\ number' = [number EXCEPT ![i] = n]
  /\ UNCHANGED last

RegisterNext ==
  \/ GiveOut
  \/ \E i \in Orders, n \in 0..last \cup Orders : Bear(i, n)

RegisterSpec == RegisterInit /\ [][RegisterNext]_registerVars
=============================================================================
