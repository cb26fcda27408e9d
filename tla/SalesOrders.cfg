\* Two orders, pushed and converted by two concurrent calls.
SPECIFICATION Spec
CONSTANTS
  Orders = {a, b}
  Calls = {c1, c2}
  MaxVersion = 3
  MaxClaims = 2
SYMMETRY Interchangeable
\* With the counter at its bound nothing need happen.
CHECK_DEADLOCK FALSE
INVARIANTS
TypeOK
FreshIsUnheld
ConfirmedIsStored
PROPERTIES
NumberStands
NumbersAreRegistered
