\* Every kind of write, purges and resets.
SPECIFICATION Spec
CONSTANTS
  Ops = {a, b}
  Handlers = {h1, h2}
  Kinds = {"create", "update", "delete"}
  MaxVersion = 4
  MaxGeneration = 2
  None = None
\* With every operation answered nothing need happen.
CHECK_DEADLOCK FALSE
INVARIANTS TypeOK AcknowledgedIsEffected
PROPERTY ConditionalWritesKeep
SYMMETRY Interchangeable
