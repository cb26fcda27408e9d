\* One row in the hands of the cycle, a flush, a login, upkeep calls and a restart.
SPECIFICATION FairSpec
CONSTANTS
  Records = {o1}
  FlushRecords = {o1}
  Edits = {e1}
  Writers = {}
  Upkeep = {m1}
  Logins = {u1}
  MaxRows = 1
  MaxLeft = 1
  MaxRetries = 2
  BatchSize = 2
  MaxBatches = 1
  MaxRestarts = 1
  Background = Background
  None = None
\* With every row created and the engine paused nothing need happen.
CHECK_DEADLOCK FALSE
INVARIANTS
  TypeOK
  ClaimsAgree
  LegacyNeverSent
PROPERTIES
  SingleSender
  LockReleased
  FlushEnds
  FailuresAreRetried
