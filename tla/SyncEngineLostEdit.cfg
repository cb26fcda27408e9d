\* An edit merged into a row between the claim and the `syncing` write of dequeue().
SPECIFICATION Spec
CONSTANTS
  Records = {o1}
  FlushRecords = {}
  Edits = {e1, e2}
  Writers = {w1}
  Upkeep = {}
  Logins = {}
  MaxRows = 2
  MaxLeft = 0
  MaxRetries = 1
  BatchSize = 2
  MaxBatches = 1
  MaxRestarts = 0
  Background = Background
  None = None
\* With every row created and the engine paused nothing need happen.
CHECK_DEADLOCK FALSE
INVARIANTS
  NoEditLost
