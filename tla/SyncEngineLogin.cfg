\* A login after the gateway refused the session.
SPECIFICATION Spec
CONSTANTS
  Records = {o1}
  FlushRecords = {}
  Edits = {e1}
  Writers = {w1}
  Upkeep = {}
  Logins = {u1}
  MaxRows = 1
  MaxLeft = 0
  MaxRetries = 1
  BatchSize = 2
  MaxBatches = 1
  MaxRestarts = 0
  Background = Background
  None = None
\* With every row created and the engine paused nothing need happen.
CHECK_DEADLOCK FALSE
PROPERTIES
  LoginUnpauses
