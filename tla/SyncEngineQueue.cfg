\* Saves, deletes and upkeep calls against the cycle: claims, rows without a
\* generation, the retry budget.
SPECIFICATION BudgetSpec
CONSTANTS
  Records = {o1}
  FlushRecords = {}
  Edits = {e1}
  Writers = {w1}
  Upkeep = {m1}
  Logins = {}
  MaxRows = 2
  MaxLeft = 1
  MaxRetries = 2
  BatchSize = 2
  MaxBatches = 2
  MaxRestarts = 0
  Background = Background
  None = None
\* With every row created and the engine paused nothing need happen.
CHECK_DEADLOCK FALSE
INVARIANTS
  ClaimsAgree
  LegacyNeverSent
  BudgetRespected
