\* Two rows, one of them written, short pages and passes, a clock of the device's own.
SPECIFICATION FairSpec
CONSTANTS
  Rows = {1, 2}
  Shared = {1}
  New = {1}
  Leftover <- MCLeftover
  PageSize = 1
  DeferMax = 2
  IdsMax = 1
  PassMax = 2
  Skews <- MCSkews
  MaxWrites = 1
  MaxEdits = 1
  MaxIncidents = 1
\* With nothing to write, to read or to drain no step need happen.
CHECK_DEADLOCK FALSE
INVARIANTS TypeOK NoSilentGap VersionTellsValue
PROPERTIES Converges
