\* Fourteen drafts of four families, appended by two concurrent transactions.
SPECIFICATION Spec
CONSTANTS
  None = None
  Ids <- MCIds
  Keys <- MCKeys
  Sources = {"cost"}
  Drafts <- MCDrafts
  Txs = {t1, t2}
SYMMETRY Interchangeable
INVARIANTS
  TypeOK
  ReversalsWithinAllocation
  ConsumptionWithinSource
  RetriesConverge
  OnlyDirectOvertakes
  NoCircularWait
PROPERTIES
  AppendsAreAtomic
