SPECIFICATION Spec
CONSTANTS
  Pos = {p1, p2}
  Sides = {long, short}
  Overlap = 1
  CacheCap = 2
  MaxClock = 2
SYMMETRY DeskSymmetry
INVARIANT TypeOK
INVARIANT ReadInOrder
PROPERTY HaltIsExplained
INVARIANT LedgerMatchesBook
PROPERTY CalmCycleFindsDrift
PROPERTY ReadsTheLog
