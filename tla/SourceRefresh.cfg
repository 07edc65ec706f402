SPECIFICATION Spec
CONSTANTS
  Null = Null
  Unread = Unread
  j1 = j1
  j2 = j2
  a = a
  b = b
  Jobs = {j1, j2}
  Candidates = {a, b}
  ReleaseOf <- MCReleaseOf
  Origin = a
  MaxTime = 2
  MaxTries = 3
  MaxHistory = 2
  MaxStarts = 3
  MaxLosses = 1
SYMMETRY Symmetry
CHECK_DEADLOCK FALSE
INVARIANTS RollbackIsReal InStepWhenQuiet
PROPERTIES NothingActivatedIsLost RollbackNeverToggles StatusMovesForward CommandsRepair
