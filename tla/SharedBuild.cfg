SPECIFICATION PairingsSpec
CONSTANTS
  Null = Null
  r1 = r1
  r2 = r2
  i1 = i1
  i2 = i2
  m1 = m1
  m2 = m2
INVARIANT BundlesShareNothing
CHECK_DEADLOCK FALSE
