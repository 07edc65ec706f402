SPECIFICATION Spec
CONSTANTS
  Null = Null
  r1 = r1
  r2 = r2
  i1 = i1
  i2 = i2
  m1 = m1
  m2 = m2
INVARIANTS
  BuildsAreWhole PoolIsSound StoreIsWhole PagesShowWhatTheyName MeasurementsAreHonest LimitsAreKept
  AnswersAreOfTheEvidence
PROPERTIES
  ServedMovesForward NothingOutlivesTheAccount WhatBeginsEnds
\* An account may have no request left, a pool be closed, a page be at rest.
CHECK_DEADLOCK FALSE
