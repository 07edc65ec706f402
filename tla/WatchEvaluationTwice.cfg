SPECIFICATION EvaluationSpec
CONSTANTS
  Null = Null
  p1 = p1
  p2 = p2
  r1 = r1
  e1 = e1
  e2 = e2
  Material = 1
  RoundsDown = {}
  Packages = {p1, p2}
  Schedule <- TwoMonths
  Cutoff <- MCCutoff
  Supersedes <- MCSupersedes
  QuarterEnds <- MCQuarterEnds
  Watches = {1}
  Evaluators = {e1, e2}
  Results <- ThreeResults
  BatchSize = 1
  Overlap = TRUE
  MaxDeaths = 0
  MaxOutlived = 0
  MaxChanges = 0
  MaxEvents = 4
  Quarterly = {}
  Leases = {1,2,3,4}
CHECK_DEADLOCK FALSE
INVARIANT OneAlertPerActivation
