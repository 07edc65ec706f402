SPECIFICATION EvaluationSpec
CONSTANTS
  Null = Null
  p1 = p1
  p2 = p2
  r1 = r1
  e1 = e1
  e2 = e2
  Material = 1
  RoundsDown = {}
  Packages = {p1, r1, p2}
  Schedule <- Returned
  Cutoff <- MCCutoff
  Supersedes <- MCSupersedes
  QuarterEnds <- MCQuarterEnds
  Watches = {1}
  Evaluators = {e1, e2}
  Results <- ThreeResults
  BatchSize = 1
  Overlap = FALSE
  MaxDeaths = 1
  MaxOutlived = 1
  MaxChanges = 1
  MaxEvents = 4
  Quarterly = {}
  Leases = {1,2,3,4,5}
CHECK_DEADLOCK FALSE
INVARIANTS OneAlertPerActivation RevisionsReferToTheirAlert
PROPERTY ActsAsOneEvaluator
