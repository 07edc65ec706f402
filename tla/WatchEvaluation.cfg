SPECIFICATION FairEvaluation
CONSTANTS
  Null = Null
  p1 = p1
  p2 = p2
  r1 = r1
  e1 = e1
  e2 = e2
  Material = 1
  RoundsDown = {}
  Packages = {p1, p2}
  Schedule <- TwoMonths
  Cutoff <- MCCutoff
  Supersedes <- MCSupersedes
  QuarterEnds <- MCQuarterEnds
  Watches = {1, 2}
  Evaluators = {e1, e2}
  Results <- OneResult
  BatchSize = 2
  Overlap = FALSE
  MaxDeaths = 1
  MaxOutlived = 1
  MaxChanges = 0
  MaxEvents = 8
  Quarterly = {2}
  Leases = {1,2,3,4,5,6,7,8}
CHECK_DEADLOCK FALSE
INVARIANTS DisjointBatches
PROPERTY EveryWatchEvaluated
