SPECIFICATION RuntimeFairSpec
CONSTANTS
  Groups <- MCGroups
  Members <- MCMembers
  GroupOf <- MCGroupOf
  MaxConcurrent = 1
  MaxConcurrentMembers = 1
  MaxQueued = 1
  Keys <- MCKeys
  KeyOf <- MCKeyOf
  BuildOfKey <- MCTwoBuildsOfKeys
  Deployments <- MCThreeDeployments
  BuildOf <- MCTwoBuilds
  None = None
  k1 = k1
  k2 = k2
  d1 = d1
  d2 = d2
  d3 = d3
INVARIANTS
  SharedWorkSurvives
  OneLiveOperation
PROPERTIES
  HitsAreCurrent
  UsesCoordinator
  EveryRequestAnswered
\* Every request may have been answered: nothing is left to do but to deploy.
CHECK_DEADLOCK FALSE
