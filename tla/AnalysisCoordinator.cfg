SPECIFICATION FairSpec
CONSTANTS
  Groups <- MCGroups
  Members <- MCMembers
  GroupOf <- MCGroupOf
  MaxConcurrent = 2
  MaxConcurrentMembers = 1
  MaxQueued = 1
INVARIANTS
  TypeOK
  SlotAccounting
  WorkConserving
  NoAbortedWaiter
  NoLostMember
PROPERTIES
  FirstComeFirstServed
  EveryMemberAnswered
\* Every call has been answered and every slot returned: nothing is left to do.
CHECK_DEADLOCK FALSE
