SPECIFICATION FairSpec
CONSTANTS
  CommandLines <- MCCommandLines
  MaxChanges = 1
INVARIANTS
  TypeOK
  FollowsChain
PROPERTIES
  ResetByTwinOnly
  AllStarted
CHECK_DEADLOCK FALSE
