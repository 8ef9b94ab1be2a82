SPECIFICATION FairSpec
CONSTANTS
  Processes = {1, 2}
  Count = 3
  Repeatable <- CreateTables
  Needs <- MCNeeds
  MaxStarts = 4
  MaxFaults = 2
CHECK_DEADLOCK FALSE
INVARIANTS
  RecordedTookEffect
  EffectsInOrder
  DoneMeansMigrated
  FailsOnlyWedged
PROPERTIES
  WedgedForEver
  SomeoneMigrates
