SPECIFICATION Spec
CONSTANTS
  Clients = {"o", "b"}
  Exchange <- AllKinds
  AttemptCap = 2
  MaxSignals = 2
INVARIANTS
  EndsOnSignalOnly
  StatusOfReaders
  FirstDelayOnceConnected
PROPERTIES
  SigtermKept
  Recovers
  FlagEndsReading
CHECK_DEADLOCK FALSE
