SPECIFICATION Spec
CONSTANTS
  Clients = {"o", "k"}
  Exchange <- BothKinds
  AttemptCap = 1
  MaxSignals = 1
PROPERTY
  FirstCtrlC
CHECK_DEADLOCK FALSE
