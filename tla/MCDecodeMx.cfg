SPECIFICATION DecodeSpec
CONSTANTS
  MaxCounter = 5
  Datagrams <- MxInputs
INVARIANTS
  MxAsSent
CHECK_DEADLOCK FALSE
