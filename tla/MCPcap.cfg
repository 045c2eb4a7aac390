SPECIFICATION FairSpec
CONSTANTS
  Callers = {t1, t2, t3}
  Wire <- MCWire
  MaxInputs = 2
  NoPcap = NoPcap
INVARIANTS
  TypeOK
  OneCapture
  FlowsMeet
  PeersAsSent
PROPERTIES
  TakesOver
CHECK_DEADLOCK FALSE
