CONSTANTS
  Datagrams <- Mix
  m_is_dns_53 = TRUE
  MaxInput = 3
  MayStop = TRUE
SPECIFICATION FairSpec
INVARIANTS
  TypeOK
  DecodedInOrder
  IdleMeansEmpty
PROPERTIES
  EveryDatagramDecoded
  StopsUnlessMissed
CHECK_DEADLOCK FALSE
