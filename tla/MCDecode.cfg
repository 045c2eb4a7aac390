SPECIFICATION DecodeSpec
CONSTANTS
  MaxCounter = 5
  Datagrams <- All
INVARIANTS
  NamesResolve
  DnsAsSent
  DnsWholeOnly
  BencodeAsSent
  BencodeCutRefused
  InfoHashed
CHECK_DEADLOCK FALSE
