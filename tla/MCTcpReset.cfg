SPECIFICATION FairSpec
CONSTANTS
  Ids = {c1}
  Wire <- WireReset
  SeqMod <- MCSeqMod
  MaxPackets = 1
  Silent <- OnePause
  MayStop = TRUE
  NoInput = NoInput
  NoEvent = NoEvent
INVARIANTS
  StreamHasFlow
  ListenerCount
  IdleMeansDone
PROPERTIES
  DrainedWhenQuiet
  StopsUnlessMissed
CHECK_DEADLOCK FALSE
