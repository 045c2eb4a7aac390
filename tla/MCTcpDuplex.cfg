SPECIFICATION Spec
CONSTANTS
  Ids = {c1}
  Wire <- WireDuplex
  SeqMod <- MCSeqMod
  Isn <- MCIsn
  Length <- LengthDuplex
  MaxPackets = 2
  Silent <- NoPause
  MayStop = FALSE
  NoInput = NoInput
  NoEvent = NoEvent
INVARIANTS
  TypeOK
  StreamHasFlow
PROPERTIES
  ImplementsStreamEvents
