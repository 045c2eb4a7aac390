SPECIFICATION Spec
CONSTANTS
  Ids = {c1}
  Wire <- WireOrderly
  SeqMod <- MCSeqMod
  Isn <- MCIsn
  Length <- LengthOrderly
  MaxPackets = 2
  Silent <- NoPause
  MayStop = FALSE
  NoInput = NoInput
  NoEvent = NoEvent
PROPERTIES
  CloseIsComplete
