SPECIFICATION Spec
CONSTANTS
  Ids = {c1}
  Wire <- WireClose
  SeqMod <- MCSeqMod
  MaxPackets = 1
  Silent <- AnyPause
  MayStop = FALSE
  NoInput = NoInput
  NoEvent = NoEvent
PROPERTIES
  CollectsHalfOpenOnly
