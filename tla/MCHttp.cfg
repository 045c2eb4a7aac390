CONSTANTS
  Conversations <- Everything
  BodyLen = 2
  Segments = {1, 2, 5}
  MaxChunks = 2
  Garbage = {0, 1, 3}
SPECIFICATION Spec
INVARIANTS
  TypeOK
  ResponseMeetsRequest
  Framing
  NothingHeldBack
  RecordsInOrder
  OwnMethod
  GivesUpAtChunkLen
CHECK_DEADLOCK FALSE
