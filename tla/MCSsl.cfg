SPECIFICATION Spec
CONSTANTS
  Conversations <- Everything
  MaxConnections = 2
  Segments = {1, 3, 4}
  MaxChunks = 2
INVARIANTS
  TypeOK
  StoredOnce
  OwnSession
  NothingHeldBack
  GivesUpAtFragment
CHECK_DEADLOCK FALSE
