CONSTANTS
  a1 = a1
  a2 = a2
  a3 = a3
  None = None
  World = World
  Actor <- Pair
  Starters <- Nobody
  PanicStart <- Nobody
  PanicHandle <- Nobody
  Mistyped <- Pair
  WriterCanFail = FALSE
  MaxMsgs = 3
  MaxSeq = 0
  MaxOrigins = 2
SPECIFICATION FairSpec
CHECK_DEADLOCK FALSE
INVARIANTS
  TypeOK
  ExactWhileAlive
  NoLostWakeup
  QuiescentShutdown
  DeliveredWhenClosed
PROPERTIES
  Terminates
  ImplementsQuiescence
