CONSTANTS
  a1 = a1
  a2 = a2
  a3 = a3
  None = None
  World = World
  Actor <- Pair
  Starters <- First
  PanicStart <- Nobody
  PanicHandle <- Nobody
  Mistyped <- Nobody
  WriterCanFail = FALSE
  MaxMsgs = 1
  MaxSeq = 0
  MaxOrigins = 0
SPECIFICATION Spec
INVARIANTS
  QuiescentShutdown
