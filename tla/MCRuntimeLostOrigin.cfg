CONSTANTS
  a1 = a1
  a2 = a2
  a3 = a3
  None = None
  World = World
  Actor <- Pair
  Starters <- Nobody
  PanicStart <- First
  PanicHandle <- Nobody
  Mistyped <- Nobody
  WriterCanFail = FALSE
  MaxMsgs = 1
  MaxSeq = 0
  MaxOrigins = 1
SPECIFICATION Spec
CHECK_DEADLOCK FALSE
PROPERTIES
  OriginsSettleUp
