CONSTANTS
  a1 = a1
  a2 = a2
  a3 = a3
  None = None
  World = World
  Actor <- Pair
  Starters <- Nobody
  PanicStart <- Nobody
  PanicHandle <- First
  Mistyped <- Nobody
  WriterCanFail = FALSE
  MaxMsgs = 1
  MaxSeq = 0
  MaxOrigins = 1
SPECIFICATION FairSpec
CHECK_DEADLOCK FALSE
PROPERTIES
  QuiescenceIsNoticed
