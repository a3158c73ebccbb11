CONSTANTS
  a1 = a1
  a2 = a2
  a3 = a3
  None = None
  World = World
  Actor <- Pair
  Starters <- First
  PanicStart <- Pair
  PanicHandle <- Pair
  Mistyped <- Pair
  WriterCanFail = TRUE
  MaxMsgs = 2
  MaxSeq = 1
  MaxOrigins = 2
SPECIFICATION Spec
CHECK_DEADLOCK FALSE
INVARIANTS
  NeverUndercounts
  NoLostWakeup
  CausallyClosed
PROPERTIES
  ClosedIsFinal
  SendersSettleUp
