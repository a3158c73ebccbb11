CONSTANTS
  a1 = a1
  a2 = a2
  a3 = a3
  None = None
  World = World
  Actor <- Pair
  Starters <- Nobody
  PanicStart <- Nobody
  PanicHandle <- Nobody
  Mistyped <- Nobody
  WriterCanFail = FALSE
  MaxMsgs = 2
  MaxSeq = 0
  MaxOrigins = 2
SPECIFICATION Spec
SYMMETRY Symmetry
INVARIANTS
  ReplayAccepts
