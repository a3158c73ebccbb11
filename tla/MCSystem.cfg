CONSTANTS
  a1 = a1
  a2 = a2
  None = None
  World = World
  Actor <- Pair
  Starters <- Nobody
  PanicStart <- Nobody
  PanicHandle <- Nobody
  Mistyped <- Nobody
  WriterCanFail = TRUE
  CanCrash = TRUE
  MaxMsgs = 2
  MaxSeq = 2
  MaxOrigins = 1
  MaxEvents = 12
SPECIFICATION SystemSpec
SYMMETRY Symmetry
INVARIANTS
  OkIsTheWholeRun
  FileReplays
