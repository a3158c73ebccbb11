CONSTANTS
  a1 = a1
  a2 = a2
  None = None
  World = World
  Actor <- Pair
  Starters <- First
  PanicStart <- Nobody
  PanicHandle <- Nobody
  Mistyped <- Nobody
  WriterCanFail = FALSE
  MaxMsgs = 2
  MaxSeq = 1
  MaxOrigins = 1
  Rank <- ByName
  OneMsgType = FALSE
  MaxBeyond = 2
  MaxDrift = 1
SPECIFICATION RunSpec
INVARIANTS
  ReplayTypeOK
  CausesFirst
  NeverCycles
  TimelineIsSorted
  OnlyTheCutDiverges
  FaithfulIsSame
  NoGhosts
  PanicIsMisuse
