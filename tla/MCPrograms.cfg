CONSTANTS
  feed = feed
  fast = fast
  slow = slow
  book = book
  risk = risk
  None = None
  World = World
  Actor <- Roles
  Entry <- feed
  Left <- fast
  Right <- slow
  Meet <- book
  Beyond <- risk
  Program <- All
  Ticks = 1
  Milestones = 1
  Starters <- Nobody
  PanicStart <- Nobody
  PanicHandle <- Nobody
  Mistyped <- Nobody
  WriterCanFail = FALSE
  MaxMsgs = 20
  MaxSeq = 20
  MaxOrigins = 1
  Rank <- ByName
  OneMsgType = FALSE
  MaxBeyond = 20
  MaxDrift = 20
SPECIFICATION ProgramSpec
INVARIANTS
  ReplayReproducesState
  RaceIsVisible
