CONSTANTS
  a1 = a1
  a2 = a2
  a3 = a3
  None = None
  World = World
  Actor <- Trio
  Starters <- Nobody
  PanicStart <- Nobody
  PanicHandle <- Nobody
  Mistyped <- Nobody
  WriterCanFail = FALSE
  MaxMsgs = 4
  MaxSeq = 0
  MaxOrigins = 1
SPECIFICATION Spec
SYMMETRY Symmetry
INVARIANTS
  ReplayAccepts
  ExactEmbedding
  PairwiseFifo
  NoClockAhead
