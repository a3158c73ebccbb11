CONSTANTS
  MaxEvents = 5
  CanFail = TRUE
  CanCrash = TRUE
SPECIFICATION FairSpec
INVARIANTS
  TypeOK
  NothingLost
  FileIsPrefix
  OkIsComplete
  IdleIsFlushed
PROPERTIES
  WriterEnds
  ImplementsDurableLog
