SPECIFICATION FairSpec
CONSTANTS
  Thread = {t1, t2}
  Handle = {h1}
  Op <- RpcOps
  ErrPtr = {"valid"}
  Obedient = TRUE
  MaxCode = 1
  Capacity = 1
  MaxNotes = 2
INVARIANTS
  TypeOK
  MemorySafe
  NothingLost
PROPERTIES
  KeepsFeed
  ReadersWake
CHECK_DEADLOCK FALSE
