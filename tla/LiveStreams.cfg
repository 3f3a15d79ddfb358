SPECIFICATION FairLiveSpec
CONSTANTS
  Thread = {t1}
  Handle = {h1, h2}
  Listener = {l1}
  Op <- AllOps
  ErrPtr = {"valid"}
  Obedient = TRUE
  TidyToken = TRUE
  MaxLen = 2
  MaxCode = 2
  MaxNotes = 2
INVARIANTS
  TypeOK
  MemorySafe
  NothingLost
  AnswersAgree
  StreamTypeOK
PROPERTIES
  StreamKeepsFeed
  ListenersWake
