SPECIFICATION FairSpec
CONSTANTS
  Thread = {t1, t2}
  Handle = {h1}
  Op <- ContractOps
  ErrPtr = {"valid"}
  Obedient = TRUE
  TidyToken = TRUE
  MaxLen = 1
  MaxCode = 1
INVARIANTS
  CallerMemory
PROPERTIES
  KeepsContract
  CallsReturn
