SPECIFICATION Spec
CONSTANTS
  Thread = {t1}
  Handle = {h1}
  Op <- ShapeOps
  ErrPtr = {"valid"}
  Obedient = TRUE
  TidyToken = TRUE
  MaxLen = 2
  MaxCode = 2
INVARIANT
  KillReported
