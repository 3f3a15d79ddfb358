SPECIFICATION Spec
CONSTANTS
  Thread = {t1, t2}
  Handle = {h1}
  Op <- ShapeOps
  ErrPtr = {"valid"}
  Obedient = FALSE
  TidyToken = TRUE
  MaxLen = 2
  MaxCode = 2
PROPERTY
  PoisonedUseAborts
