SPECIFICATION Spec
CONSTANTS
  Block = {1, 2, 3, 4, 5}
  Var = {x, y, z}
  Key = {k}
  Kind = {"bytes"}
  MaxLen = 2
SYMMETRY Symmetry
INVARIANT
  NoDangling
CHECK_DEADLOCK FALSE
