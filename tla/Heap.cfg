SPECIFICATION Spec
CONSTANTS
  Block = {1, 2, 3, 4, 5, 6}
  Var = {x, y, z}
  Key = {k}
  Kind = {"scalar", "thing"}
  MaxLen = 2
SYMMETRY Symmetry
CONSTRAINT FewWhenFull
INVARIANTS
  TypeOK
  NoDangling
  OneOwner
  NoLeak
PROPERTY
  ValueSemantics
  OthersKept
CHECK_DEADLOCK FALSE
