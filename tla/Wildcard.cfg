SPECIFICATION Spec
CONSTANTS
  Letter = {a, b}
  One = One
  Many = Many
  MaxString = 3
  MaxMatch = 4
  None = None
INVARIANTS
  TypeOK
  Decides
PROPERTIES
  Returns
CHECK_DEADLOCK FALSE
