SPECIFICATION Spec
CONSTANTS
  Object = {o1, o2}
  Name = {f1}
  Granule = 2
  Word32 = 4
  Word64 = 8
  MaxSize = 5
  None = None
INVARIANTS
  SoleWriter
  NoLeak
  HeldAsNeeded
  ReadsStayInside
  SizeIsThere
