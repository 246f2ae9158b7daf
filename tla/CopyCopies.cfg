SPECIFICATION Spec
CONSTANTS
  Index = {0, 2}
  Content = {c1}
  Empty = Empty
  Offset <- MCOffset
  Granule = 4
  Stray = Stray
  Freed = Freed
  None = None
INVARIANTS
  CopyCopies
