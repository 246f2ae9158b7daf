SPECIFICATION Spec
CONSTANTS
  None = None
  Rel = Rel
  low = low
  mixed = mixed
  slashed = slashed
  fileA = fileA
  fileB = fileB
  Thread = {t1}
  Archive = {o1, o2}
  Dir = {low, mixed}
  LowerDir <- MCLowerDir
  Alias = {slashed}
  Means <- MCMeans
  Base = {fileA}
  Pack = {p1}
  Key = {k1}
  Pattern = {q1}
  Given <- AllOfA
  MaxNames = 2
INVARIANTS
  TypeOK
  NoCrash
  LoadedAll
  AbsoluteOnce
  FreshTables
PROPERTIES
  LoadEnds
CHECK_DEADLOCK FALSE
