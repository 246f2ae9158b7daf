SPECIFICATION Spec
CONSTANTS
  None = None
  Rel = Rel
  low = low
  mixed = mixed
  slashed = slashed
  fileA = fileA
  fileB = fileB
  Thread = {t1, t2}
  Archive = {o1, o2, o3}
  Dir = {low}
  LowerDir <- MCOneLowerDir
  Alias = {}
  Means <- MCMeansNothing
  Base = {fileA, fileB}
  Pack = {p1, p2}
  Key = {k1, k2}
  Pattern = {q1}
  Given <- AbsoluteAB
  MaxNames = 1
PROPERTIES
  HandleKeeps
SYMMETRY Symmetric
CHECK_DEADLOCK FALSE
