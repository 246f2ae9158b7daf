SPECIFICATION Spec
CONSTANTS
  g1 = g1
  g2 = g2
  g3 = g3
  p1 = p1
  p2 = p2
  s1 = s1
  s2 = s2
  s3 = s3
  s4 = s4
  s5 = s5
  s6 = s6
  s7 = s7
  None = None
  Old = Old
  Place = {p1, p2}
  Source = {s1, s2, s3, s4, s5, s6, s7}
  Size <- MCSize
  ContentOf <- MCContent
  Index = {1, 2}
  IndexOf <- MCIndex
  Ignored = {s7}
  Encrypted = {g1, g3}
  Garbled = Garbled
  Checks = {TRUE, FALSE}
  Sample <- MCSample
  Iv <- MCIv
  Group = {g1, g2, g3}
  FileOf <- MCFileOf
  SourcesOf <- MCSourcesOf
INVARIANTS
  TablesReady
  CipherIsFips
  SuccessMeansPacked
  NeverMixed
PROPERTIES
  RunEnds
