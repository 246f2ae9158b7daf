SPECIFICATION CrashSpec
CONSTANTS
  Index = {1, 2}
  c1 = c1
  c2 = c2
  Content = {c1, c2}
  HashOf <- MCHashOf
  RawSize <- MCRawSize
  Lz4Size <- MCLz4Size
  FlagSets <- MCFlagSets
  Key = {k1, k2}
  Raw <- MCRaw
  BytesPerBlock = 4
  HeaderSize = 1
  EntrySize = 2
  AesBlock = 2
  ForeignSizes = {0, 6}
  MaxFileSize = 16
  Junk = Junk
  None = None
INVARIANTS
  Layout
  UniqueLive
  WildOnlyWhenTorn
PROPERTIES
  LiveOnlyBuried
  ImplementsStore
