SPECIFICATION CrashSpec
CONSTANTS
  Index = {1, 2}
  c1 = c1
  c2 = c2
  Content = {c1, c2}
  HashOf <- MCHashOf
  RawSize <- MCRawSize
  Lz4Size <- MCLz4Size
  FlagSets <- MCFewFlagSets
  Key = {k1}
  Raw <- MCNoRaw
  BytesPerBlock = 4
  HeaderSize = 1
  EntrySize = 2
  AesBlock = 2
  ForeignSizes = {0}
  MaxFileSize = 16
  Junk = Junk
  None = None
INVARIANTS
  EveryFileOpens
