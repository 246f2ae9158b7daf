SPECIFICATION FairHistSpec
CONSTANTS
  Index = {0, 1, 2}
  c1 = c1
  c2 = c2
  Content = {c1, c2}
  HashOf <- MCHashOf
  RawSize <- MCRawSize
  Lz4Size <- MCLz4Size
  FlagSets <- MCFlagSets
  Key = {k1}
  Raw <- MCRaw
  BytesPerBlock = 4
  HeaderSize = 1
  EntrySize = 2
  AesBlock = 2
  ForeignSizes = {0}
  MaxFileSize = 20
  Junk = Junk
  None = None
INVARIANTS
  NeverWild
  Tiled
  Coherent
  WrittenIsRead
PROPERTIES
  LoadTerminates
