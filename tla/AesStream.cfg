SPECIFICATION Spec
CONSTANTS
  Byte <- MCByte
  Block = 2
  Extra = 1
  Padding = {"none", "pkcs7", "rfc2246"}
  Key = {1, 2}
  Iv <- MCIv
  E <- MCE
  D <- MCD
  Xor <- MCXor
  MaxLen = 3
  Drains = {"none", "pkcs7"}
  None = None
INVARIANTS
  ChunkHasRoom
  SplitFree
  RoundTrip
  ShortFails
