SPECIFICATION Spec
CONSTANTS
  Byte <- MCByte
  Block = 2
  Extra = 1
  Padding = {"rfc2246"}
  Key = {1}
  Iv <- MCIv
  E <- MCE
  D <- MCD
  Xor <- MCXor
  MaxLen = 3
  Drains = {"rfc2246"}
  None = None
INVARIANTS
  RoundTrip
