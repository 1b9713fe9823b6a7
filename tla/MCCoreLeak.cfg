SPECIFICATION Spec
CONSTANTS
  GprCount = 3
  AddrMod = 16
  Byte = {0, 1}
  Block = {1, 2, 3}
  Address = {0, 2, 4, 5, 12, 15}
  Config <- MCConfig
  Buffer <- MCBuffer
  Image <- MCImage
  MaxSteps = {0, 2}
INVARIANT
  DestroyFreesAll
