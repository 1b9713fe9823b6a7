SPECIFICATION DumpSpec
CONSTANTS
  GprCount = 4
  AddrMod = 16
  Byte = {0, 1}
  Block = {1, 2, 3}
  Address = {0, 4}
  Config <- MCConfig
  Buffer <- MCBuffer
  Image <- MCImage
  MaxSteps = {1}
INVARIANTS
  DumpTypeOK
  DumpTornOnlyByReset
  DumpShowsOneRegister
PROPERTIES
  DumpReturns
  ImplementsEmulator
