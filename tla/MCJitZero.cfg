SPECIFICATION Spec
CHECK_DEADLOCK FALSE
CONSTANTS
  Word <- MCWord
  Imm <- MCImm
  Alu <- MCAlu
  FAlu <- MCFAlu
  Less <- MCLess
  FLess <- MCFLess
  FromInt <- MCFromInt
  ToInt <- MCToInt
  Low <- MCLow
  Splice <- MCSplice
  Cdq <- MCCdq
  Idiv <- MCIdiv
  Quotient <- MCQuotient
  Narrow <- MCNarrow
  Calls <- ZeroCalls
  Chained = {}
  MaxCalls = 1
  Machines <- MCMachines
  IndexMod = 4
  Cursors = {2}
PROPERTIES
  R0IsAlwaysZero
