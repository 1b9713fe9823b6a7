SPECIFICATION Spec
CONSTANTS
  MaxSize = 16
  AddrMod = 32
  Byte = {0, 1}
  Address = {0, 1, 4, 6, 8, 11, 15, 16, 31}
  Value <- MCValue
CONSTRAINT FewSet
INVARIANTS
  TypeOK
  WideIsHalves
PROPERTIES
  ImplementsStore
