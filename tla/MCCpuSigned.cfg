SPECIFICATION Spec
CONSTANTS
  GprCount = 3
  RegMod = 262144
  DADDIU = 25
  Index = {0, 1, 2, 3}
  Value = {1, 262143}
  Address = {2, 4, 262140}
  Word <- SignedWord
  MaxRetired = 3
PROPERTY
  DaddiuAddsSignedImmediate
