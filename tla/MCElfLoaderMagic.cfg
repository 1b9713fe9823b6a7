SPECIFICATION Spec
CONSTANTS
  NULL = NULL
  Images <- MCImages
  Sizes = {63, 64}
  Char = {1, 15, 16, 255}
  MaxName = 1
PROPERTY
  ExecutableIsAccepted
