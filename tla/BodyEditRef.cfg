SPECIFICATION Spec
CONSTANTS
  Ops = {"br", "switch", "ldc_i8"}
  BlockSize = 124
  None = None
  MaxLen = 3
  MaxBranches = 1
  MaxClauses = 1
  MaxLayouts = 0
  MaxLost = 0
PROPERTIES
  ImplementsILProcessor
