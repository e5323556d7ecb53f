SPECIFICATION Spec
CONSTANTS
  Ops = {"br", "ldc_i4_0"}
  BlockSize = 124
  None = None
  MaxLen = 3
  MaxBranches = 1
  MaxClauses = 1
  MaxLayouts = 1
  MaxLost = 0
PROPERTIES
  ImplementsILProcessor
