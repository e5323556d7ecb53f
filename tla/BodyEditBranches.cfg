SPECIFICATION Spec
CONSTANTS
  Ops = {"br", "block"}
  BlockSize = 124
  None = None
  MaxLen = 5
  MaxBranches = 3
  MaxClauses = 0
  MaxLayouts = 0
  MaxLost = 0
INVARIANTS
  TypeOK
  ShorteningExact
  OptimizedBodyEncodes
