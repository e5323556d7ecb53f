SPECIFICATION Spec
CONSTANTS
  Names = {1, 2, 3}
  None = None
  MaxLen <- MCMaxLen
  Types = 2
  Methods = 1
  Fields = 0
  Properties = 0
  Events = 0
  GenericParams = 0
  MaxRefs = 1
  MaxRecords = 0
  Authored = {"locals"}
INVARIANTS
  LocalsInRange
