SPECIFICATION Spec
CONSTANTS
  Names = {1, 2, 3}
  None = None
  MaxLen <- MCMaxLen
  Types = 2
  Methods = 3
  Fields = 0
  Properties = 0
  Events = 0
  GenericParams = 0
  MaxRefs = 0
  MaxRecords = 1
  Authored = {}
INVARIANTS
  TypeOK
  DebugFollowsMethod
PROPERTIES
  EntryPointNeverRetargets
