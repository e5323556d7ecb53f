SPECIFICATION Spec
CONSTANTS
  Names = {1, 2, 3}
  None = None
  MaxLen <- MCMaxLen
  Types = 2
  Methods = 2
  Fields = 1
  Properties = 1
  Events = 1
  GenericParams = 0
  MaxRefs = 1
  MaxRecords = 0
  Authored = {"accessor", "operand_field", "overrides"}
INVARIANTS
  HandlesInRange
PROPERTIES
  ImplementsObjectModel
