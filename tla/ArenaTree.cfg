SPECIFICATION Spec
CONSTANTS
  Names = {1, 2, 3}
  None = None
  MaxLen <- MCMaxLen
  Types = 3
  Methods = 1
  Fields = 0
  Properties = 0
  Events = 0
  GenericParams = 1
  MaxRefs = 1
  MaxRecords = 0
  Authored = {"base_type", "custom_attribute", "signature"}
INVARIANTS
  OwnershipConsistent
PROPERTIES
  ImplementsObjectModel
