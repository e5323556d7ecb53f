SPECIFICATION Spec
CONSTANTS
    Unset = Unset
    Bodies <- MCBodies
    StackLimit = 2
CHECK_DEADLOCK FALSE
INVARIANTS TypeOK BlocksFollowFlow StructureExact DepthExact
PROPERTY Terminates
