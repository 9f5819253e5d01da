SPECIFICATION Spec
CONSTANTS
    Callbacks = {f, g}
    MaxRegistrations = 4
    MaxDepth = 2
CHECK_DEADLOCK FALSE
INVARIANTS
    WalkInOrder
PROPERTIES
    UndisturbedWalkCallsAll
