SPECIFICATION Spec
CONSTANTS
    Jobs = {j1}
    Slots = {s1, s2}
    Null = Null
    Total = 2
    Parallel = 1
    Durable = TRUE
    MaxStalls = 1
    MaxCrashes = 2
SYMMETRY SlotSymmetry
INVARIANTS
    RunsBounded
CHECK_DEADLOCK FALSE
