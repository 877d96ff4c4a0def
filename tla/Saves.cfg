SPECIFICATION Spec
CONSTANTS
    Entries = {e1, e2}
    Calls = {c1, c2}
    Authors = {u1}
    Names = {n1, n2}
    Retention = 2
    MaxSaves = 3
    MaxFaults = 1
    Null = Null
SYMMETRY Symmetry
INVARIANTS
    OnePerName
    SlugsUnique
    Settled
PROPERTIES
    RecentKept
CHECK_DEADLOCK FALSE
