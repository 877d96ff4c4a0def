SPECIFICATION FairSpec
CONSTANTS
    Jobs = {j1, j2}
    Slots = {s1, s2}
    Null = Null
    Total = 2
    Parallel = 1
    Durable = FALSE
    MaxStalls = 1
    MaxCrashes = 2
INVARIANTS
    NoneStuck
    OutcomeTruthful
    ToldMatchesRow
PROPERTIES
    BoardSpec
    EveryJobEnds
CHECK_DEADLOCK FALSE
