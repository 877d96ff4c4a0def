SPECIFICATION FairSpec
CONSTANTS
    Instances = {i1, i2}
    Passes = {p1, p2}
    Entries = {e1, e2}
    Redis = TRUE
    Prompt = TRUE
    MaxCalls = 2
    MaxFailures = 1
    MaxCrashes = 1
    Null = Null
INVARIANTS
    FiredOnce
PROPERTIES
    DueIsPublished
    PublishesOnlyDue
CHECK_DEADLOCK FALSE
