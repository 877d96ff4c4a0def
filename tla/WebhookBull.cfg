SPECIFICATION FairSpec
CONSTANTS
    Hooks = {h1}
    Events = {e1}
    Null = Null
    MaxAttempts = 3
    Durable = TRUE
    MaxStalls = 1
    MaxCrashes = 2
    MaxEdits = 3
INVARIANTS
    DeletedHookStops
PROPERTIES
    SentOnce
    EveryDeliveryEnds
CHECK_DEADLOCK FALSE
