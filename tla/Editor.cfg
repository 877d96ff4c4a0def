SPECIFICATION FairSpec
CONSTANTS
    Slots = {s1, s2}
    MaxEdits = 2
    MaxClicks = 2
    Null = Null
INVARIANTS
    SavedIsStored
    NothingLost
PROPERTIES
    ApprovalKept
    WorkSettles
CHECK_DEADLOCK FALSE
