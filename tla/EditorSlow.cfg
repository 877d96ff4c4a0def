SPECIFICATION Spec
CONSTANTS
    Slots = {s1, s2}
    MaxEdits = 2
    MaxClicks = 2
    Null = Null
INVARIANTS
    SavedShown
CHECK_DEADLOCK FALSE
