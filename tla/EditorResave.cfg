SPECIFICATION FairSpec
CONSTANTS
    Slots = {s1, s2}
    MaxEdits = 2
    MaxClicks = 2
    Null = Null
PROPERTIES
    ResaveUnapproves
CHECK_DEADLOCK FALSE
