SPECIFICATION Spec
CONSTANTS
    Editors = {ed}
    Publishers = {p1, p2}
    Requests = {r1, r2}
    Contents = {c1, c2}
    FirstContent = c1
    Patches <- ReviewPatches
    ApprovalsRequired = 2
    Licensed = TRUE
    MayCrash = TRUE
    Null = Null
    MaxStarts = 5
SYMMETRY Symmetry
INVARIANTS
    ApprovedDraftSignedOff
PROPERTIES
    LiveEditsStaged
    LiftsWhatItSawCleared
    PromotesWhatItChecked
    CycleQuorum
CHECK_DEADLOCK FALSE
