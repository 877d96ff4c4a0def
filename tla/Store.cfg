SPECIFICATION FairStoreSpec
CONSTANTS
    EntryIds = {e1}
    MediaIds = {m1}
    Removers = {c1, c2}
    KeepDays = 1
    BinDays = 3
    MaxDays = 4
    MaxEdits = 2
    MaxOps = 3
    MaxStops = 1
    None = None
INVARIANTS
    KeptSnapshotsStored
    KeptThirtyDays
    UndoKept
    HistoryWhole
PROPERTIES
    DuePurged
CHECK_DEADLOCK FALSE
