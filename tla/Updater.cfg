SPECIFICATION FairSpec
CONSTANTS
    Slots = {t1, t2}
    Last = 2
    Bad = {2}
    Breaking = {2}
    Shipped = {0}
    Keep = 2
    Sizes = {2}
    Cap = 5
    Starts <- RunStarts
    Patient = TRUE
    Latest = Latest
    Torn = Torn
    Custom = Custom
    Null = Null
INVARIANTS
    RollbackReady
    OutcomeTrue
    StockKnown
PROPERTIES
    UpgradeSettles
CHECK_DEADLOCK FALSE
