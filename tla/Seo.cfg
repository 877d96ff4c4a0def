SPECIFICATION FairSpec
CONSTANTS
    Null = Null
    Pages = {p1, p2}
    Runners = {w1, w2}
    Drip = drip
    SampleOver = 1
    SampleSize = 1
    RetryRounds = 1
    MaxEvents = 3
    Afters = {Null, 2}
    Resets = {1}
    Second = 2
    MinRps = 1
    StartRps = 2
    MaxRps = 2
    Event = 1
    Window = 1
    MaxPause = 2
    StepEvery = 1
INVARIANTS
    HoldHonoured
    NeverProbesPast
    Accounted
    StaleRefetched
PROPERTIES
    VerdictSurvives
    RunEnds
CHECK_DEADLOCK FALSE
