CONSTANTS
    Delays = {0, 2}
    MaxUid = 6
    Epoch = 20
    Horizon = 1
    MaxRuns = 2
    SleepMargin = 1
    OneSecond = 2
SPECIFICATION FairSpec
INVARIANTS
    DueUnlessRemoved
    WakesInTime
    AbortsOnlyAfterRemoval
PROPERTIES
    EventuallyRuns
    StopEndsRun
CHECK_DEADLOCK FALSE
