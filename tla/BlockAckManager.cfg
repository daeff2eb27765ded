CONSTANTS
    SeqSpace = 12
    WinSize = 3
    StartingSeq = 10
    MaxMpdu = 5
    MaxAmpdu = 3
    Setups <- McSetups
SPECIFICATION FairSpec
INVARIANTS
    InFlightWithinWindow
    NumbersNotReused
    OnlyOvertakenHoldUp
PROPERTY
    AllNumbered
CHECK_DEADLOCK FALSE
