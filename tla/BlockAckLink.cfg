CONSTANTS
    SeqSpace = 12
    WinSize = 2
    StartingSeq = 10
    MaxMpdu = 4
    MaxAmpdu = 2
    Setups <- McSetups
    U16 = 24
SPECIFICATION LinkSpec
INVARIANTS
    NothingAckedIsLost
    PendingIsWelcome
    NothingLeftWaiting
    RecipientWithinReach
PROPERTY
    DeliversInOrder
CHECK_DEADLOCK FALSE
