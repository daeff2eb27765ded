CONSTANTS
    SeqSpace = 12
    WinSize = 2
    StartingSeq = 10
    MaxMpdu = 4
    MaxAmpdu = 2
    Setups <- McSetupsTxop
    U16 = 24
SPECIFICATION LinkSpec
INVARIANT
    NoAssertFails
CHECK_DEADLOCK FALSE
