CONSTANTS
    SeqSpace = 24
    WinSize = 4
    U16 = 48
    Mpdu <- McMpdu
    SeqNumber <- McSeqNumber
SPECIFICATION AgreementsSpec
INVARIANTS
    StartsUnacked
    BufferWithinWindow
    WindowsTogether
    AckedIsHeld
PROPERTIES
    ImplementsTxWindow
    ForwardsInOrder
CHECK_DEADLOCK FALSE
