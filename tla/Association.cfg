CONSTANTS
    a1 = a1
    a2 = a2
    Aps = {a1, a2}
    NoAp = NoAp
    MayRefuse = {a2}
    MaxQueued = 2
    MaxChanges = 1
    OtherAids <- McOtherAids
    MaxAid = 4
SPECIFICATION FairSpec
INVARIANTS
    NeverStuck
    AidIsOfBssid
    BothEndsAgree
PROPERTY
    EventuallyAssociated
CHECK_DEADLOCK FALSE
