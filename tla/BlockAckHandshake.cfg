CONSTANTS
    MaxRequests = 2
    MaxSeq = 3
    MaxTries = 2
    InactivityTimeout = TRUE
SPECIFICATION FairSpec
INVARIANTS
    StartsCoverUnsent
    ResponseFindsPending
PROPERTIES
    BlockedIsUnblocked
    HalfOpenEnds
CHECK_DEADLOCK FALSE
