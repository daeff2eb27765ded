CONSTANTS
    MaxRequests = 2
    MaxSeq = 3
    MaxTries = 2
    InactivityTimeout = TRUE
SPECIFICATION Spec
INVARIANTS
    AmpduFindsAgreement
CHECK_DEADLOCK FALSE
