CONSTANTS
    MaxRate = 3
    MinSuccessThreshold = 2
    MaxSuccessThreshold = 5
    MinTimerThreshold = 3
    SuccessK = 2
    TimerK = 2
    IntLimit = 16
    MaxCount = 8
    MinRtsWnd = 1
    MaxRtsWnd = 3
    TurnOffRtsAfterRateDecrease = TRUE
    TurnOnRtsAfterRateIncrease = TRUE
    ErpProtection = TRUE
    U32 = 8
    ProbeThreshold = 1
    FailureThreshold = 2
    RtsNormally = FALSE
    RaiseThreshold = 2
    AddCreditThreshold = 50
    Enough = 2
    MaxRetry = 7
    MaxTx = 3
SPECIFICATION ManagersSpec
INVARIANTS
    ThresholdsInRange
    SuccessesSpeedUp
    RtsIsCounted
    FailuresSlowDown
PROPERTIES
    ImplementsRateLadder
    CaraProbesBeforeFalling
    OnoePacketKeepsRate
CHECK_DEADLOCK FALSE
