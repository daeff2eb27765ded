CONSTANTS
    Delays = {0, 1}
    MaxUid = 8
    HeapDelays = {0, 1, 2}
    CalendarDelays = {0, 1, 3, 9}
    SchedulerMaxUid = 10
SPECIFICATION EventLoopSpec
INVARIANTS
    ExpiredIsGone
    PendingIsLater
    HandOversInOrder
PROPERTIES
    HeapIsAgenda
    CalendarIsAgenda
CHECK_DEADLOCK FALSE
