\* The code's count and period; waits that go on a little and that fill a period.
SPECIFICATION FairSpec
CONSTANTS
    MAX_WATCHDOG_MISS_COUNT = 3
    WATCHDOG_CHECK_TIMER = 60
    LostKicks = 1
    Waits = {1, 29, 60}
    MaxWait = 360
INVARIANT ResetMeansLongWait
INVARIANT LongWaitMeansReset
PROPERTY EndMeansReset
CHECK_DEADLOCK FALSE
