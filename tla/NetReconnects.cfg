\* The times and limits of the code; attempts fail after a second or time out.
SPECIFICATION FairSpec
CONSTANTS
    MAX_WATCHDOG_MISS_COUNT = 3
    WATCHDOG_CHECK_TIMER = 60
    LostKicks = 1
    ConnectTimes = {1, 15}
INVARIANT NeverBitten
PROPERTY PingEveryMinute ReconnectsOrResets
CHECK_DEADLOCK FALSE
