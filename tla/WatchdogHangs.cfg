\* Any task may hang at any time; a hang is noticed and nothing else is.
SPECIFICATION FairSpec
CONSTANTS
    MAX_WATCHDOG_MISS_COUNT = 3
    PICO_DEBUG_MEMMON = TRUE
INVARIANT ResetJustified
INVARIANT SilenceDetected
INVARIANT WatchdogInv
PROPERTY HangResets
