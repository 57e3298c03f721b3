--------------------------- MODULE WatchdogTimer ---------------------------
(***************************************************************************)
(* The watchdog of src/pico_rtos_https.c in time, as one of the tasks it   *)
(* monitors meets it.  The task kicks by clearing its flag; every          *)
(* WATCHDOG_CHECK_TIMER seconds the watchdog counts the flag up, and bites *)
(* when it has found MAX_WATCHDOG_MISS_COUNT there.  (Module Watchdog has  *)
(* that step by step, for all tasks; here a look at the flag is one step.) *)
(***************************************************************************)
EXTENDS Integers

CONSTANTS
    MAX_WATCHDOG_MISS_COUNT,
    WATCHDOG_CHECK_TIMER,
    LostKicks       \* kicks in a row that the watchdog may overwrite

ASSUME TimerAssumption ==
    /\ MAX_WATCHDOG_MISS_COUNT \in Nat \ {0}
    /\ WATCHDOG_CHECK_TIMER \in Nat /\ WATCHDOG_CHECK_TIMER >= 16
    /\ LostKicks \in Nat

VARIABLES
    flag,       \* the task's flag
    clock,      \* seconds since the watchdog last looked; below 0, until it starts
    bitten,     \* the watchdog has found the flag too high: the device is reset
    silent,     \* history: seconds since the task's last kick that was not overwritten
    lost        \* history: kicks overwritten since then

timer == <<flag, clock, bitten, silent, lost>>

TimerStarts(c) == flag = 0 /\ clock = c /\ bitten = FALSE /\ silent = 0 /\ lost = 0

\* d seconds go by for a task that has been silent for s, with its flag at f.  The
\* watchdog may look in that time; at the very end of it, it may be just too late.
Elapse(f, s, d) ==
    /\ ~bitten
    /\ silent' = s + d
    /\ \/ /\ clock + d <= WATCHDOG_CHECK_TIMER
          /\ clock' = clock + d /\ flag' = f
          /\ UNCHANGED bitten
       \/ /\ clock + d >= WATCHDOG_CHECK_TIMER
          /\ clock' = clock + d - WATCHDOG_CHECK_TIMER /\ flag' = f + 1
          /\ bitten' = (f >= MAX_WATCHDOG_MISS_COUNT)

\* Without a kick.
Pass(d) == Elapse(flag, silent, d) /\ UNCHANGED lost

\* After a kick, which is overwritten if it falls into a look at the flag, after
\* the watchdog has loaded it.
Kick(d) ==
    \/ Elapse(0, 0, d) /\ lost' = 0
    \/ /\ clock = 0 /\ flag > 0 /\ lost < LostKicks
       /\ Elapse(flag, silent, d)
       /\ lost' = lost + 1

-----------------------------------------------------------------------------

\* What the flag says of the time gone by since the last kick: it has been counted
\* up once at once, and every other time a period later.
TimerInv ==
    /\ flag \in Nat /\ silent \in Nat /\ bitten \in BOOLEAN /\ lost \in 0 .. LostKicks
    /\ clock \in Int /\ clock <= WATCHDOG_CHECK_TIMER
    /\ flag > 0 => clock >= 0 /\ silent >= (flag - 1) * WATCHDOG_CHECK_TIMER + clock
    /\ bitten => silent >= MAX_WATCHDOG_MISS_COUNT * WATCHDOG_CHECK_TIMER
=============================================================================
