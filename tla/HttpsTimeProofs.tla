-------------------------- MODULE HttpsTimeProofs --------------------------
(***************************************************************************)
(* How long https_task may wait, for every period and miss count of the    *)
(* watchdog: less than the count in periods and it is left alone, a period *)
(* more and the device is reset.                                           *)
(***************************************************************************)
EXTENDS HttpsTime, WatchdogTimerProofs

Waiting == pc \in {"resolve", "wait", "ended"}

\* All silence since the last kick but a delay of at most 15 s is waiting; after
\* each kick that was overwritten there was one such delay more.
SilenceInv ==
    /\ waited \in Nat /\ waited <= silent
    /\ silent <= waited + 15 * (lost + 1)
    /\ Waiting => silent <= waited + 15 * lost

\* The flag has been counted up as often as there were periods of silence.
CountedInv ==
    /\ clock >= 0
    /\ silent <= flag * WATCHDOG_CHECK_TIMER + clock
    /\ ~bitten => flag <= MAX_WATCHDOG_MISS_COUNT

TimeInv == TimerInv /\ SilenceInv /\ CountedInv

LEMMA InitTime == Init => TimeInv
<1> SUFFICES ASSUME Init PROVE TimeInv
  OBVIOUS
<1>1. TimerInv
  BY StartTimer DEF Init
<1>2. SilenceInv
  BY DEF Init, TimerStarts, SilenceInv, Waiting
<1>3. flag * WATCHDOG_CHECK_TIMER = 0
  BY TimerAssumption DEF Init, TimerStarts
<1>4. CountedInv
  BY <1>3, TimerAssumption DEF Init, TimerStarts, CountedInv
<1> QED BY <1>1, <1>2, <1>4 DEF TimeInv

\* The count keeps up with the time that goes by.
LEMMA ElapseCounted ==
    ASSUME TimerInv, clock >= 0, NEW d \in 0 .. WATCHDOG_CHECK_TIMER,
           NEW f \in 0 .. MAX_WATCHDOG_MISS_COUNT, NEW s \in Nat,
           s <= f * WATCHDOG_CHECK_TIMER + clock, Elapse(f, s, d)
    PROVE  CountedInv'
<1> DEFINE T == WATCHDOG_CHECK_TIMER
<1>1. /\ f \in Nat /\ s \in Nat /\ clock \in Int /\ clock >= 0 /\ T \in Nat /\ d \in Nat
      /\ d <= T /\ MAX_WATCHDOG_MISS_COUNT \in Nat \ {0}
      /\ f <= MAX_WATCHDOG_MISS_COUNT /\ s <= f * T + clock
  BY TimerAssumption DEF TimerInv
<1>3. silent' = s + d
  BY DEF Elapse
<1>4. \/ clock' = clock + d /\ flag' = f /\ bitten' = FALSE
      \/ /\ clock + d >= T /\ clock' = clock + d - T /\ flag' = f + 1
         /\ bitten' = (f >= MAX_WATCHDOG_MISS_COUNT)
  BY DEF Elapse, TimerInv
<1>5. (f + 1) * T = f * T + T /\ f * T \in Nat
  BY <1>1, OnePeriodMore
<1> HIDE DEF T
<1>6. CASE clock' = clock + d /\ flag' = f /\ bitten' = FALSE
  <2>1. silent' <= f * T + clock'
    BY <1>1, <1>3, <1>5, <1>6
  <2> QED BY <1>1, <1>6, <2>1 DEF CountedInv, T
<1>7. CASE /\ clock + d >= T /\ clock' = clock + d - T /\ flag' = f + 1
           /\ bitten' = (f >= MAX_WATCHDOG_MISS_COUNT)
  <2>1. silent' <= (f + 1) * T + clock' /\ clock' >= 0
    BY <1>1, <1>3, <1>5, <1>7
  <2>2. ~bitten' => flag' <= MAX_WATCHDOG_MISS_COUNT
    <3>1. CASE f >= MAX_WATCHDOG_MISS_COUNT
      BY <1>7, <3>1
    <3>2. CASE f < MAX_WATCHDOG_MISS_COUNT
      BY <1>1, <1>7, <3>2
    <3> QED BY <1>1, <3>1, <3>2
  <2> QED BY <1>7, <2>1, <2>2 DEF CountedInv, T
<1> QED BY <1>4, <1>6, <1>7

LEMMA PassTime ==
    ASSUME TimerInv, CountedInv, NEW d \in 0 .. WATCHDOG_CHECK_TIMER, Pass(d)
    PROVE  /\ TimerInv' /\ CountedInv'
           /\ silent' = silent + d /\ lost' = lost
<1>1. TimerInv' /\ ~bitten /\ silent' = silent + d /\ lost' = lost /\ Elapse(flag, silent, d)
  BY PassTimer DEF Pass
<1>2. /\ clock >= 0 /\ flag \in 0 .. MAX_WATCHDOG_MISS_COUNT /\ silent \in Nat
      /\ silent <= flag * WATCHDOG_CHECK_TIMER + clock
  BY <1>1, TimerAssumption DEF TimerInv, CountedInv
<1>3. CountedInv'
  BY <1>1, <1>2, ElapseCounted
<1> QED BY <1>1, <1>3

LEMMA KickTime ==
    ASSUME TimerInv, CountedInv, NEW d \in 0 .. WATCHDOG_CHECK_TIMER, Kick(d)
    PROVE  /\ TimerInv' /\ CountedInv'
           /\ \/ silent' = d /\ lost' = 0
              \/ silent' = silent + d /\ lost' = lost + 1
<1>1. /\ TimerInv' /\ ~bitten
      /\ \/ silent' = d /\ lost' = 0
         \/ silent' = silent + d /\ lost' = lost + 1
  BY KickTimer
<1>2. CountedInv'
  <2>1. CASE Elapse(0, 0, d)
    <3>1. /\ clock >= 0 /\ clock \in Int /\ 0 \in 0 .. MAX_WATCHDOG_MISS_COUNT
          /\ 0 * WATCHDOG_CHECK_TIMER = 0
      BY TimerAssumption DEF TimerInv, CountedInv
    <3>2. 0 <= 0 * WATCHDOG_CHECK_TIMER + clock
      BY <3>1
    <3> QED BY <2>1, <3>1, <3>2, ElapseCounted
  <2>2. CASE Elapse(flag, silent, d)
    <3>1. /\ clock >= 0 /\ flag \in 0 .. MAX_WATCHDOG_MISS_COUNT /\ silent \in Nat
          /\ silent <= flag * WATCHDOG_CHECK_TIMER + clock
      BY <1>1, TimerAssumption DEF TimerInv, CountedInv
    <3> QED BY <2>2, <3>1, ElapseCounted
  <2> QED BY <2>1, <2>2 DEF Kick
<1> QED BY <1>1, <1>2

LEMMA StepTime == TimeInv /\ [Next]_vars => TimeInv'
<1> SUFFICES ASSUME TimeInv, [Next]_vars PROVE TimeInv'
  OBVIOUS
<1> USE DEF TimeInv
<1>0. /\ WATCHDOG_CHECK_TIMER \in Nat /\ WATCHDOG_CHECK_TIMER >= 16
      /\ silent \in Nat /\ waited \in Nat /\ lost \in Nat
  BY TimerAssumption DEF TimerInv, SilenceInv
<1>1. 0 \in 0 .. WATCHDOG_CHECK_TIMER /\ 10 \in 0 .. WATCHDOG_CHECK_TIMER
      /\ 1 \in 0 .. WATCHDOG_CHECK_TIMER /\ 15 \in 0 .. WATCHDOG_CHECK_TIMER
  BY <1>0
<1>3. CASE Top
  <2>1. Kick(0) /\ Heard /\ pc' = "resolve"
    BY <1>3 DEF Top
  <2>2. /\ TimerInv' /\ CountedInv'
        /\ \/ silent' = 0 /\ lost' = 0
           \/ silent' = silent + 0 /\ lost' = lost + 1
    BY <1>1, <2>1, KickTime
  <2>3. SilenceInv'
    BY <1>0, <2>1, <2>2 DEF SilenceInv, Heard, Waiting
  <2> QED BY <2>2, <2>3
<1>4. CASE \E d \in Waits : Wait(d)
  <2>1. PICK d \in Waits : Wait(d)
    BY <1>4
  <2>2. d \in 0 .. WATCHDOG_CHECK_TIMER /\ d \in Nat
    BY HttpsTimeAssumption, <1>0
  <2>3. Pass(d) /\ waited' = waited + d /\ pc' = pc
    BY <2>1 DEF Wait, Silently
  <2>4. TimerInv' /\ CountedInv' /\ silent' = silent + d /\ lost' = lost
    BY <2>2, <2>3, PassTime
  <2>5. SilenceInv'
    BY <1>0, <2>2, <2>3, <2>4 DEF SilenceInv, Waiting
  <2> QED BY <2>4, <2>5
<1>5. CASE Resolved
  <2>1. UNCHANGED <<timer, waited>> /\ Waiting
    BY <1>5 DEF Resolved, Waiting
  <2> QED BY <2>1 DEF timer, TimerInv, CountedInv, SilenceInv
<1>6. CASE NotResolved
  <2>1. Pass(15) /\ UNCHANGED waited /\ pc' = "top" /\ Waiting
    BY <1>6 DEF NotResolved, Silently, Waiting
  <2>2. TimerInv' /\ CountedInv' /\ silent' = silent + 15 /\ lost' = lost
    BY <1>1, <2>1, PassTime
  <2>3. SilenceInv'
    BY <1>0, <2>1, <2>2 DEF SilenceInv, Waiting
  <2> QED BY <2>2, <2>3
<1>7. CASE Over
  <2>1. PICK d \in {0, 1} : Pass(d)
    BY <1>7 DEF Over, Silently
  <2>2. UNCHANGED waited /\ pc' = "pause" /\ Waiting
    BY <1>7 DEF Over, Waiting
  <2>3. TimerInv' /\ CountedInv' /\ silent' = silent + d /\ lost' = lost
    BY <1>1, <2>1, PassTime
  <2>4. SilenceInv'
    BY <1>0, <2>1, <2>2, <2>3 DEF SilenceInv, Waiting
  <2> QED BY <2>3, <2>4
<1>8. CASE Pause
  <2>1. Kick(10) /\ Heard /\ pc' \in {"pause", "top"}
    BY <1>8 DEF Pause, PauseDelay
  <2>2. /\ TimerInv' /\ CountedInv'
        /\ \/ silent' = 10 /\ lost' = 0
           \/ silent' = silent + 10 /\ lost' = lost + 1
    BY <1>1, <2>1, KickTime
  <2>3. SilenceInv'
    BY <1>0, <2>1, <2>2 DEF SilenceInv, Heard, Waiting
  <2> QED BY <2>2, <2>3
<1>9. CASE UNCHANGED vars
  BY <1>9 DEF vars, timer, TimerInv, SilenceInv, CountedInv, Waiting
<1> QED BY <1>3, <1>4, <1>5, <1>6, <1>7, <1>8, <1>9 DEF Next

\* What the task waits for, apart from delays of at most 15 s, is all that can bring
\* it a reset: for every number of kicks that are overwritten.
THEOREM ShortWaitsAreSafe == Spec => []ResetMeansLongWait
<1>1. TimeInv => ResetMeansLongWait
  <2> SUFFICES ASSUME TimeInv, bitten
               PROVE  waited + 15 * (lost + 1)
                        >= MAX_WATCHDOG_MISS_COUNT * WATCHDOG_CHECK_TIMER
    BY DEF ResetMeansLongWait
  <2>1. /\ silent \in Nat /\ waited \in Nat /\ lost \in Nat
        /\ silent <= waited + 15 * (lost + 1)
        /\ silent >= MAX_WATCHDOG_MISS_COUNT * WATCHDOG_CHECK_TIMER
    BY TimerAssumption DEF TimeInv, TimerInv, SilenceInv
  <2>2. MAX_WATCHDOG_MISS_COUNT * WATCHDOG_CHECK_TIMER \in Nat
    BY TimerAssumption, OnePeriodMore
  <2> QED BY <2>1, <2>2
<1> QED BY <1>1, InitTime, StepTime, PTL DEF Spec

\* A wait of a period more than the watchdog's patience always does.
THEOREM LongWaitsAreFound == Spec => []LongWaitMeansReset
<1>1. TimeInv => LongWaitMeansReset
  <2> DEFINE T == WATCHDOG_CHECK_TIMER
             M == MAX_WATCHDOG_MISS_COUNT
  <2> SUFFICES ASSUME TimeInv, ~bitten PROVE ~(waited > (M + 1) * T)
    BY DEF LongWaitMeansReset
  <2>1. /\ waited \in Nat /\ silent \in Nat /\ waited <= silent /\ silent <= flag * T + clock
        /\ clock <= T /\ clock \in Int
        /\ flag <= M /\ flag \in Nat /\ M \in Nat /\ T \in Nat
    BY TimerAssumption DEF TimeInv, TimerInv, SilenceInv, CountedInv
  <2>2. /\ flag * T <= M * T /\ (M + 1) * T = M * T + T /\ M * T \in Nat /\ flag * T \in Nat
        /\ (M + 1) * T \in Nat
    BY <2>1, MorePeriods, OnePeriodMore
  <2> HIDE DEF T, M
  <2> QED BY <2>1, <2>2
<1> QED BY <1>1, InitTime, StepTime, PTL DEF Spec
=============================================================================
