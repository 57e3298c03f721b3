------------------------ MODULE WatchdogTimerProofs ------------------------
(***************************************************************************)
(* What the watchdog's timer knows of a task's silence, for every period   *)
(* and miss count.                                                         *)
(***************************************************************************)
EXTENDS WatchdogTimer, TLAPS

\* A watchdog that begins its first period in -c seconds.
LEMMA StartTimer ==
    ASSUME NEW c \in Int, c <= 0, TimerStarts(c)
    PROVE  TimerInv
<1>1. /\ clock <= WATCHDOG_CHECK_TIMER /\ ~(flag > 0) /\ lost \in 0 .. LostKicks
      /\ flag = 0 /\ silent = 0 /\ bitten = FALSE /\ clock \in Int
  BY TimerAssumption DEF TimerStarts
<1> QED BY <1>1 DEF TimerInv

\* One more look at the flag is one more period of silence.
LEMMA OnePeriodMore ==
    ASSUME NEW f \in Nat, NEW T \in Nat
    PROVE  (f + 1) * T = f * T + T /\ f * T \in Nat
OBVIOUS

\* More looks are more silence.
LEMMA MorePeriods ==
    ASSUME NEW f \in Nat, NEW g \in Nat, NEW T \in Nat, f <= g
    PROVE  f * T <= g * T
OBVIOUS

\* Seconds that go by, from any flag and silence that fit.
LEMMA ElapseTimer ==
    ASSUME TimerInv, NEW d \in 0 .. WATCHDOG_CHECK_TIMER, NEW f \in Nat, NEW s \in Nat,
           f > 0 => clock >= 0 /\ s >= (f - 1) * WATCHDOG_CHECK_TIMER + clock,
           Elapse(f, s, d), lost' \in 0 .. LostKicks
    PROVE  TimerInv'
<1> DEFINE T == WATCHDOG_CHECK_TIMER
<1>1. /\ f \in Nat /\ s \in Nat /\ clock \in Int /\ clock <= T /\ T \in Nat /\ T > 0
      /\ d \in Nat /\ d <= T /\ MAX_WATCHDOG_MISS_COUNT \in Nat \ {0}
      /\ f > 0 => clock >= 0 /\ s >= (f - 1) * T + clock
      /\ lost' \in 0 .. LostKicks /\ bitten \in BOOLEAN /\ ~bitten
  BY TimerAssumption DEF TimerInv, Elapse
<1>2. silent' = s + d
  BY DEF Elapse
<1>5. \/ clock' = clock + d /\ clock + d <= T /\ flag' = f /\ bitten' = bitten
      \/ /\ clock + d >= T /\ clock' = clock + d - T /\ flag' = f + 1
         /\ bitten' = (f >= MAX_WATCHDOG_MISS_COUNT)
  BY DEF Elapse
<1>3. CASE clock' = clock + d /\ clock + d <= T /\ flag' = f /\ bitten' = bitten
  <2>1. f > 0 => clock' >= 0 /\ silent' >= (f - 1) * T + clock'
    BY <1>1, <1>2, <1>3, OnePeriodMore
  <2> QED BY <1>1, <1>2, <1>3, <2>1 DEF TimerInv
<1>4. CASE /\ clock + d >= T /\ clock' = clock + d - T /\ flag' = f + 1
           /\ bitten' = (f >= MAX_WATCHDOG_MISS_COUNT)
  <2>1. silent' >= f * T + clock'
    <3>1. CASE f = 0
      BY <1>1, <1>2, <1>4, <3>1
    <3>2. CASE f > 0
      <4>1. (f - 1) * T + T = f * T /\ f * T \in Nat /\ (f - 1) * T \in Nat
        BY <1>1, <3>2, OnePeriodMore
      <4>2. silent' >= (f - 1) * T + clock + d
        BY <1>1, <1>2, <3>2, <4>1
      <4> QED BY <1>1, <1>2, <1>4, <4>1, <4>2
    <3> QED BY <1>1, <3>1, <3>2
  <2>2. clock' >= 0 /\ clock' <= T /\ clock' \in Int
    BY <1>1, <1>4
  <2>3. ASSUME f >= MAX_WATCHDOG_MISS_COUNT
        PROVE  silent' >= MAX_WATCHDOG_MISS_COUNT * T
    <3>1. MAX_WATCHDOG_MISS_COUNT * T <= f * T /\ MAX_WATCHDOG_MISS_COUNT * T \in Nat
          /\ f * T \in Nat
      BY <1>1, <2>3, MorePeriods, OnePeriodMore
    <3>2. silent' \in Nat
      BY <1>1, <1>2
    <3> HIDE DEF T
    <3> QED BY <2>1, <2>2, <3>1, <3>2
  <2>4. flag' \in Nat /\ silent' \in Nat /\ bitten' \in BOOLEAN /\ flag' - 1 = f
    BY <1>1, <1>2, <1>4
  <2> QED BY <1>4, <2>1, <2>2, <2>3, <2>4 DEF TimerInv
<1> QED BY <1>3, <1>4, <1>5

LEMMA PassTimer ==
    ASSUME TimerInv, NEW d \in 0 .. WATCHDOG_CHECK_TIMER, Pass(d)
    PROVE  TimerInv' /\ ~bitten /\ silent' = silent + d /\ lost' = lost
<1>1. /\ flag \in Nat /\ silent \in Nat /\ lost \in 0 .. LostKicks
      /\ flag > 0 => clock >= 0 /\ silent >= (flag - 1) * WATCHDOG_CHECK_TIMER + clock
      /\ Elapse(flag, silent, d) /\ lost' = lost
  BY DEF TimerInv, Pass
<1>2. TimerInv'
  BY <1>1, ElapseTimer
<1> QED BY <1>1, <1>2 DEF Elapse

\* A kick ends the silence, or counts as overwritten.
LEMMA KickTimer ==
    ASSUME TimerInv, NEW d \in 0 .. WATCHDOG_CHECK_TIMER, Kick(d)
    PROVE  /\ TimerInv' /\ ~bitten
           /\ \/ silent' = d /\ lost' = 0
              \/ silent' = silent + d /\ lost' = lost + 1
<1>1. CASE Elapse(0, 0, d) /\ lost' = 0
  <2>1. lost' \in 0 .. LostKicks /\ 0 \in Nat /\ ~(0 > 0)
    BY <1>1, TimerAssumption
  <2>2. TimerInv'
    BY <1>1, <2>1, ElapseTimer
  <2> QED BY <1>1, <2>2 DEF Elapse
<1>2. CASE lost < LostKicks /\ Elapse(flag, silent, d) /\ lost' = lost + 1
  <2>1. /\ flag \in Nat /\ silent \in Nat /\ lost' \in 0 .. LostKicks
        /\ flag > 0 => clock >= 0 /\ silent >= (flag - 1) * WATCHDOG_CHECK_TIMER + clock
    BY <1>2, TimerAssumption DEF TimerInv
  <2>2. TimerInv'
    BY <1>2, <2>1, ElapseTimer
  <2> QED BY <1>2, <2>2 DEF Elapse
<1> QED BY <1>1, <1>2 DEF Kick
=============================================================================
