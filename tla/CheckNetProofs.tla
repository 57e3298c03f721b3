--------------------------- MODULE CheckNetProofs ---------------------------
(***************************************************************************)
(* The network check is never the reason for a reset by the watchdog, as   *)
(* long as the watchdog waits more than 74 seconds (four attempts of 16 s  *)
(* after ten seconds' delay) for every kick that it may overwrite, and 74  *)
(* more.  And it pings once a minute, when it has made ready to.            *)
(***************************************************************************)
EXTENDS CheckNet, WatchdogTimerProofs

\* MAX_WATCHDOG_MISS_COUNT periods are longer than the longest silence.
Patient == MAX_WATCHDOG_MISS_COUNT * WATCHDOG_CHECK_TIMER > 74 * (LostKicks + 1)

\* How long the task has not kicked its flag, where it is.
NetSilenceInv ==
    /\ pc \in {"top", "connect", "connected", "failed", "reset", "idle"}
    /\ booting \in BOOLEAN
    /\ attempt \in 0 .. 4
    /\ booting => silent = 0 /\ bitten = FALSE /\ lost = 0
    /\ pc = "idle" => booting
    /\ pc \in {"top", "reset"} => silent <= 74 * lost + 10
    /\ pc = "connect" => attempt <= 3 /\ silent <= 74 * lost + 10 + 16 * attempt
    /\ silent <= 74 * (lost + 1)

\* What the count of passes says of the time since the last ping, and of the time for
\* which the link has been up; the last ping may be longer ago than the count says only
\* while the link has not been up for two rounds of the count.
PingInv ==
    /\ ping_timer \in 1 .. 6 /\ since_ping \in 0 .. 60 /\ up \in 0 .. 110
    /\ gateway \in BOOLEAN
    /\ pc # "top" => ~gateway /\ up = 0
    /\ booting => ping_timer = 6 /\ since_ping = 60 /\ pc \notin {"top", "reset"}
    /\ since_ping >= 10 * (7 - ping_timer)
    /\ ~gateway => up <= 10 * (6 - ping_timer)
    /\ gateway => since_ping = 10 * (7 - ping_timer) \/ up <= 50 + 10 * (7 - ping_timer)

NetInv == TimerInv /\ NetSilenceInv /\ PingInv

LEMMA InitNet == Init => NetInv
<1> SUFFICES ASSUME Init PROVE NetInv
  OBVIOUS
<1>2. TimerInv
  BY StartTimer DEF Init
<1>3. NetSilenceInv
  BY DEF Init, TimerStarts, NetSilenceInv
<1>4. /\ ping_timer = 6 /\ since_ping = 60 /\ up = 0 /\ ~gateway /\ gateway \in BOOLEAN
      /\ pc = "connect"
  BY DEF Init, kping_interval, minute
<1>5. PingInv
  BY <1>4 DEF PingInv
<1> QED BY <1>2, <1>3, <1>5 DEF NetInv

\* Some seconds go by, of which the watchdog takes notice once it is there.
LEMMA SpendTime ==
    ASSUME NetInv, NEW d \in 0 .. 16, Spend(d)
    PROVE  /\ TimerInv' /\ lost' = lost
           /\ booting => UNCHANGED bitten
           /\ silent' = IF booting THEN silent ELSE silent + d
<1>1. CASE booting
  BY <1>1 DEF Spend, timer, NetInv, TimerInv
<1>2. CASE ~booting
  <2>1. Pass(d) /\ d \in 0 .. WATCHDOG_CHECK_TIMER
    BY <1>2, TimerAssumption DEF Spend
  <2> QED BY <1>2, <2>1, PassTimer DEF NetInv
<1> QED BY <1>1, <1>2

\* A kick and the delay that follows it, if any.
LEMMA KickTime ==
    ASSUME TimerInv, NEW d \in {0, 10}, Kick(d)
    PROVE  /\ TimerInv'
           /\ \/ silent' = d /\ lost' = 0
              \/ silent' = silent + d /\ lost' = lost + 1
<1>1. d \in 0 .. WATCHDOG_CHECK_TIMER
  BY TimerAssumption
<1> QED BY <1>1, KickTimer

LEMMA LaterTime ==
    ASSUME since_ping \in 0 .. 60, NEW d \in 0 .. 16
    PROVE  /\ Later(d) \in 0 .. 60 /\ Later(d) >= since_ping
           /\ since_ping = 60 => Later(d) = 60
BY DEF Later, minute

LEMMA StepNet == NetInv /\ [Next]_vars => NetInv'
<1> SUFFICES ASSUME NetInv, [Next]_vars PROVE NetInv'
  OBVIOUS
<1> USE DEF NetInv
<1>0. silent \in Nat /\ lost \in Nat /\ since_ping \in 0 .. 60
  BY TimerAssumption DEF TimerInv, PingInv
<1>1. CASE LinkUp
  <2>1. /\ TimerInv'
        /\ \/ silent' = 10 /\ lost' = 0
           \/ silent' = silent + 10 /\ lost' = lost + 1
    BY <1>1, KickTime DEF LinkUp
  <2>2. NetSilenceInv'
    BY <1>0, <1>1, <2>1 DEF LinkUp, NetSilenceInv, PingInv
  <2>3. PingInv'
    <3>1. /\ pc' = "top" /\ booting' = booting /\ ~booting /\ gateway \in BOOLEAN
          /\ ping_timer \in 1 .. 6 /\ since_ping \in 0 .. 60 /\ up \in 0 .. 110
          /\ since_ping >= 10 * (7 - ping_timer)
          /\ ~gateway => up <= 10 * (6 - ping_timer)
          /\ gateway => since_ping = 10 * (7 - ping_timer) \/ up <= 50 + 10 * (7 - ping_timer)
      BY <1>1 DEF LinkUp, PingInv
    <3>2. CASE PingDue /\ gateway
      <4>1. ping_timer' = 6 /\ since_ping' = 10 /\ up' = Longer /\ gateway'
        BY <1>1, <3>2 DEF LinkUp, PingGateway, kping_interval
      <4>2. up' \in 0 .. 110
        BY <3>1, <4>1 DEF Longer, settled
      <4> QED BY <3>1, <4>1, <4>2 DEF PingInv
    <3>3. CASE PingDue /\ ~gateway
      <4>1. /\ ping_timer' = 6 /\ since_ping' = Later(10) /\ gateway' \in BOOLEAN
            /\ up' = IF gateway' THEN Longer ELSE 0
        BY <1>1, <3>3 DEF LinkUp, PingGateway, kping_interval
      <4>2. up <= 50
        BY <3>1, <3>3 DEF PingDue
      <4>3. up' \in 0 .. 60 /\ (~gateway' => up' = 0)
        BY <3>1, <4>1, <4>2 DEF Longer, settled
      <4>4. since_ping' \in 10 .. 60
        BY <3>1, <4>1 DEF Later, minute
      <4> QED BY <3>1, <4>1, <4>3, <4>4 DEF PingInv
    <3>4. CASE ~PingDue
      <4>1. ping_timer' = ping_timer - 1 /\ since_ping' = Later(10) /\ up' = Longer
            /\ gateway' = gateway
        BY <1>1, <3>4 DEF LinkUp
      <4>2. ping_timer \in 2 .. 6
        BY <3>1, <3>4 DEF PingDue
      <4>3. /\ since_ping' = IF since_ping + 10 < 60 THEN since_ping + 10 ELSE 60
            /\ up' = IF up + 10 < 110 THEN up + 10 ELSE 110
        BY <4>1 DEF Later, Longer, minute, settled
      <4>4. /\ ping_timer' \in 1 .. 6 /\ since_ping' \in 0 .. 60 /\ up' \in 0 .. 110
            /\ since_ping' >= 10 * (7 - ping_timer')
            /\ ~gateway => up' <= 10 * (6 - ping_timer')
        BY <3>1, <4>1, <4>2, <4>3
      <4>5. gateway => \/ since_ping' = 10 * (7 - ping_timer')
                       \/ up' <= 50 + 10 * (7 - ping_timer')
        BY <3>1, <4>1, <4>2, <4>3
      <4> QED BY <3>1, <4>1, <4>4, <4>5 DEF PingInv
    <3> QED BY <3>2, <3>3, <3>4
  <2> QED BY <2>1, <2>2, <2>3
<1>2. CASE LinkDown
  <2>1. /\ TimerInv'
        /\ \/ silent' = 0 /\ lost' = 0
           \/ silent' = silent + 0 /\ lost' = lost + 1
    BY <1>2, KickTime DEF LinkDown
  <2>2. NetSilenceInv'
    BY <1>0, <1>2, <2>1 DEF LinkDown, NetSilenceInv, PingInv
  <2>3. PingInv'
    <3>1. /\ ping_timer \in 1 .. 6 /\ ping_timer' = ping_timer /\ ~booting'
          /\ ~gateway' /\ gateway' \in BOOLEAN /\ up' = 0 /\ since_ping' = since_ping
      BY <1>2 DEF LinkDown, PingInv
    <3> QED BY <3>1 DEF PingInv
  <2> QED BY <2>1, <2>2, <2>3
<1>3. ASSUME NEW d \in ConnectTimes, AttemptSucceeds(d) PROVE NetInv'
  <2>1. PICK e \in {d, d + 1} : Spend(e) /\ since_ping' = Later(e)
    BY <1>3 DEF AttemptSucceeds
  <2>2. d \in 0 .. 15 /\ e \in 0 .. 16
    BY CheckNetAssumption
  <2>3. /\ TimerInv' /\ lost' = lost /\ silent' = IF booting THEN silent ELSE silent + e
        /\ booting => UNCHANGED bitten
    BY <2>1, <2>2, SpendTime
  <2>4. NetSilenceInv'
    BY <1>0, <1>3, <2>2, <2>3 DEF AttemptSucceeds, NetSilenceInv
  <2>5. since_ping' \in 0 .. 60 /\ since_ping' >= since_ping
        /\ (since_ping = 60 => since_ping' = 60)
    BY <1>0, <2>1, <2>2, LaterTime
  <2>6. PingInv'
    BY <1>3, <2>5 DEF AttemptSucceeds, PingInv
  <2> QED BY <2>3, <2>4, <2>6
<1>4. ASSUME NEW d \in ConnectTimes, AttemptFails(d) PROVE NetInv'
  <2>1. d + 1 \in 0 .. 16
    BY CheckNetAssumption
  <2>2. /\ TimerInv' /\ lost' = lost /\ silent' = IF booting THEN silent ELSE silent + (d + 1)
        /\ booting => UNCHANGED bitten
    BY <1>4, <2>1, SpendTime DEF AttemptFails
  <2>3. NetSilenceInv'
    BY <1>0, <1>4, <2>1, <2>2 DEF AttemptFails, NetSilenceInv, kmax_attempts
  <2>4. since_ping' \in 0 .. 60 /\ since_ping' >= since_ping
        /\ (since_ping = 60 => since_ping' = 60)
    BY <1>0, <1>4, <2>1, LaterTime DEF AttemptFails
  <2>5. PingInv'
    BY <1>4, <2>4 DEF AttemptFails, PingInv
  <2> QED BY <2>2, <2>3, <2>5
<1>5. CASE Booted
  <2>1. TimerInv'
    <3>1. /\ flag' = 0 /\ silent' = 0 /\ clock' \in Int /\ bitten' = FALSE /\ ~(flag' > 0)
          /\ clock' <= WATCHDOG_CHECK_TIMER /\ lost' \in 0 .. LostKicks
      BY <1>5, TimerAssumption DEF Booted, NetSilenceInv
    <3> QED BY <3>1 DEF TimerInv
  <2>2. NetSilenceInv'
    <3>1. /\ ~booting' /\ booting' \in BOOLEAN /\ pc' = "top" /\ silent' = 0 /\ lost' = 0
          /\ attempt' \in 0 .. 4
      BY <1>5 DEF Booted, NetSilenceInv
    <3> QED BY <3>1 DEF NetSilenceInv
  <2>3. PingInv'
    <3>1. /\ ping_timer' = 6 /\ since_ping' = 60 /\ up' = 0 /\ ~gateway' /\ gateway' \in BOOLEAN
          /\ booting' = FALSE /\ pc' = "top"
      BY <1>5 DEF Booted, PingInv, history
    <3> QED BY <3>1 DEF PingInv
  <2> QED BY <2>1, <2>2, <2>3
<1>6. CASE BootFailed
  BY <1>6 DEF BootFailed, timer, TimerInv, NetSilenceInv, PingInv, history
<1>7. CASE Reconnected
  <2>1. /\ TimerInv'
        /\ \/ silent' = 0 /\ lost' = 0
           \/ silent' = silent + 0 /\ lost' = lost + 1
    BY <1>7, KickTime DEF Reconnected
  <2>2. NetSilenceInv' /\ PingInv'
    BY <1>0, <1>7, <2>1 DEF Reconnected, NetSilenceInv, PingInv, history
  <2> QED BY <2>1, <2>2
<1>8. CASE ReconnectFails
  <2>1. /\ TimerInv'
        /\ \/ silent' = 10 /\ lost' = 0
           \/ silent' = silent + 10 /\ lost' = lost + 1
    BY <1>8, KickTime DEF ReconnectFails, RetryDelay
  <2>2. NetSilenceInv'
    BY <1>0, <1>8, <2>1 DEF ReconnectFails, NetSilenceInv
  <2>3. since_ping' \in 0 .. 60 /\ since_ping' >= since_ping
    BY <1>0, <1>8, LaterTime DEF ReconnectFails
  <2>4. PingInv'
    BY <1>8, <2>3 DEF ReconnectFails, PingInv
  <2> QED BY <2>1, <2>2, <2>4
<1>9. CASE SoftwareReset
  <2>1. TimerInv'
    <3>1. /\ flag' = 0 /\ silent' = 0 /\ clock' \in Int /\ bitten' = FALSE /\ ~(flag' > 0)
          /\ clock' <= WATCHDOG_CHECK_TIMER /\ lost' \in 0 .. LostKicks
      BY <1>9, TimerAssumption DEF SoftwareReset
    <3> QED BY <3>1 DEF TimerInv
  <2>2. NetSilenceInv'
    BY <1>9 DEF SoftwareReset, NetSilenceInv
  <2>3. PingInv'
    <3>1. /\ ping_timer' = 6 /\ since_ping' = 60 /\ up' = 0 /\ ~gateway' /\ gateway' \in BOOLEAN
          /\ pc' = "connect"
      BY <1>9 DEF SoftwareReset, kping_interval, minute
    <3> QED BY <3>1 DEF PingInv
  <2> QED BY <2>1, <2>2, <2>3
<1>10. CASE UNCHANGED vars
  BY <1>10 DEF vars, history, timer, TimerInv, NetSilenceInv, PingInv
<1> QED BY <1>1, <1>2, <1>3, <1>4, <1>5, <1>6, <1>7, <1>8, <1>9, <1>10 DEF Next

\* The watchdog never resets the device because the network check was reconnecting,
\* not even when it overwrites LostKicks of its kicks in a row.
THEOREM NetNeverBitten == ASSUME Patient PROVE Spec => []NeverBitten
<1>1. NetInv => NeverBitten
  <2> SUFFICES ASSUME NetInv, bitten PROVE FALSE
    BY DEF NeverBitten
  <2>1. silent \in Nat /\ lost \in 0 .. LostKicks /\ silent <= 74 * (lost + 1)
        /\ silent >= MAX_WATCHDOG_MISS_COUNT * WATCHDOG_CHECK_TIMER
    BY DEF NetInv, TimerInv, NetSilenceInv
  <2>2. /\ MAX_WATCHDOG_MISS_COUNT * WATCHDOG_CHECK_TIMER \in Nat
        /\ LostKicks \in Nat
    BY TimerAssumption, OnePeriodMore
  <2>3. silent <= 74 * (LostKicks + 1)
    BY <2>1, <2>2
  <2> QED BY <2>1, <2>2, <2>3, Patient DEF Patient
<1> QED BY <1>1, InitNet, StepNet, PTL DEF Spec

\* No minute goes by without a ping once the link has been up for 110 seconds, and at no
\* time is the gateway pinged more often, whatever the attempts to reconnect take.
THEOREM NetPings == Spec => PingEveryMinute
<1>1. NetInv /\ [Next]_vars
        => [LinkUp => /\ Pings => since_ping = minute
                      /\ up = settled /\ since_ping = minute => Pings]_vars
  <2> SUFFICES ASSUME NetInv, LinkUp
               PROVE  /\ Pings => since_ping = 60
                      /\ up = 110 /\ since_ping = 60 => Pings
    BY DEF minute, settled
  <2>1. /\ pc = "top" /\ gateway \in BOOLEAN /\ since_ping >= 10 * (7 - ping_timer)
        /\ ping_timer \in 1 .. 6 /\ since_ping \in 0 .. 60 /\ up \in 0 .. 110
        /\ ~gateway => up <= 10 * (6 - ping_timer)
        /\ gateway => since_ping = 10 * (7 - ping_timer) \/ up <= 50 + 10 * (7 - ping_timer)
    BY DEF NetInv, PingInv, LinkUp
  <2>2. CASE PingDue
    <3>1. since_ping = 60
      BY <2>1, <2>2 DEF PingDue
    <3>2. gateway => since_ping' = 10
      BY <2>2 DEF LinkUp, PingGateway
    <3>3. ~gateway => up <= 50
      BY <2>1, <2>2 DEF PingDue
    <3> QED BY <2>1, <3>1, <3>2, <3>3 DEF Pings
  <2>3. CASE ~PingDue
    <3>1. /\ ping_timer \in 2 .. 6
          /\ since_ping' = IF since_ping + 10 < 60 THEN since_ping + 10 ELSE 60
      BY <2>1, <2>3 DEF PingDue, LinkUp, Later, minute
    <3>2. since_ping' # 10 /\ ~(up = 110 /\ since_ping = 60)
      BY <2>1, <3>1
    <3> QED BY <3>2 DEF Pings
  <2> QED BY <2>2, <2>3
<1> QED BY <1>1, InitNet, StepNet, PTL DEF Spec, PingEveryMinute
=============================================================================
