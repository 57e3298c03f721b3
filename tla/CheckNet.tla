------------------------------ MODULE CheckNet ------------------------------
(***************************************************************************)
(* main_task, check_net_task and connect_to_wifi (src/pico_rtos_https.c)   *)
(* in time.  main_task connects to the Wi-Fi network and then creates the  *)
(* other tasks; check_net_task looks at the link every ten seconds,        *)
(* reconnects when it is down, once a minute pings the gateway, or makes   *)
(* the first of these calls to make that possible (module Ping has the     *)
(* ping itself), and must kick its watchdog flag often enough meanwhile.   *)
(* One action is what happens up to the next delay, and takes that long.   *)
(***************************************************************************)
EXTENDS WatchdogTimer

CONSTANT ConnectTimes       \* seconds that an attempt to connect may take

ASSUME CheckNetAssumption == ConnectTimes \subseteq 0 .. 15    \* ktimeout_ms

kmax_attempts  == 3
kping_interval == 6
kmax_retries   == 20

minute  == 60       \* bound of since_ping
settled == 110      \* bound of up: two rounds of the ping timer, less a pass

VARIABLES
    pc,             \* "top", "connect", "connected", "failed", "reset", "idle"
    booting,        \* it is main_task that connects: no other task exists yet
    ping_timer, attempt, retry,
    gateway,        \* gateway_ip has been set, and ping_init() called for it
    since_ping,     \* history: seconds since the last ping; a minute: or more, or never
    up              \* history: seconds for which the link has been seen up, since the
                    \* last time that it was not, or had no gateway

history == <<since_ping, up>>
vars    == <<timer, pc, booting, ping_timer, attempt, retry, gateway, history>>

Init ==
    /\ pc = "connect" /\ booting = TRUE
    /\ ping_timer = kping_interval /\ attempt = 0 /\ retry = 0
    /\ TimerStarts(0)
    /\ gateway = FALSE /\ since_ping = minute /\ up = 0

-----------------------------------------------------------------------------

\* At boot there is no watchdog yet.
Spend(d) == IF booting THEN UNCHANGED timer ELSE Pass(d)

Later(d) == IF since_ping + d < minute THEN since_ping + d ELSE minute

Longer == IF up + 10 < settled THEN up + 10 ELSE settled

\* Mutant of PingDue: the gateway is pinged a pass early.
PingDueEarly == ping_timer <= 2

PingDue == ping_timer = 1

\* ping_gateway: the first call for a gateway only makes ready to ping it, if there is
\* one; PING_SINGLE_SHOT sends nothing by itself.
PingGateway ==
    \/ /\ gateway
       /\ since_ping' = 10 /\ up' = Longer
       /\ UNCHANGED gateway
    \/ /\ ~gateway
       /\ gateway' \in BOOLEAN
       /\ since_ping' = Later(10) /\ up' = IF gateway' THEN Longer ELSE 0

\* The link is up: ping when it is time to, then ten seconds' delay.
LinkUp ==
    /\ pc = "top"
    /\ Kick(10)
    /\ \/ PingDue /\ ping_timer' = kping_interval /\ PingGateway
       \/ /\ ~PingDue
          /\ ping_timer' = ping_timer - 1
          /\ since_ping' = Later(10) /\ up' = Longer
          /\ UNCHANGED gateway
    /\ UNCHANGED <<pc, booting, attempt, retry>>

\* gateway_ip.addr = IPADDR_NONE
LinkDown ==
    /\ pc = "top"
    /\ pc' = "connect"
    /\ Kick(0)
    /\ attempt' = 0 /\ retry' = 0
    /\ gateway' = FALSE /\ up' = 0
    /\ UNCHANGED <<booting, ping_timer, since_ping>>

-----------------------------------------------------------------------------
(* connect_to_wifi                                                         *)

\* A debug build stays a second longer.
AttemptSucceeds(d) ==
    /\ pc = "connect"
    /\ \E e \in {d, d + 1} : Spend(e) /\ since_ping' = Later(e)
    /\ pc' = "connected"
    /\ UNCHANGED <<booting, ping_timer, attempt, retry, gateway, up>>

\* do ... while (attempt++ < kmax_attempts), with a second's delay at the end.
AttemptFails(d) ==
    /\ pc = "connect"
    /\ Spend(d + 1)
    /\ attempt' = attempt + 1
    /\ pc' = IF attempt < kmax_attempts THEN "connect" ELSE "failed"
    /\ since_ping' = Later(d + 1)
    /\ UNCHANGED <<booting, ping_timer, retry, gateway, up>>

-----------------------------------------------------------------------------
(* Its two callers                                                         *)

\* main_task creates check_net_task at once and watchdog_task ten seconds later.
Booted ==
    /\ booting /\ pc = "connected"
    /\ booting' = FALSE /\ pc' = "top"
    /\ flag' = 0 /\ silent' = 0 /\ lost' = 0 /\ clock' = -10
    /\ UNCHANGED <<ping_timer, attempt, retry, bitten, gateway, history>>

\* main_task ends, and has created nothing.
BootFailed ==
    /\ booting /\ pc = "failed"
    /\ pc' = "idle"
    /\ UNCHANGED <<timer, booting, ping_timer, attempt, retry, gateway, history>>

Reconnected ==
    /\ ~booting /\ pc = "connected"
    /\ Kick(0) /\ pc' = "top"
    /\ UNCHANGED <<booting, ping_timer, attempt, retry, gateway, history>>

\* Mutant of RetryDelay: the flag is not kicked after a failed connect_to_wifi.
RetryDelayUnkicked == Pass(10)

RetryDelay == Kick(10)

\* Mutant of CountRetry: the failures are not counted.
CountRetryNot == UNCHANGED retry

CountRetry == retry' = retry + 1

\* do ... while (retry++ < 20), with ten seconds' delay at the end.
ReconnectFails ==
    /\ ~booting /\ pc = "failed"
    /\ RetryDelay
    /\ CountRetry
    /\ pc' = IF retry < kmax_retries THEN "connect" ELSE "reset"
    /\ attempt' = 0 /\ since_ping' = Later(10)
    /\ UNCHANGED <<booting, ping_timer, gateway, up>>

\* software_reset(): ten seconds later the device restarts.
SoftwareReset ==
    /\ pc = "reset"
    /\ pc' = "connect" /\ booting' = TRUE
    /\ ping_timer' = kping_interval /\ attempt' = 0 /\ retry' = 0
    /\ flag' = 0 /\ silent' = 0 /\ lost' = 0 /\ clock' = 0 /\ bitten' = FALSE
    /\ gateway' = FALSE /\ since_ping' = minute /\ up' = 0

-----------------------------------------------------------------------------

Next ==
    \/ LinkUp \/ LinkDown
    \/ \E d \in ConnectTimes : AttemptSucceeds(d) \/ AttemptFails(d)
    \/ Booted \/ BootFailed
    \/ Reconnected \/ ReconnectFails
    \/ SoftwareReset

Spec == Init /\ [][Next]_vars

\* Delays end, and so does an attempt to connect, at its timeout.
FairSpec == Spec /\ WF_vars(Next)

-----------------------------------------------------------------------------
(* Properties                                                              *)

\* The watchdog does not reset the device on account of the network check,
\* however often and however long it tries to reconnect.
NeverBitten == ~bitten

\* A step in which an echo request is sent.
Pings == pc = "top" /\ since_ping' = 10

\* src/README.md:215: the gateway is pinged every minute.  It is never pinged more often,
\* whatever reconnecting comes between; and once the link has been up for 110 seconds
\* (no sooner: a first minute may go by with the call that only makes ready, after boot
\* and after each reconnect) no minute goes by without a ping.
PingEveryMinute ==
    [][LinkUp => /\ Pings => since_ping = minute
                 /\ up = settled /\ since_ping = minute => Pings]_vars

\* check_net_task does not try to reconnect for ever: it gets back to looking at
\* the link, or resets the device.
ReconnectsOrResets == pc = "connect" /\ ~booting ~> pc \in {"top", "reset"}
=============================================================================
