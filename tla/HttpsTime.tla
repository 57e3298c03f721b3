----------------------------- MODULE HttpsTime -----------------------------
(***************************************************************************)
(* https_task of src/pico_rtos_https.c in time, under the watchdog.  It    *)
(* kicks at the head of its loop and, after the connection, before each of *)
(* six delays; while it resolves the host's name and while a connection is *)
(* open it does not.  What it does meanwhile is in HttpsSession.           *)
(***************************************************************************)
EXTENDS WatchdogTimer

CONSTANTS
    Waits,      \* seconds that go by at once while the task waits
    MaxWait     \* bound: the longest wait looked at

ASSUME HttpsTimeAssumption ==
    /\ Waits \subseteq 1 .. WATCHDOG_CHECK_TIMER
    /\ MaxWait \in Nat

VARIABLES
    pc,         \* "top", "resolve", "wait", "pause" of the loop; "ended"
    i,          \* the delays of the pause that are over
    waited      \* history: seconds of waiting since a kick that was not overwritten

vars == <<timer, pc, i, waited>>

Init == TimerStarts(0) /\ pc = "top" /\ i = 0 /\ waited = 0

\* What was waited before a kick no longer counts, unless the kick was overwritten.
Heard == waited' = IF lost' = 0 THEN 0 ELSE waited

Top ==
    /\ pc = "top"
    /\ Kick(0) /\ Heard
    /\ pc' = "resolve" /\ i' = 0

\* Mutant of Silently: the task kicks while it waits.
Loudly(d) == Kick(d)

\* Nothing kicks for the task while it waits.
Silently(d) == Pass(d)

\* Waiting for the DNS, then for the events of the connection; or the task has
\* ended, and time goes by without it.
Wait(d) ==
    /\ pc \in {"resolve", "wait", "ended"}
    /\ waited + d <= MaxWait
    /\ Silently(d)
    /\ waited' = waited + d
    /\ UNCHANGED <<pc, i>>

\* The host has an address.  Without memory for a queue or a configuration the
\* task ends.
Resolved ==
    /\ pc = "resolve" /\ ~bitten
    /\ pc' \in {"wait", "ended"}
    /\ UNCHANGED <<timer, i, waited>>

NotResolved ==
    /\ pc = "resolve"
    /\ Silently(15)
    /\ pc' = "top"
    /\ UNCHANGED <<i, waited>>

\* The connection is over, and the 500 ms after it; or the client could not be
\* scheduled.
Over ==
    /\ pc = "wait"
    /\ \E d \in {0, 1} : Silently(d)
    /\ pc' = "pause"
    /\ UNCHANGED <<i, waited>>

\* Mutant of PauseDelay: no kick in the pause.
PauseDelayUnkicked == Pass(10)

PauseDelay == Kick(10)

Pause ==
    /\ pc = "pause"
    /\ PauseDelay /\ Heard
    /\ i' = i + 1
    /\ pc' = IF i < 5 THEN "pause" ELSE "top"

Next ==
    \/ Top \/ Resolved \/ NotResolved \/ Over \/ Pause
    \/ \E d \in Waits : Wait(d)

Spec == Init /\ [][Next]_vars

\* Time goes by, and the delays end; nothing says that a connection does.
FairSpec == Spec /\ WF_vars(Next)

-----------------------------------------------------------------------------
(* Properties                                                              *)

\* The device is not reset for resolutions and connections that have taken less than
\* the watchdog's patience together since the last kick, all but 15 s (the delay
\* after a failed resolution), and 15 s more for a kick that was overwritten; the
\* pause does not count.
ResetMeansLongWait ==
    bitten => waited + 15 * (lost + 1) >= MAX_WATCHDOG_MISS_COUNT * WATCHDOG_CHECK_TIMER

\* ... and is reset, whatever the task is waiting for, when they take a period more.
LongWaitMeansReset ==
    waited > (MAX_WATCHDOG_MISS_COUNT + 1) * WATCHDOG_CHECK_TIMER => bitten

\* pico_rtos_https.c:606: "terminating this task will cause watchdog timeout".
EndMeansReset == pc = "ended" ~> bitten
=============================================================================
