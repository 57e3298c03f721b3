------------------------------ MODULE Watchdog ------------------------------
(***************************************************************************)
(* watchdog_task of src/pico_rtos_https.c and the tasks it monitors.  Each *)
(* task has a flag (a static volatile int): the task stores its kick value *)
(* in it, the watchdog adds one to it once a minute and resets the device  *)
(* when it has found MAX_WATCHDOG_MISS_COUNT there.  A flag is loaded and  *)
(* stored by the watchdog in two steps; a task may kick between them.      *)
(***************************************************************************)
EXTENDS Naturals

CONSTANTS
    MAX_WATCHDOG_MISS_COUNT,
    PICO_DEBUG_MEMMON           \* the build has the memory monitor

ASSUME MissCountAssumption == MAX_WATCHDOG_MISS_COUNT \in Nat \ {0}
ASSUME MemmonAssumption == PICO_DEBUG_MEMMON \in BOOLEAN

Tasks == {"https", "check_net", "blink"} \cup (IF PICO_DEBUG_MEMMON THEN {"memmon"} ELSE {})

\* The order in which the flags are checked.
After(t) ==
    CASE t = "https"     -> "check_net"
      [] t = "check_net" -> "blink"
      [] t = "blink" /\ PICO_DEBUG_MEMMON -> "memmon"
      [] OTHER           -> "none"

\* What a task stores in its flag to say that it is alive.
KickValue(t) == IF t = "blink" THEN 1 ELSE 0

VARIABLES
    wdog_flag,      \* the flag of each task
    pc,             \* where watchdog_task is
    task,           \* the task whose flag it is handling
    counter,        \* its copy of that flag
    do_reset,
    hung,           \* the tasks that will not kick again
    heard,          \* history: tasks that have kicked since they were checked
    misses          \* history: successive checks before which a task was not heard

flagVars == <<wdog_flag, heard>>
vars == <<wdog_flag, pc, task, counter, do_reset, hung, heard, misses>>

Init ==
    /\ wdog_flag = [t \in Tasks |-> 0]
    /\ pc = "delay" /\ task = "none" /\ counter = 0 /\ do_reset = FALSE
    /\ hung = {}
    /\ heard = Tasks
    /\ misses = [t \in Tasks |-> 0]

-----------------------------------------------------------------------------
(* The monitored tasks                                                     *)

\* A kick that comes between the watchdog's load and store of the flag is
\* overwritten, and not heard.
Kick(t) ==
    /\ t \notin hung /\ pc # "reset"
    /\ wdog_flag' = [wdog_flag EXCEPT ![t] = KickValue(t)]
    /\ heard' = IF pc = "store" /\ task = t THEN heard ELSE heard \cup {t}
    /\ UNCHANGED <<pc, task, counter, do_reset, hung, misses>>

\* The task ends, or waits for something that does not come.
Hang(t) ==
    /\ t \notin hung /\ pc # "reset"
    /\ hung' = hung \cup {t}
    /\ UNCHANGED <<flagVars, pc, task, counter, do_reset, misses>>

-----------------------------------------------------------------------------
(* watchdog_task                                                           *)

\* A minute has passed.
Wake ==
    /\ pc = "delay"
    /\ do_reset' = FALSE
    /\ task' = "https"
    /\ pc' = "load"
    /\ UNCHANGED <<flagVars, counter, hung, misses>>

Load ==
    /\ pc = "load"
    /\ counter' = wdog_flag[task]
    /\ misses' = [misses EXCEPT ![task] = IF task \in heard THEN 0 ELSE @ + 1]
    /\ heard' = heard \ {task}
    /\ pc' = "store"
    /\ UNCHANGED <<wdog_flag, task, do_reset, hung>>

\* Mutants of Missed: one miss too early; of Verdict: only the last task checked
\* decides; of CountedUp: it is not.
MissedEarly == counter + 1 >= MAX_WATCHDOG_MISS_COUNT

Missed == counter >= MAX_WATCHDOG_MISS_COUNT

VerdictOnLast == Missed

Verdict == do_reset \/ Missed

CountedUpNot == counter

CountedUp == counter + 1

Store ==
    /\ pc = "store"
    /\ do_reset' = Verdict
    /\ wdog_flag' = [wdog_flag EXCEPT ![task] = CountedUp]
    /\ task' = After(task)
    /\ pc' = IF After(task) = "none" THEN "decide" ELSE "load"
    /\ UNCHANGED <<counter, hung, heard, misses>>

\* Mutant of Reset: the task ends where it should reset the device.
ResetNot == "ended"

\* software_reset(): ten seconds later the device restarts.
Reset == "reset"

Decide ==
    /\ pc = "decide"
    /\ pc' = IF do_reset THEN Reset ELSE "delay"
    /\ UNCHANGED <<flagVars, task, counter, do_reset, hung, misses>>

\* After the restart the statics are zero and the tasks are created again.
Reboot ==
    /\ pc = "reset"
    /\ wdog_flag' = [t \in Tasks |-> 0]
    /\ pc' = "delay" /\ task' = "none" /\ counter' = 0 /\ do_reset' = FALSE
    /\ hung' = {}
    /\ heard' = Tasks
    /\ misses' = [t \in Tasks |-> 0]

-----------------------------------------------------------------------------

WatchdogTask == Wake \/ Load \/ Store \/ Decide

Next ==
    \/ WatchdogTask
    \/ \E t \in Tasks : Kick(t) \/ Hang(t)
    \/ Reboot

Spec == Init /\ [][Next]_vars

\* The watchdog's timer runs, and nothing keeps it from both cores for ever.
FairSpec == Spec /\ WF_vars(WatchdogTask)

-----------------------------------------------------------------------------
(* Properties                                                              *)

TypeOK ==
    /\ wdog_flag \in [Tasks -> Nat]
    /\ pc \in {"delay", "load", "store", "decide", "reset"}
    /\ task \in Tasks \cup {"none"}
    /\ pc \in {"load", "store"} => task \in Tasks
    /\ counter \in Nat /\ do_reset \in BOOLEAN
    /\ hung \subseteq Tasks /\ heard \subseteq Tasks
    /\ misses \in [Tasks -> Nat]

\* The device is never reset without cause: some task was not heard before as
\* many successive checks as its flag can count (one fewer for blink_task,
\* which starts its count at one).
ResetJustified ==
    do_reset => \E t \in Tasks : misses[t] + KickValue(t) >= MAX_WATCHDOG_MISS_COUNT

\* No task is silent for longer than that and overlooked, whichever of the
\* others go on kicking: the check that finds it decides on the reset.
SilenceDetected ==
    \A t \in Tasks :
        misses[t] >= MAX_WATCHDOG_MISS_COUNT => do_reset \/ (pc = "store" /\ task = t)

\* A hung task has the device reset in the end.
HangResets == \A t \in Tasks : t \in hung ~> pc = "reset"

-----------------------------------------------------------------------------
(* The inductive invariant: what each flag holds, in terms of the history. *)

\* A task that has been heard has its kick value, or the zero of the restart, in
\* its flag; the flag of any other is one more than its misses, from its kick
\* value up.  The flag being handled is in the watchdog's copy, not heard from.
FlagInv ==
    \A t \in Tasks :
        IF pc = "store" /\ task = t
          THEN /\ t \notin heard
               /\ counter \in misses[t] .. misses[t] + KickValue(t)
          ELSE IF t \in heard
            THEN wdog_flag[t] \in 0 .. KickValue(t)
            ELSE wdog_flag[t] \in misses[t] + 1 .. misses[t] + 1 + KickValue(t)

\* The tasks handled so far in this round.
Checked ==
    CASE task = "https"     -> {}
      [] task = "check_net" -> {"https"}
      [] task = "blink"     -> {"https", "check_net"}
      [] task = "memmon"    -> {"https", "check_net", "blink"}
      [] OTHER              -> Tasks

\* A reset is decided on in the round that finds its cause, not carried over.
DecisionInv ==
    /\ pc = "delay" => ~do_reset
    /\ do_reset => \E t \in Checked :
                       misses[t] + KickValue(t) >= MAX_WATCHDOG_MISS_COUNT

WatchdogInv ==
    /\ TypeOK
    /\ FlagInv
    /\ DecisionInv
    /\ SilenceDetected
=============================================================================
