--------------------------- MODULE WatchdogProofs ---------------------------
(***************************************************************************)
(* Theorems about watchdog_task, for every miss count: no reset without a  *)
(* silent task, no silent task without a reset, wherever the tasks' kicks  *)
(* fall, those included that the watchdog overwrites.                      *)
(***************************************************************************)
EXTENDS Watchdog, TLAPS

LEMMA KickValues == \A t \in Tasks : KickValue(t) \in 0 .. 1
BY DEF KickValue

LEMMA InitWatchdog == Init => WatchdogInv
<1> SUFFICES ASSUME Init PROVE WatchdogInv
  OBVIOUS
<1>1. TypeOK
  BY DEF Init, TypeOK
<1>2. FlagInv
  BY KickValues DEF Init, FlagInv
<1>3. DecisionInv
  BY DEF Init, DecisionInv
<1>4. SilenceDetected
  BY MissCountAssumption DEF Init, SilenceDetected
<1> QED BY <1>1, <1>2, <1>3, <1>4 DEF WatchdogInv

\* A task kicks.
LEMMA KickWatchdog ==
    ASSUME WatchdogInv, NEW t \in Tasks, Kick(t)
    PROVE  WatchdogInv'
<1>1. TypeOK'
  BY KickValues DEF WatchdogInv, TypeOK, Kick
<1>2. FlagInv'
  <2> SUFFICES ASSUME NEW u \in Tasks
               PROVE  IF pc = "store" /\ task = u
                        THEN u \notin heard' /\ counter \in misses[u] .. misses[u] + KickValue(u)
                        ELSE IF u \in heard'
                          THEN wdog_flag'[u] \in 0 .. KickValue(u)
                          ELSE wdog_flag'[u] \in misses[u] + 1 .. misses[u] + 1 + KickValue(u)
    BY DEF FlagInv, Kick
  <2>1. CASE u = t
    <3>1. wdog_flag'[u] = KickValue(u)
      BY <2>1 DEF Kick, WatchdogInv, TypeOK
    <3>2. IF pc = "store" /\ task = u THEN heard' = heard ELSE u \in heard'
      BY <2>1 DEF Kick
    <3> QED BY <3>1, <3>2, KickValues DEF WatchdogInv, FlagInv
  <2>2. CASE u # t
    <3>1. wdog_flag'[u] = wdog_flag[u] /\ (u \in heard' <=> u \in heard)
      BY <2>2 DEF Kick, WatchdogInv, TypeOK
    <3> QED BY <3>1 DEF WatchdogInv, FlagInv
  <2> QED BY <2>1, <2>2
<1>3. DecisionInv' /\ SilenceDetected'
  BY DEF WatchdogInv, DecisionInv, SilenceDetected, Kick, Checked
<1> QED BY <1>1, <1>2, <1>3 DEF WatchdogInv

\* The watchdog takes its copy of a flag.
LEMMA LoadWatchdog ==
    ASSUME WatchdogInv, Load
    PROVE  WatchdogInv'
<1>1. TypeOK /\ task \in Tasks /\ pc = "load" /\ pc' = "store" /\ task' = task
  BY DEF WatchdogInv, TypeOK, Load
<1>2. TypeOK'
  BY <1>1 DEF TypeOK, Load
<1>3. misses'[task] = IF task \in heard THEN 0 ELSE misses[task] + 1
  BY <1>1 DEF TypeOK, Load
<1>4. \A u \in Tasks \ {task} : misses'[u] = misses[u] /\ (u \in heard' <=> u \in heard)
  BY <1>1 DEF TypeOK, Load
<1>5. FlagInv'
  <2>1. task \notin heard' /\ counter' \in misses'[task] .. misses'[task] + KickValue(task)
    BY <1>1, <1>3, KickValues DEF WatchdogInv, FlagInv, TypeOK, Load
  <2>2. ASSUME NEW u \in Tasks \ {task}
        PROVE  IF u \in heard'
                 THEN wdog_flag[u] \in 0 .. KickValue(u)
                 ELSE wdog_flag[u] \in misses'[u] + 1 .. misses'[u] + 1 + KickValue(u)
    BY <1>1, <1>4 DEF WatchdogInv, FlagInv
  <2> QED BY <1>1, <2>1, <2>2 DEF FlagInv, Load
<1>6. DecisionInv'
  <2>1. task \notin Checked /\ Checked \subseteq Tasks
    BY <1>1 DEF Checked, Tasks
  <2>2. Checked' = Checked
    BY <1>1 DEF Checked
  <2>3. \A u \in Checked : misses'[u] = misses[u]
    BY <1>4, <2>1
  <2> QED BY <1>1, <2>2, <2>3 DEF WatchdogInv, DecisionInv, Load
<1>7. SilenceDetected'
  BY <1>1, <1>4 DEF WatchdogInv, SilenceDetected, Load
<1> QED BY <1>2, <1>5, <1>6, <1>7 DEF WatchdogInv

\* The watchdog judges its copy and stores the count.
LEMMA StoreWatchdog ==
    ASSUME WatchdogInv, Store
    PROVE  WatchdogInv'
<1>1. /\ TypeOK /\ task \in Tasks /\ pc = "store" /\ pc' \in {"load", "decide"}
      /\ UNCHANGED <<misses, heard, counter, hung>>
      /\ task' = After(task)
  BY DEF WatchdogInv, TypeOK, Store
<1>2. /\ After(task) \in Tasks \cup {"none"}
      /\ pc' = "load" => After(task) \in Tasks
  BY <1>1 DEF After, Tasks, Store
<1>3. do_reset' = (do_reset \/ counter >= MAX_WATCHDOG_MISS_COUNT)
  BY DEF Store, Verdict, Missed
<1>4. TypeOK'
  <2>1. wdog_flag' \in [Tasks -> Nat]
    BY <1>1 DEF Store, CountedUp, TypeOK
  <2>2. do_reset' \in BOOLEAN
    BY <1>3
  <2> QED BY <1>1, <1>2, <2>1, <2>2 DEF TypeOK
<1>5. task \notin heard /\ counter \in misses[task] .. misses[task] + KickValue(task)
  BY <1>1 DEF WatchdogInv, FlagInv
<1>6. FlagInv'
  <2> SUFFICES ASSUME NEW u \in Tasks
               PROVE  IF u \in heard
                        THEN wdog_flag'[u] \in 0 .. KickValue(u)
                        ELSE wdog_flag'[u] \in misses[u] + 1 .. misses[u] + 1 + KickValue(u)
    BY <1>1 DEF FlagInv
  <2>1. CASE u = task
    BY <1>1, <1>5, <2>1, KickValues DEF TypeOK, Store, CountedUp
  <2>2. CASE u # task
    BY <1>1, <2>2 DEF TypeOK, Store, WatchdogInv, FlagInv
  <2> QED BY <2>1, <2>2
<1>7. DecisionInv'
  <2>1. Checked' = Checked \cup {task}
    BY <1>1 DEF Checked, After, Tasks
  <2>2. CASE counter >= MAX_WATCHDOG_MISS_COUNT
    <3>1. misses[task] + KickValue(task) >= MAX_WATCHDOG_MISS_COUNT
      BY <1>1, <1>5, <2>2, MissCountAssumption, KickValues DEF TypeOK
    <3> QED BY <1>1, <2>1, <3>1 DEF DecisionInv
  <2>3. CASE ~(counter >= MAX_WATCHDOG_MISS_COUNT)
    <3>1. do_reset' => do_reset
      BY <1>3, <2>3
    <3> QED BY <1>1, <2>1, <3>1 DEF WatchdogInv, DecisionInv
  <2> QED BY <2>2, <2>3
<1>8. SilenceDetected'
  <2> SUFFICES ASSUME NEW u \in Tasks, misses[u] >= MAX_WATCHDOG_MISS_COUNT
               PROVE  do_reset'
    BY <1>1 DEF SilenceDetected
  <2>1. CASE u = task
    <3>1. counter >= MAX_WATCHDOG_MISS_COUNT
      BY <1>1, <1>5, <2>1, MissCountAssumption, KickValues DEF TypeOK
    <3> QED BY <1>3, <3>1
  <2>2. CASE u # task
    <3>1. do_reset
      BY <2>2 DEF WatchdogInv, SilenceDetected
    <3> QED BY <1>3, <3>1
  <2> QED BY <2>1, <2>2
<1> QED BY <1>4, <1>6, <1>7, <1>8 DEF WatchdogInv

LEMMA StepWatchdog == WatchdogInv /\ [Next]_vars => WatchdogInv'
<1> SUFFICES ASSUME WatchdogInv, [Next]_vars PROVE WatchdogInv'
  OBVIOUS
<1>1. CASE Wake
  <2>1. ~do_reset' /\ ~do_reset
    BY <1>1 DEF Wake, WatchdogInv, DecisionInv
  <2>2. TypeOK'
    BY <1>1 DEF WatchdogInv, TypeOK, Wake, flagVars, Tasks
  <2>3. FlagInv'
    BY <1>1 DEF WatchdogInv, FlagInv, Wake, flagVars
  <2>4. DecisionInv' /\ SilenceDetected'
    BY <1>1, <2>1 DEF WatchdogInv, DecisionInv, SilenceDetected, Wake
  <2> QED BY <2>2, <2>3, <2>4 DEF WatchdogInv
<1>2. CASE Load
  BY <1>2, LoadWatchdog
<1>3. CASE Store
  BY <1>3, StoreWatchdog
<1>4. CASE Decide
  <2>1. TypeOK' /\ FlagInv'
    BY <1>4 DEF WatchdogInv, TypeOK, FlagInv, Decide, Reset, flagVars
  <2>2. DecisionInv' /\ SilenceDetected'
    BY <1>4 DEF WatchdogInv, DecisionInv, SilenceDetected, Decide, Reset, Checked
  <2> QED BY <2>1, <2>2 DEF WatchdogInv
<1>5. ASSUME NEW t \in Tasks, Kick(t) PROVE WatchdogInv'
  BY <1>5, KickWatchdog
<1>6. ASSUME NEW t \in Tasks, Hang(t) PROVE WatchdogInv'
  BY <1>6 DEF WatchdogInv, TypeOK, FlagInv, DecisionInv, SilenceDetected, Hang,
              flagVars, Checked
<1>7. CASE Reboot
  <2>1. Init'
    BY <1>7 DEF Reboot, Init
  <2> QED BY <2>1, InitWatchdog, PTL
<1>8. CASE UNCHANGED vars
  BY <1>8 DEF vars, WatchdogInv, TypeOK, FlagInv, DecisionInv, SilenceDetected,
              Checked
<1> QED
  BY <1>1, <1>2, <1>3, <1>4, <1>5, <1>6, <1>7, <1>8 DEF Next, WatchdogTask

\* What each flag stands for, in every interleaving of kicks and checks.
THEOREM WatchdogCorrect == Spec => []WatchdogInv
BY InitWatchdog, StepWatchdog, PTL DEF Spec

\* No reset without a task that was silent for as many checks as its flag counts.
THEOREM NoFalseAlarm == Spec => []ResetJustified
<1>1. WatchdogInv => ResetJustified
  <2>1. Checked \subseteq Tasks
    BY DEF Checked, Tasks
  <2> QED BY <2>1 DEF WatchdogInv, DecisionInv, ResetJustified
<1> QED BY <1>1, WatchdogCorrect, PTL

\* No task that is silent for that long is overlooked.
THEOREM NoMissedAlarm == Spec => []SilenceDetected
<1>1. WatchdogInv => SilenceDetected
  BY DEF WatchdogInv
<1> QED BY <1>1, WatchdogCorrect, PTL
=============================================================================
