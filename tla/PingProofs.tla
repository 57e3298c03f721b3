----------------------------- MODULE PingProofs -----------------------------
(***************************************************************************)
(* What ping_gateway reports is about the last ping, for any number of     *)
(* sequence numbers; and its PCB is not freed under ping_recv as long as   *)
(* the link is not lost.                                                   *)
(***************************************************************************)
EXTENDS Ping, TLAPS

\* Between two calls of ping_gateway the result, set or about to be, and the answer go
\* together; while one runs only a reply to the ping before can set the result.
ResultInv ==
    /\ pc = "idle" /\ (last_ping_result = 1 \/ recv = "matched") => answered \/ overlap
    /\ pc = "idle" /\ answered => last_ping_result = 1 \/ recv = "matched"
    /\ pc = "send" /\ last_ping_result = 1 => overlap
    /\ pc = "idle" /\ asked = "init" => ping_rc # "TIMEOUT"

LEMMA InitResult == Init => TypeOK /\ ResultInv
<1> SUFFICES ASSUME Init PROVE TypeOK /\ ResultInv
  OBVIOUS
<1>1. ready \in BOOLEAN /\ answered \in BOOLEAN /\ overlap \in BOOLEAN /\ ~answered
  BY DEF Init
<1>2. ping_seq_num \in 0 .. SeqNums - 1
  BY PingAssumption DEF Init
<1> QED BY <1>1, <1>2 DEF Init, TypeOK, ResultInv

LEMMA StepType == TypeOK /\ [Next]_vars => TypeOK'
<1> SUFFICES ASSUME TypeOK, [Next]_vars PROVE TypeOK'
  OBVIOUS
<1> USE DEF TypeOK
<1>1. CASE PingFirst
  <2>1. CASE PingInit
    <3>1. ready' \in BOOLEAN /\ answered' \in BOOLEAN /\ overlap' \in BOOLEAN
      BY <2>1 DEF PingInit
    <3> QED BY <2>1, <3>1 DEF PingInit
  <2>2. CASE ~PingInit
    BY <1>1, <2>2 DEF PingFirst
  <2> QED BY <2>1, <2>2
<1>2. CASE PingReport
  BY <1>2 DEF PingReport
<1>3. CASE PingClear
  BY <1>3 DEF PingClear, ResultCleared
<1>4. CASE PingSend
  <2>1. NextSeqNum \in 0 .. SeqNums - 1
    BY PingAssumption DEF NextSeqNum
  <2>2. /\ ping_seq_num' \in 0 .. SeqNums - 1 /\ asked' \in {"ping", "no_mem"}
        /\ replies' \subseteq 0 .. SeqNums - 1
    BY <1>4, <2>1 DEF PingSend
  <2> QED BY <1>4, <2>2 DEF PingSend
<1>5. CASE LinkLost
  BY <1>5 DEF LinkLost
<1>6. ASSUME NEW seq \in 0 .. SeqNums - 1, RecvReply(seq) \/ Lose(seq) PROVE TypeOK'
  BY <1>6 DEF RecvReply, Lose, Called, task
<1>7. CASE RecvOther
  BY <1>7 DEF RecvOther, Called, task
<1>8. CASE RecvEnd
  BY <1>8 DEF RecvEnd
<1>9. CASE UNCHANGED vars
  BY <1>9 DEF vars, task
<1> QED BY <1>1, <1>2, <1>3, <1>4, <1>5, <1>6, <1>7, <1>8, <1>9 DEF Next, PingGateway

LEMMA StepResult == TypeOK /\ ResultInv /\ [Next]_vars => ResultInv'
<1> SUFFICES ASSUME TypeOK, ResultInv, [Next]_vars PROVE ResultInv'
  OBVIOUS
<1> USE DEF TypeOK, ResultInv
<1>1. CASE PingFirst
  BY <1>1 DEF PingFirst, PingInit
<1>2. CASE PingReport
  BY <1>2 DEF PingReport
<1>3. CASE PingClear
  BY <1>3 DEF PingClear, ResultCleared
<1>4. CASE PingSend
  BY <1>4 DEF PingSend
<1>5. CASE LinkLost
  BY <1>5 DEF LinkLost
<1>6. ASSUME NEW seq \in 0 .. SeqNums - 1, RecvReply(seq) \/ Lose(seq) PROVE ResultInv'
  <2>1. CASE Lose(seq)
    BY <2>1 DEF Lose, task
  <2>2. CASE RecvReply(seq)
    <3>1. CASE seq = ping_seq_num
      <4>1. recv' = "matched" /\ answered'
        BY <2>2, <3>1 DEF RecvReply, Matches
      <4> QED BY <2>2, <4>1 DEF RecvReply, task
    <3>2. CASE seq # ping_seq_num
      <4>1. recv' = "other" /\ recv = "none" /\ (answered' <=> answered)
        BY <2>2, <3>2 DEF RecvReply, Matches, Called
      <4> QED BY <2>2, <4>1 DEF RecvReply, task
    <3> QED BY <3>1, <3>2
  <2> QED BY <1>6, <2>1, <2>2
<1>7. CASE RecvOther
  BY <1>7 DEF RecvOther, Called, task
<1>8. CASE RecvEnd
  BY <1>8 DEF RecvEnd
<1>9. CASE UNCHANGED vars
  BY <1>9 DEF vars, task
<1> QED BY <1>1, <1>2, <1>3, <1>4, <1>5, <1>6, <1>7, <1>8, <1>9 DEF Next, PingGateway

LEMMA AlwaysResult == Spec => [](TypeOK /\ ResultInv)
BY InitResult, StepType, StepResult, PTL DEF Spec

\* Every variable keeps its type: the sequence number its width, the result its two
\* values, and only numbers that were sent come back.
THEOREM PingTypeCorrect == Spec => []TypeOK
BY AlwaysResult, PTL

\* PING_OK only of a ping that was answered, or when ping_recv overlapped ping_gateway.
THEOREM OkIsAnswered == Spec => OkMeansAnswered
<1>1. TypeOK /\ ResultInv /\ [Next]_vars
        => [PingReport /\ ping_rc' = "OK" => answered \/ overlap]_vars
  BY DEF TypeOK, ResultInv, PingReport
<1> QED BY <1>1, AlwaysResult, PTL DEF Spec, OkMeansAnswered

\* PING_TIMEOUT only if no answer has been handled, and at most once for each ping_init
\* on account of there having been no ping to answer, unless memory was wanting.
THEOREM TimeoutIsUnanswered == Spec => TimeoutMeansUnanswered
<1>1. TypeOK /\ ResultInv /\ [Next]_vars
        => [PingReport /\ ping_rc' = "TIMEOUT" =>
              /\ ~answered \/ recv = "matched"
              /\ ping_rc = "TIMEOUT" => asked # "init"]_vars
  BY DEF TypeOK, ResultInv, PingReport
<1> QED BY <1>1, AlwaysResult, PTL DEF Spec, TimeoutMeansUnanswered

-----------------------------------------------------------------------------
(* The PCB                                                                 *)

\* Before the first ping_init there is no PCB to hold.
PcbInv ==
    /\ TypeOK
    /\ ~ready => ping_pcb = 0
    /\ in_use \in {0, ping_pcb}

LEMMA StepPcb == PcbInv /\ [Next]_vars /\ [~LinkLost]_vars => PcbInv'
<1> SUFFICES ASSUME PcbInv, [Next]_vars, [~LinkLost]_vars PROVE PcbInv'
  OBVIOUS
<1>0. TypeOK'
  BY StepType DEF PcbInv
<1> USE <1>0 DEF PcbInv
<1>1. CASE PingFirst
  BY <1>1 DEF PingFirst, PingInit
<1>2. CASE PingReport \/ PingClear \/ PingSend
  BY <1>2 DEF PingReport, PingClear, PingSend
<1>3. ASSUME NEW seq \in 0 .. SeqNums - 1, RecvReply(seq) \/ Lose(seq) PROVE PcbInv'
  BY <1>3 DEF RecvReply, Lose, Called, task
<1>4. CASE RecvOther \/ RecvEnd
  BY <1>4 DEF RecvOther, RecvEnd, Called, task
<1>5. CASE UNCHANGED vars
  BY <1>5 DEF vars, task
<1>6. CASE LinkLost
  <2>1. UNCHANGED vars
    BY <1>6
  <2> QED BY <1>5, <2>1
<1> QED BY <1>1, <1>2, <1>3, <1>4, <1>5, <1>6 DEF Next, PingGateway

\* ping_init frees the PCB that raw_input may be using only after check_net_task has
\* found the link down and taken the target away: until then it has run just once.
THEOREM PcbKeptUntilLinkLost == Spec /\ [][~LinkLost]_vars => []PcbKeptInUse
<1>1. Init => PcbInv
  BY InitResult DEF Init, PcbInv
<1>2. PcbInv => PcbKeptInUse
  BY DEF PcbInv, PcbKeptInUse
<1> QED BY <1>1, <1>2, StepPcb, PTL DEF Spec
=============================================================================
