------------------------- MODULE HttpsSessionProofs -------------------------
(***************************************************************************)
(* Theorems about the HTTPS session, for every supply of connections, size *)
(* of queue and mailbox, amount of traffic and set of failures.            *)
(***************************************************************************)
EXTENDS HttpsSession, SequenceTheorems, TLAPS

\* What a post leaves in the queue: events that were there or are posted now; to
\* an open queue it does not fail.
LEMMA PostType ==
    ASSUME queue \in Seq(Events), Len(queue) <= QueueLen,
           cs_q \in {"null", "open", "deleted"},
           NEW evs \in Seq(Events), Post(evs)
    PROVE  /\ queue' \in Seq(Events)
           /\ Len(queue') <= QueueLen
           /\ halted' \in BOOLEAN
           /\ cs_q = "open" => halted' = FALSE
           /\ (\E i \in 1 .. Len(queue') : queue'[i] = "RX_DONE") =>
                 \/ \E i \in 1 .. Len(queue) : queue[i] = "RX_DONE"
                 \/ \E i \in 1 .. Len(evs) : evs[i] = "RX_DONE"
<1> DEFINE all == queue \o evs
           n == IF Len(all) < QueueLen THEN Len(all) ELSE QueueLen
<1>1. halted' \in BOOLEAN /\ (cs_q = "open" => halted' = FALSE)
  BY DEF Post
<1>2. /\ all \in Seq(Events) /\ Len(all) = Len(queue) + Len(evs)
      /\ \A i \in 1 .. Len(all) :
           all[i] = IF i <= Len(queue) THEN queue[i] ELSE evs[i - Len(queue)]
  OBVIOUS
<1>3. n \in 0 .. Len(all) /\ n <= QueueLen
  BY <1>2, SessionAssumption
<1>4. /\ SubSeq(all, 1, n) \in Seq(Events) /\ Len(SubSeq(all, 1, n)) = n
      /\ \A i \in 1 .. n : SubSeq(all, 1, n)[i] = all[i]
  BY <1>2, <1>3
<1>5. CASE cs_q = "open"
  <2>1. queue' = SubSeq(all, 1, n)
    BY <1>5 DEF Post
  <2>2. ASSUME NEW i \in 1 .. n, all[i] = "RX_DONE"
        PROVE  \/ \E j \in 1 .. Len(queue) : queue[j] = "RX_DONE"
               \/ \E j \in 1 .. Len(evs) : evs[j] = "RX_DONE"
    <3>1. CASE i <= Len(queue)
      BY <1>2, <1>3, <2>2, <3>1
    <3>2. CASE i > Len(queue)
      <4>1. i - Len(queue) \in 1 .. Len(evs)
        BY <1>2, <1>3, <3>2
      <4> QED BY <1>2, <1>3, <2>2, <3>2, <4>1
    <3> QED BY <3>1, <3>2, <1>2, <1>3
  <2> HIDE DEF all, n
  <2> QED BY <1>1, <1>3, <1>4, <2>1, <2>2
<1>6. CASE cs_q # "open"
  BY <1>1, <1>6 DEF Post
<1> QED BY <1>5, <1>6

\* A new round only marks what is in the mailbox as older than itself.
LEMMA AgedMbox ==
    ASSUME TypeOK, NewSession
    PROVE  /\ mbox' \in Seq([fn : {"start", "abort"}, old : BOOLEAN])
           /\ Len(mbox') = Len(mbox)
           /\ \A i \in 1 .. Len(mbox) : mbox'[i].fn = mbox[i].fn /\ mbox'[i].old
<1> DEFINE R == [fn : {"start", "abort"}, old : BOOLEAN]
<1>1. mbox' = [i \in 1 .. Len(mbox) |-> [mbox[i] EXCEPT !.old = TRUE]]
  BY DEF NewSession
<1>0. mbox \in Seq(R)
  BY DEF TypeOK
<1> HIDE DEF R
<1>2. Len(mbox) \in Nat /\ \A i \in 1 .. Len(mbox) : mbox[i] \in R
  BY <1>0
<1>3. mbox' \in [1 .. Len(mbox) -> R]
  BY <1>1, <1>2 DEF R
<1>4. mbox' \in UNION {[1 .. n -> R] : n \in Nat}
  BY <1>2, <1>3, Zenon
<1>5. mbox' \in Seq(R)
  BY <1>4, SeqDef, Zenon
<1>6. Len(mbox') = Len(mbox)
  BY <1>1, <1>2, <1>5
<1> QED BY <1>1, <1>2, <1>5, <1>6 DEF R

LEMMA StepType ==
    ASSUME TypeOK, [Next]_vars
    PROVE  TypeOK'
<1> USE DEF TypeOK
<1>0. ASSUME NEW evs \in Seq(Events), Post(evs)
      PROVE  queue' \in Seq(Events) /\ Len(queue') <= QueueLen /\ halted' \in BOOLEAN
  BY <1>0, PostType
<1>e. \A a, b \in Events : <<a>> \in Seq(Events) /\ <<a, b>> \in Seq(Events)
  OBVIOUS
<1>f. ASSUME NEW fn \in {"start", "abort"}, Schedule(fn)
      PROVE  mbox' \in Seq([fn : {"start", "abort"}, old : BOOLEAN])
  BY <1>f DEF Schedule
<1>g. ASSUME NEW fn, Runs(fn)
      PROVE  mbox' \in Seq([fn : {"start", "abort"}, old : BOOLEAN])
  BY <1>g DEF Runs
<1>h. queue # <<>> => Tail(queue) \in Seq(Events) /\ Len(Tail(queue)) <= QueueLen
  BY SessionAssumption
<1>1. CASE NewSession
  <2>1. mbox' \in Seq([fn : {"start", "abort"}, old : BOOLEAN])
    BY <1>1, AgedMbox
  <2> QED BY <1>1, <2>1 DEF NewSession
<1>2. CASE ResolvePoll \/ CreateConfig
  BY <1>2 DEF ResolvePoll, CreateConfig, csVars, lwipVars
<1>18. CASE Settle \/ FreeConfig
  BY <1>18 DEF Settle, FreeConfig, lwipVars
<1>3. CASE CreateQueue \/ DeleteQueue
  <2>1. <<>> \in Seq(Events) /\ Len(<<>>) <= QueueLen
    BY SessionAssumption
  <2>2. queue' = queue \/ queue' = <<>>
    BY <1>3 DEF CreateQueue, DeleteQueue
  <2>3. queue' \in Seq(Events) /\ Len(queue') <= QueueLen
    BY <2>1, <2>2
  <2> QED BY <1>3, <2>3 DEF CreateQueue, DeleteQueue, lwipVars
<1>19. CASE ClearQueue
  BY <1>19 DEF ClearQueue, lwipVars
<1>4. CASE Start
  BY <1>4, <1>f DEF Start, csVars, lwipVars
<1>5. CASE ReceiveBenign \/ ReceiveDone
  BY <1>5, <1>h DEF ReceiveBenign, ReceiveDone, csVars, taskVars, lwipVars
<1>6. CASE ReceiveFatal
  BY <1>6, <1>f, <1>h DEF ReceiveFatal, csVars, lwipVars
<1>7. CASE \E addr \in {"host", "NONE", "ANY"} : DnsAnswer(addr)
  BY <1>7 DEF DnsAnswer, csVars, lwipVars
<1>8. ASSUME NEW p \in Pcbs, StartClient(p) PROVE TypeOK'
  BY <1>8, <1>g DEF StartClient, taskVars
<1>9. CASE StartClientFails
  BY <1>9, <1>0, <1>e, <1>g DEF StartClientFails, Events, Fatal, taskVars, lwipVars
<1>10. CASE TlsAbort
  BY <1>10, <1>0, <1>e, <1>g DEF TlsAbort, Events, Fatal, Live, taskVars
<1>11. ASSUME NEW p \in Pcbs, Connected(p) PROVE TypeOK'
  BY <1>11, <1>0, <1>e DEF Connected, Events, Fatal, Benign, taskVars, csVars
<1>12. ASSUME NEW p \in Pcbs, NEW ev \in {"SENT", "RX_DATA", "RX_ERROR"}, Traffic(p, ev)
       PROVE  TypeOK'
  <2>1. ev \in Events
    BY DEF Events, Fatal, Benign
  <2>2. queue' \in Seq(Events) /\ Len(queue') <= QueueLen /\ halted' \in BOOLEAN
    BY <1>12, <1>0, <1>e, <2>1 DEF Traffic
  <2>3. traffic' \in [Pcbs -> Nat]
    BY <1>12 DEF Traffic
  <2> QED BY <1>12, <2>2, <2>3 DEF Traffic, taskVars, csVars
<1>13. ASSUME NEW p \in Pcbs, RecvOversize(p) PROVE TypeOK'
  BY <1>13, <1>0, <1>e DEF RecvOversize, Events, Fatal, taskVars
<1>14. ASSUME NEW p \in Pcbs, RecvDone(p) PROVE TypeOK'
  BY <1>14, <1>0, <1>e DEF RecvDone, Events, taskVars, csVars
<1>15. ASSUME NEW p \in Pcbs, LowerError(p) PROVE TypeOK'
  BY <1>15, <1>0, <1>e DEF LowerError, Events, Fatal, taskVars, csVars
<1>16. CASE Close
  BY <1>16 DEF Close, taskVars, csVars
<1>17. CASE UNCHANGED vars
  BY <1>17 DEF vars, taskVars, csVars, lwipVars
<1> QED
  BY <1>1, <1>2, <1>3, <1>4, <1>5, <1>6, <1>7, <1>8, <1>9, <1>10, <1>11, <1>12,
     <1>13, <1>14, <1>15, <1>16, <1>17, <1>18,
     <1>19 DEF Next, Task, Scheduled, Callback

-----------------------------------------------------------------------------
(* What the task may rely on                                               *)

\* The TCP/IP thread keeps within the 500 ms, the abort of a connection can be
\* scheduled, and a connection that is closed is gone.
Punctual == Timely /\ "callback_mem" \notin Faults /\ "close_mem" \notin Faults

DoneTold == task = "done" \/ \E i \in 1 .. Len(queue) : queue[i] = "RX_DONE"

\* Where in its round the task has what.
PlaceInv ==
    /\ cs_pconfig <=> task \in {"start", "wait", "done", "rx_error", "error", "free"}
    /\ task \in {"resolve", "queue", "config", "start"} => mine = {}
    /\ task \in {"config", "start"} => queue = <<>>
    /\ mbox # <<>> => task \in {"wait", "done", "rx_error", "error"}

\* A client to be started is all there is of its connection.
StartInv ==
    \A i \in 1 .. Len(mbox) : mbox[i].fn = "start" =>
        /\ Len(mbox) = 1 /\ task = "wait" /\ queue = <<>>
        /\ Live = {} /\ mine = {} /\ closing = NULL /\ ~mbox[i].old

\* There is one connection, the task is waiting for it or about to be rid of it.
LiveInv ==
    /\ \A p \in Live : p = cs_pcb /\ p \in mine
    /\ Live # {} => task \in {"wait", "done", "rx_error", "error"}
    /\ DoneTold => Live \subseteq {closing}
    /\ task \in {"rx_error", "error"} /\ Live # {} => mbox # <<>>
    /\ closing # NULL => closing \in Live

OwnInv == TypeOK /\ PlaceInv /\ StartInv /\ LiveInv

LEMMA InitOwn == Init => OwnInv
<1> SUFFICES ASSUME Init PROVE OwnInv
  OBVIOUS
<1>1. TypeOK
  <2>1. queue \in Seq(Events) /\ Len(queue) <= QueueLen
    BY SessionAssumption DEF Init
  <2>2. mbox \in Seq([fn : {"start", "abort"}, old : BOOLEAN])
    BY DEF Init
  <2> QED BY <2>1, <2>2 DEF Init, TypeOK
<1>2. Live = {}
  BY DEF Init, Live
<1>3. PlaceInv /\ StartInv /\ LiveInv
  BY <1>2 DEF Init, PlaceInv, StartInv, LiveInv, DoneTold
<1> QED BY <1>1, <1>3 DEF OwnInv

\* In a round without connection and without anything scheduled, a step that makes
\* neither keeps the invariant.
LEMMA CalmStep ==
    ASSUME OwnInv, Live = {}, mbox = <<>>, closing = NULL,
           UNCHANGED <<pcb, closing>>, mbox' = <<>>
    PROVE  StartInv' /\ LiveInv'
<1>1. Live' = {}
  BY DEF Live
<1> QED BY <1>1 DEF OwnInv, StartInv, LiveInv

\* In these places of its round the task has no connection and nothing scheduled.
LEMMA CalmPlace ==
    ASSUME OwnInv, task \notin {"wait", "done", "rx_error", "error"}
    PROVE  Live = {} /\ mbox = <<>> /\ closing = NULL
BY DEF OwnInv, PlaceInv, LiveInv

\* A callback of a live connection finds the queue open and alone has the thread.
LEMMA CallbackPlace ==
    ASSUME OwnInv, NEW p \in Live
    PROVE  /\ cs_pcb = p /\ Live = {p} /\ cs_q = "open"
           /\ task \in {"wait", "done", "rx_error", "error"}
           /\ \A i \in 1 .. Len(mbox) : mbox[i].fn # "start"
<1>1. p = cs_pcb /\ \A q \in Live : q = cs_pcb
  BY DEF OwnInv, LiveInv
<1>2. task \in {"wait", "done", "rx_error", "error"}
  BY DEF OwnInv, LiveInv
<1>3. cs_q = "open"
  BY <1>2 DEF OwnInv, TypeOK
<1> QED BY <1>1, <1>2, <1>3 DEF OwnInv, StartInv

\* One or two events other than RX_DONE.
LEMMA OtherEvents ==
    ASSUME NEW a \in Benign \cup Fatal, NEW b \in Benign \cup Fatal
    PROVE  /\ <<a>> \in Seq(Events) /\ \A i \in 1 .. Len(<<a>>) : <<a>>[i] # "RX_DONE"
           /\ <<a, b>> \in Seq(Events)
           /\ \A i \in 1 .. Len(<<a, b>>) : <<a, b>>[i] # "RX_DONE"
<1>1. a \in Events /\ b \in Events /\ a # "RX_DONE" /\ b # "RX_DONE"
  BY DEF Events, Benign, Fatal
<1> QED BY <1>1

\* A callback that posts no RX_DONE, and ends no connection or the only one.
LEMMA CallbackStep ==
    ASSUME OwnInv, NEW p \in Live, closing = NULL,
           NEW evs \in Seq(Events), Post(evs),
           \A i \in 1 .. Len(evs) : evs[i] # "RX_DONE",
           UNCHANGED <<task, cs_pconfig, mbox, mine, closing>>,
           \/ Live' = Live /\ cs_pcb' = cs_pcb
           \/ Live' = {}
    PROVE  PlaceInv' /\ StartInv' /\ LiveInv'
<1>1. PlaceInv'
  BY CallbackPlace DEF OwnInv, PlaceInv
<1>2. StartInv'
  BY CallbackPlace DEF StartInv
<1>3. DoneTold' => DoneTold
  BY PostType, CallbackPlace DEF DoneTold, OwnInv, TypeOK
<1>4. LiveInv'
  BY <1>3 DEF OwnInv, LiveInv
<1> QED BY <1>1, <1>2, <1>4

\* Receiving an event other than RX_DONE tells the task nothing of the kind.
LEMMA ReceiveTells ==
    ASSUME TypeOK, queue # <<>>, queue' = Tail(queue), task' # "done"
    PROVE  DoneTold' => DoneTold
<1>1. /\ Len(queue') = Len(queue) - 1 /\ Len(queue) \in Nat
      /\ \A i \in 1 .. Len(queue') : queue'[i] = queue[i + 1]
  BY DEF TypeOK
<1>2. \A i \in 1 .. Len(queue') : i + 1 \in 1 .. Len(queue)
  BY <1>1
<1> QED BY <1>1, <1>2 DEF DoneTold

LEMMA StepOwn ==
    ASSUME Punctual, OwnInv, [Next]_vars
    PROVE  OwnInv'
<1> TypeOK /\ TypeOK'
  BY StepType DEF OwnInv
<1> USE DEF Punctual
<1>1. CASE NewSession
  <2>1. mbox' = <<>> /\ mbox = <<>> /\ Live = {} /\ closing = NULL
    BY <1>1, CalmPlace, AgedMbox DEF NewSession
  <2> QED BY <1>1, <2>1, CalmStep DEF NewSession, OwnInv, PlaceInv
<1>2. CASE ResolvePoll \/ CreateQueue \/ CreateConfig
  <2>1. UNCHANGED <<mbox, mine, pcb, closing>>
        /\ task \notin {"wait", "done", "rx_error", "error"}
    BY <1>2 DEF ResolvePoll, CreateQueue, CreateConfig, lwipVars
  <2> QED BY <1>2, <2>1, CalmPlace, CalmStep DEF ResolvePoll, CreateQueue,
          CreateConfig, OwnInv, PlaceInv, csVars
<1>3. CASE FreeConfig \/ DeleteQueue \/ ClearQueue
  <2>1. UNCHANGED <<mbox, mine, pcb, closing>>
        /\ task \notin {"wait", "done", "rx_error", "error"}
    BY <1>3 DEF FreeConfig, DeleteQueue, ClearQueue, lwipVars
  <2> QED BY <1>3, <2>1, CalmPlace, CalmStep DEF FreeConfig, DeleteQueue,
          ClearQueue, OwnInv, PlaceInv
<1>4. CASE Start
  <2>1. /\ Live = {} /\ Live' = {} /\ mbox = <<>> /\ mine = {} /\ closing = NULL
        /\ task = "start" /\ UNCHANGED <<cs_pconfig, queue, mine, closing>>
    BY <1>4, CalmPlace DEF Start, csVars, lwipVars, Live, OwnInv, PlaceInv
  <2>2. task' = "wait" /\ Len(mbox') = 1 /\ ~mbox'[1].old
    BY <1>4, <2>1 DEF Start, Schedule
  <2>3. queue = <<>>
    BY <2>1 DEF OwnInv, PlaceInv
  <2> QED BY <2>1, <2>2, <2>3 DEF OwnInv, PlaceInv, StartInv, LiveInv
<1>5. CASE ReceiveBenign
  <2>1. DoneTold' => DoneTold
    BY <1>5, ReceiveTells DEF ReceiveBenign, taskVars
  <2> QED BY <1>5, <2>1 DEF ReceiveBenign, OwnInv, PlaceInv, StartInv, LiveInv,
          Live, taskVars, csVars, lwipVars
<1>6. CASE ReceiveDone
  <2>1. DoneTold
    BY <1>6 DEF ReceiveDone, DoneTold
  <2> QED BY <1>6, <2>1 DEF ReceiveDone, OwnInv, PlaceInv, StartInv, LiveInv,
          Live, csVars, lwipVars
<1>7. CASE ReceiveFatal
  <2>1. DoneTold' => DoneTold
    BY <1>7, ReceiveTells DEF ReceiveFatal
  <2>2. /\ mbox' # <<>>
        /\ \A i \in 1 .. Len(mbox') : mbox'[i].fn # "start"
    BY <1>7 DEF ReceiveFatal, Schedule, OwnInv, StartInv
  <2> QED BY <1>7, <2>1, <2>2 DEF ReceiveFatal, OwnInv, PlaceInv, StartInv, LiveInv,
          Live, csVars, lwipVars
<1>8. CASE Settle
  <2>1. mbox = <<>> /\ closing = NULL /\ Live = {}
    BY <1>8, SessionAssumption DEF Settle, ThreadDone, OwnInv, LiveInv, DoneTold, Live
  <2> QED BY <1>8, <2>1, CalmStep DEF Settle, OwnInv, PlaceInv, lwipVars
<1>9. CASE \E addr \in {"host", "NONE", "ANY"} : DnsAnswer(addr)
  BY <1>9 DEF DnsAnswer, OwnInv, PlaceInv, StartInv, LiveInv, Live, DoneTold,
     csVars, lwipVars
<1>10. ASSUME NEW p \in Pcbs, StartClient(p) PROVE OwnInv'
  <2>1. /\ mbox[1].fn = "start" /\ 1 \in 1 .. Len(mbox) /\ mbox' = Tail(mbox)
    BY <1>10 DEF StartClient, Runs
  <2>2. /\ Len(mbox) = 1 /\ task = "wait" /\ queue = <<>> /\ Live = {} /\ mine = {}
        /\ closing = NULL /\ mbox' = <<>> /\ ~mbox[1].old
    BY <2>1 DEF OwnInv, StartInv
  <2>3. Live' = {p}
    BY <1>10, <2>2 DEF StartClient, Live, TypeOK
  <2> QED BY <1>10, <2>2, <2>3 DEF StartClient, OwnInv, PlaceInv, StartInv, LiveInv,
          DoneTold, taskVars
<1>11. CASE StartClientFails
  <2>1. /\ mbox[1].fn = "start" /\ 1 \in 1 .. Len(mbox) /\ mbox' = Tail(mbox)
    BY <1>11 DEF StartClientFails, Runs
  <2>2. /\ Len(mbox) = 1 /\ Live = {} /\ Live' = {} /\ closing = NULL /\ task = "wait"
        /\ closing' = NULL /\ mbox' = <<>>
    BY <1>11, <2>1 DEF StartClientFails, OwnInv, StartInv, Live, lwipVars
  <2> QED BY <1>11, <2>1, <2>2 DEF StartClientFails, OwnInv, PlaceInv, StartInv, LiveInv,
          taskVars, lwipVars
<1>12. CASE TlsAbort
  <2>1. /\ mbox[1].fn = "abort" /\ 1 \in 1 .. Len(mbox) /\ mbox' = Tail(mbox)
        /\ closing = NULL
    BY <1>12 DEF TlsAbort, Runs, ThreadIdle
  <2>2. closing' = NULL
    BY <1>12, <2>1 DEF TlsAbort
  <2>4. Live' = {}
    <3>1. CASE cs_pcb \in Live
      BY <1>12, <3>1, SessionAssumption DEF TlsAbort, OwnInv, LiveInv, Live, TypeOK
    <3>2. CASE cs_pcb \notin Live
      BY <1>12, <3>2 DEF TlsAbort, OwnInv, LiveInv, Live
    <3> QED BY <3>1, <3>2
  <2>3. \A i \in 1 .. Len(mbox') : mbox'[i].fn # "start"
    BY <2>1 DEF OwnInv, StartInv
  <2> QED BY <1>12, <2>1, <2>2, <2>3, <2>4 DEF TlsAbort, OwnInv, PlaceInv, StartInv, LiveInv,
          taskVars
<1>13. ASSUME NEW p \in Pcbs,
              Connected(p) \/ (\E ev \in {"SENT", "RX_DATA", "RX_ERROR"} : Traffic(p, ev))
       PROVE  OwnInv'
  <2>1. p \in Live /\ closing = NULL /\ Live' = Live
        /\ UNCHANGED <<task, csVars, mbox, mine, closing>>
    BY <1>13 DEF Connected, Traffic, ThreadIdle, Live, TypeOK, taskVars
  <2>2. \E a, b \in Benign \cup Fatal : Post(<<a>>) \/ Post(<<a, b>>)
    BY <1>13 DEF Connected, Traffic, Benign, Fatal
  <2>3. PICK evs \in Seq(Events) :
          Post(evs) /\ \A i \in 1 .. Len(evs) : evs[i] # "RX_DONE"
    BY <2>2, OtherEvents
  <2> QED BY <2>1, <2>3, CallbackStep DEF OwnInv, csVars
<1>14. ASSUME NEW p \in Pcbs, RecvOversize(p) \/ LowerError(p) PROVE OwnInv'
  <2>1. p \in Live /\ closing = NULL
        /\ UNCHANGED <<task, cs_pconfig, mbox, mine, closing>>
    BY <1>14 DEF RecvOversize, LowerError, ThreadIdle, Live, taskVars, csVars
  <2>2. Live' = {}
    BY <1>14, <2>1, CallbackPlace DEF RecvOversize, LowerError, Live, TypeOK
  <2>3. \E a, b \in Benign \cup Fatal : Post(<<a>>) \/ Post(<<a, b>>)
    BY <1>14 DEF RecvOversize, LowerError, Fatal
  <2>4. PICK evs \in Seq(Events) :
          Post(evs) /\ \A i \in 1 .. Len(evs) : evs[i] # "RX_DONE"
    BY <2>3, OtherEvents
  <2> QED BY <2>1, <2>2, <2>4, CallbackStep DEF OwnInv
<1>15. ASSUME NEW p \in Pcbs, RecvDone(p) PROVE OwnInv'
  <2>1. p \in Live /\ Live' = Live /\ closing' = p
        /\ UNCHANGED <<task, cs_pcb, cs_pconfig, mbox, mine>>
    BY <1>15 DEF RecvDone, Live, taskVars, csVars
  <2>2. task \notin {"config", "start"} /\ Live = {p}
        /\ \A i \in 1 .. Len(mbox) : mbox[i].fn # "start"
    BY <2>1, CallbackPlace
  <2> QED BY <2>1, <2>2 DEF OwnInv, PlaceInv, StartInv, LiveInv
<1>16. CASE Close
  <2>1. closing \in Live /\ Live = {closing} /\ closing' = NULL
        /\ \A i \in 1 .. Len(mbox) : mbox[i].fn # "start"
    BY <1>16, CallbackPlace DEF Close, OwnInv, LiveInv
  <2>2. Live' = {}
    BY <1>16, <2>1 DEF Close, Live, TypeOK
  <2> QED BY <1>16, <2>1, <2>2 DEF Close, OwnInv, PlaceInv, StartInv, LiveInv,
          taskVars, csVars
<1>17. CASE UNCHANGED vars
  BY <1>17 DEF vars, taskVars, csVars, lwipVars, OwnInv, PlaceInv, StartInv,
     LiveInv, Live, DoneTold
<1> QED
  BY <1>1, <1>2, <1>3, <1>4, <1>5, <1>6, <1>7, <1>8, <1>9, <1>10, <1>11, <1>12,
     <1>13, <1>14, <1>15, <1>16, <1>17 DEF Next, Task, Scheduled, Callback

-----------------------------------------------------------------------------
(* The theorems                                                            *)

\* The types of the state; the queue pointer is good, null or stale exactly where
\* the place of https_task says so.
THEOREM SessionTypeCorrect == Spec => []TypeOK
<1>1. Init => TypeOK
  BY InitOwn DEF OwnInv
<1>2. TypeOK /\ [Next]_vars => TypeOK'
  BY StepType
<1> QED BY <1>1, <1>2, PTL DEF Spec

\* While the TCP/IP thread keeps within the delays of https_task, a connection
\* lwIP still has is the current one's, with its configuration and its queue.
THEOREM SessionOwns ==
    ASSUME Punctual
    PROVE  Spec => []SessionOwnsConnection
<1>1. Init => OwnInv
  BY InitOwn
<1>2. OwnInv /\ [Next]_vars => OwnInv'
  BY StepOwn
<1>3. OwnInv => SessionOwnsConnection
  <2> SUFFICES ASSUME OwnInv, NEW p \in Live
               PROVE  cs_pcb = p /\ cs_pconfig /\ cs_q = "open" /\ p \in mine
    BY DEF SessionOwnsConnection
  <2> QED BY CallbackPlace DEF OwnInv, PlaceInv, LiveInv
<1> QED BY <1>1, <1>2, <1>3, PTL DEF Spec

\* ... and a round of the loop is a round of HttpsRounds: at most one connection,
\* made with the configuration of the round and gone before it is given back.
THEOREM SessionIsRounds ==
    ASSUME Punctual
    PROVE  Spec => RoundsSpec
<1> DEFINE conn == IF Live # {} THEN "open"
                   ELSE IF cs_pconfig /\ mine # {} THEN "closed" ELSE "none"
<1>1. Init => OwnInv
  BY InitOwn
<1>2. OwnInv /\ [Next]_vars => OwnInv'
  BY StepOwn
<1>3. Init => Rounds!Init
  BY DEF Init, Live, Rounds!Init
<1>4. OwnInv /\ OwnInv' /\ [Next]_vars => [Rounds!Next]_<<cs_pconfig, conn>>
  <2> SUFFICES ASSUME OwnInv, OwnInv', [Next]_vars
               PROVE  [Rounds!Next]_<<cs_pconfig, conn>>
    OBVIOUS
  <2> USE DEF Rounds!Next, Rounds!Begin, Rounds!Open, Rounds!Close, Rounds!End
  <2>1. CASE CreateConfig
    <3>1. Live = {} /\ Live' = {} /\ mine = {} /\ mine' = {} /\ ~cs_pconfig
      BY <2>1, CalmPlace DEF CreateConfig, Live, OwnInv, PlaceInv, lwipVars
    <3> QED BY <2>1, <3>1 DEF CreateConfig
  <2>2. CASE FreeConfig
    <3>1. Live = {} /\ Live' = {} /\ cs_pconfig /\ cs_pconfig' = FALSE
      BY <2>2, CalmPlace DEF FreeConfig, Live, OwnInv, PlaceInv, lwipVars
    <3> QED BY <3>1
  <2>3. CASE NewSession
    <3>1. Live = {} /\ Live' = {} /\ cs_pconfig = FALSE /\ cs_pconfig' = FALSE
      BY <2>3, CalmPlace DEF NewSession, Live, OwnInv, PlaceInv, TypeOK
    <3> QED BY <3>1
  <2>4. CASE \E p \in Pcbs : StartClient(p)
    <3>1. PICK p \in Pcbs : StartClient(p)
      BY <2>4
    <3>2. mbox[1].fn = "start" /\ 1 \in 1 .. Len(mbox)
      BY <3>1 DEF StartClient, Runs, OwnInv, TypeOK
    <3>3. Live = {} /\ mine = {}
      BY <3>2 DEF OwnInv, StartInv
    <3>4. p \in Live' /\ cs_pconfig /\ UNCHANGED cs_pconfig
      BY <3>1 DEF StartClient, Live, OwnInv, TypeOK
    <3> QED BY <3>3, <3>4
  <2>5. ASSUME UNCHANGED <<cs_pconfig, mine>>, Live' = Live \/ Live' = {}
        PROVE  [Rounds!Next]_<<cs_pconfig, conn>>
    <3>1. CASE Live # {}
      <4>1. mine # {} /\ cs_pconfig
        BY <3>1 DEF OwnInv, PlaceInv, LiveInv
      <4> QED BY <2>5, <3>1, <4>1
    <3>2. CASE Live = {}
      BY <2>5, <3>2
    <3> QED BY <3>1, <3>2
  <2>6. CASE TlsAbort \/ Close \/ \E p \in Pcbs : RecvOversize(p) \/ LowerError(p)
    <3>1. UNCHANGED <<cs_pconfig, mine>>
      BY <2>6 DEF TlsAbort, Close, RecvOversize, LowerError, csVars
    <3>2. Live' \subseteq Live
      BY <2>6 DEF TlsAbort, Close, RecvOversize, LowerError, Live, OwnInv, TypeOK,
         Punctual
    <3>3. \A p, q \in Live : p = q
      BY DEF OwnInv, LiveInv
    <3> QED BY <2>5, <3>1, <3>2, <3>3
  <2>7. CASE \E p \in Pcbs : \/ Connected(p) \/ RecvDone(p)
                           \/ \E ev \in {"SENT", "RX_DATA", "RX_ERROR"} : Traffic(p, ev)
    <3>1. UNCHANGED <<cs_pconfig, mine>> /\ Live' = Live
      BY <2>7 DEF Connected, RecvDone, Traffic, Live, OwnInv, TypeOK, csVars
    <3> QED BY <2>5, <3>1
  <2>8. CASE \/ ResolvePoll \/ CreateQueue \/ Start \/ DeleteQueue \/ ClearQueue
             \/ ReceiveBenign \/ ReceiveDone \/ ReceiveFatal \/ Settle
    <3>1. UNCHANGED <<cs_pconfig, mine>> /\ Live' = Live
      BY <2>8 DEF ResolvePoll, CreateQueue, Start, DeleteQueue, ClearQueue, ReceiveBenign,
         ReceiveDone, ReceiveFatal, Settle, Live, csVars, lwipVars
    <3> QED BY <2>5, <3>1
  <2>9. CASE StartClientFails \/ UNCHANGED vars
             \/ \E addr \in {"host", "NONE", "ANY"} : DnsAnswer(addr)
    <3>1. UNCHANGED <<cs_pconfig, mine>> /\ Live' = Live
      BY <2>9 DEF StartClientFails, DnsAnswer, vars, Live, csVars, lwipVars
    <3> QED BY <2>5, <3>1
  <2> QED
    BY <2>1, <2>2, <2>3, <2>4, <2>6, <2>7, <2>8, <2>9
    DEF Next, Task, Scheduled, Callback
<1> QED BY <1>1, <1>2, <1>3, <1>4, PTL DEF Spec, RoundsSpec, Rounds!Spec, Rounds!vars

\* A connection the program has aborted is not what tcpip_tls_abort will find,
\* whatever fails and however late the TCP/IP thread is.
THEOREM SessionAbortsOnce == Spec => []NoDoubleAbort
<1> DEFINE Inv == TypeOK /\ (cs_pcb # NULL => pcb[cs_pcb] # "aborted")
<1>1. Init => Inv
  BY InitOwn DEF OwnInv, Init
<1>2. Inv /\ [Next]_vars => Inv'
  <2> SUFFICES ASSUME Inv, [Next]_vars PROVE Inv'
    OBVIOUS
  <2> TypeOK'
    BY StepType
  <2>1. CASE Task
    BY <2>1 DEF Task, NewSession, ResolvePoll, CreateQueue, CreateConfig, Start,
       ReceiveBenign, ReceiveDone, ReceiveFatal, Settle, FreeConfig, DeleteQueue,
       ClearQueue, csVars, lwipVars
  <2>2. CASE Scheduled
    BY <2>2, SessionAssumption DEF Scheduled, StartClient, StartClientFails, TlsAbort,
       TypeOK, lwipVars
  <2>3. CASE \E addr \in {"host", "NONE", "ANY"} : DnsAnswer(addr)
    BY <2>3 DEF DnsAnswer, csVars, lwipVars
  <2>4. CASE (\E p \in Pcbs : Callback(p)) \/ Close
    BY <2>4 DEF Callback, Connected, Traffic, RecvOversize, RecvDone, LowerError, Close,
       TypeOK, csVars
  <2>5. CASE UNCHANGED vars
    BY <2>5 DEF vars, csVars, lwipVars
  <2> QED BY <2>1, <2>2, <2>3, <2>4, <2>5 DEF Next
<1>3. Inv => NoDoubleAbort
  BY DEF NoDoubleAbort
<1> QED BY <1>1, <1>2, <1>3, PTL DEF Spec

\* Once the current round has a connection, nothing of an earlier one is left in
\* the mailbox, so no late abort hits it: tcpip_callback keeps the order.
THEOREM SessionLateAborts == Spec => LateAbortIsHarmless
<1> DEFINE Ordered ==
             \A i, j \in 1 .. Len(mbox) : i < j /\ mbox[j].old => mbox[i].old
           Ours == mine # {} => \A i \in 1 .. Len(mbox) : ~mbox[i].old
           Inv == TypeOK /\ Ordered /\ Ours
<1>1. Init => Inv
  BY InitOwn DEF OwnInv, Init
<1>2. Inv /\ [Next]_vars => Inv'
  <2> SUFFICES ASSUME Inv, [Next]_vars PROVE Inv'
    OBVIOUS
  <2> TypeOK'
    BY StepType
  <2>1. ASSUME mbox # <<>>, mbox' = Tail(mbox)
        PROVE  /\ Ordered'
               /\ (\A i \in 1 .. Len(mbox) : ~mbox[i].old) =>
                     \A i \in 1 .. Len(mbox') : ~mbox'[i].old
               /\ ~Head(mbox).old => \A i \in 1 .. Len(mbox) : ~mbox[i].old
    <3>1. /\ Len(mbox) \in Nat \ {0} /\ Len(mbox') = Len(mbox) - 1 /\ Head(mbox) = mbox[1]
          /\ \A i \in 1 .. Len(mbox') : mbox'[i] = mbox[i + 1]
      BY <2>1 DEF TypeOK
    <3>2. \A i \in 1 .. Len(mbox') : i + 1 \in 1 .. Len(mbox)
      BY <3>1
    <3>3. Ordered'
      BY <3>1, <3>2
    <3> QED BY <3>1, <3>2, <3>3
  <2>2. ASSUME NEW fn, Schedule(fn), UNCHANGED mine PROVE Ordered' /\ Ours'
    BY <2>2 DEF Schedule, TypeOK
  <2>3. CASE NewSession
    BY <2>3, AgedMbox DEF NewSession
  <2>4. CASE Start \/ ReceiveFatal
    BY <2>2, <2>4 DEF Start, ReceiveFatal, lwipVars
  <2>5. CASE Scheduled
    <3>1. mbox # <<>> /\ mbox' = Tail(mbox)
          /\ (mine' = mine \/ ~Head(mbox).old)
      BY <2>5 DEF Scheduled, StartClient, StartClientFails, TlsAbort, Runs, lwipVars
    <3> QED BY <2>1, <3>1
  <2>6. CASE UNCHANGED <<mbox, mine>>
    BY <2>6
  <2>7. CASE \/ ResolvePoll \/ CreateQueue \/ CreateConfig \/ ReceiveBenign \/ ReceiveDone
             \/ Settle \/ FreeConfig \/ DeleteQueue \/ ClearQueue
    BY <2>6, <2>7 DEF ResolvePoll, CreateQueue, CreateConfig, ReceiveBenign, ReceiveDone,
       Settle, FreeConfig, DeleteQueue, ClearQueue, lwipVars
  <2>8. CASE \/ \E addr \in {"host", "NONE", "ANY"} : DnsAnswer(addr)
             \/ \E p \in Pcbs : Callback(p)
             \/ Close \/ UNCHANGED vars
    BY <2>6, <2>8 DEF DnsAnswer, Callback, Connected, Traffic, RecvOversize, RecvDone,
       LowerError, Close, vars, lwipVars
  <2> QED BY <2>3, <2>4, <2>5, <2>7, <2>8 DEF Next, Task
<1>3. Inv /\ [Next]_vars =>
        [\A p \in mine : p \in Live /\ Runs("abort") /\ Head(mbox).old => p \in Live']_vars
  BY DEF Runs, TypeOK
<1> QED BY <1>1, <1>2, <1>3, PTL DEF Spec, LateAbortIsHarmless

-----------------------------------------------------------------------------
(* The task is always told                                                 *)

\* An abort is scheduled by a task that has stopped listening.
AbortInv ==
    \A i \in 1 .. Len(mbox) : mbox[i].fn = "abort" => task \in {"rx_error", "error"}

\* A waiting task with no connection, or one that is being closed, and with nothing
\* scheduled, has an event to come that ends its wait.
Told == \E i \in 1 .. Len(queue) : queue[i] \notin Benign

ToldInv == task = "wait" /\ mbox = <<>> /\ Live \subseteq {closing} => Told

\* The event that ends a connection is not lost: there is a place for it in the queue,
\* or another one in it that ends the wait.
RoomToTell == task = "wait" /\ Live # {} => Told \/ Len(queue) < QueueLen

\* Events are posted behind those that are there, as far as there is room.
LEMMA PostKeeps ==
    ASSUME TypeOK, cs_q = "open", NEW evs \in Seq(Events), Post(evs)
    PROVE  /\ Len(queue') = IF Len(queue) + Len(evs) < QueueLen
                              THEN Len(queue) + Len(evs) ELSE QueueLen
           /\ \A i \in 1 .. Len(queue) : i \in 1 .. Len(queue') /\ queue'[i] = queue[i]
           /\ \A i \in 1 .. Len(evs) : Len(queue) + i <= QueueLen =>
                 /\ Len(queue) + i \in 1 .. Len(queue')
                 /\ queue'[Len(queue) + i] = evs[i]
<1> DEFINE all == queue \o evs
           n == IF Len(all) < QueueLen THEN Len(all) ELSE QueueLen
<1>1. queue \in Seq(Events) /\ QueueLen \in Nat /\ Len(queue) <= QueueLen
  BY SessionAssumption DEF TypeOK
<1>2. /\ all \in Seq(Events) /\ Len(all) = Len(queue) + Len(evs)
      /\ \A i \in 1 .. Len(queue) : all[i] = queue[i]
      /\ \A i \in 1 .. Len(evs) : all[Len(queue) + i] = evs[i]
  BY <1>1
<1>3. n \in 0 .. Len(all) /\ n <= QueueLen
  BY <1>1, <1>2
<1>4. queue' = SubSeq(all, 1, n)
  BY DEF Post
<1> HIDE DEF all
<1>5. Len(queue') = n /\ \A i \in 1 .. n : queue'[i] = all[i]
  BY <1>2, <1>3, <1>4
<1>6. ASSUME NEW i \in 1 .. Len(queue)
      PROVE  i \in 1 .. Len(queue') /\ queue'[i] = queue[i]
  <2>1. i \in 1 .. n
    BY <1>1, <1>2
  <2> QED BY <1>2, <1>5, <2>1
<1>7. ASSUME NEW i \in 1 .. Len(evs), Len(queue) + i <= QueueLen
      PROVE  /\ Len(queue) + i \in 1 .. Len(queue')
             /\ queue'[Len(queue) + i] = evs[i]
  <2>1. Len(queue) + i \in 1 .. n
    BY <1>1, <1>2, <1>7
  <2> QED BY <1>2, <1>5, <2>1
<1> QED BY <1>2, <1>5, <1>6, <1>7

LEMMA OneOrTwo ==
    ASSUME NEW a \in Events, NEW b \in Events
    PROVE  /\ <<a>> \in Seq(Events) /\ Len(<<a>>) = 1
           /\ 1 \in 1 .. Len(<<a>>) /\ <<a>>[1] = a
           /\ <<a, b>> \in Seq(Events) /\ Len(<<a, b>>) = 2
           /\ 1 \in 1 .. Len(<<a, b>>) /\ <<a, b>>[1] = a
           /\ 2 \in 1 .. Len(<<a, b>>) /\ <<a, b>>[2] = b
OBVIOUS

\* What tells the task stays in the queue until it is taken.
LEMMA PostKeepsTold ==
    ASSUME TypeOK, cs_q = "open", NEW evs \in Seq(Events), Post(evs), Told
    PROVE  Told'
BY PostKeeps DEF Told

\* A post that begins with an event that is not benign tells the task.
LEMMA PostTells ==
    ASSUME TypeOK, cs_q = "open", Told \/ Len(queue) < QueueLen,
           NEW a \in Events \ Benign, NEW b \in Events, Post(<<a>>) \/ Post(<<a, b>>)
    PROVE  Told'
<1>1. PICK evs \in Seq(Events) : Post(evs) /\ 1 \in 1 .. Len(evs) /\ evs[1] = a
  <2>1. CASE Post(<<a>>)
    BY <2>1, OneOrTwo, Zenon
  <2>2. CASE Post(<<a, b>>)
    BY <2>2, OneOrTwo, Zenon
  <2> QED BY <2>1, <2>2
<1>3. CASE Told
  BY <1>1, <1>3, PostKeepsTold
<1>4. CASE ~Told
  <2>1. Len(queue) + 1 <= QueueLen
    BY <1>4, SessionAssumption DEF TypeOK
  <2>2. Len(queue) + 1 \in 1 .. Len(queue') /\ queue'[Len(queue) + 1] = a
    BY <1>1, <2>1, PostKeeps
  <2> QED BY <2>2 DEF Told
<1> QED BY <1>3, <1>4

LEMMA StepTold ==
    ASSUME Punctual, OwnInv, OwnInv', RoomToTell, AbortInv, ToldInv, [Next]_vars
    PROVE  AbortInv' /\ ToldInv'
<1> TypeOK /\ TypeOK'
  BY DEF OwnInv
<1>1. CASE \/ NewSession \/ ResolvePoll \/ CreateQueue \/ CreateConfig
           \/ FreeConfig \/ DeleteQueue \/ ClearQueue
  <2>1. task' # "wait" /\ mbox = <<>>
    BY <1>1, CalmPlace DEF NewSession, ResolvePoll, CreateQueue, CreateConfig, FreeConfig,
       DeleteQueue, ClearQueue
  <2>2. mbox' = <<>>
    BY <1>1, <2>1, AgedMbox DEF NewSession, ResolvePoll, CreateQueue, CreateConfig,
       FreeConfig, DeleteQueue, ClearQueue
  <2> QED BY <2>1, <2>2 DEF AbortInv, ToldInv
<1>2. CASE Start
  <2>1. mbox = <<>>
    BY <1>2, CalmPlace DEF Start
  <2>2. mbox' # <<>> /\ \A i \in 1 .. Len(mbox') : mbox'[i].fn = "start"
    BY <1>2, <2>1 DEF Start, Schedule, Punctual
  <2> QED BY <2>2 DEF AbortInv, ToldInv
<1>3. CASE ReceiveBenign
  <2>1. /\ Len(queue) \in Nat \ {0} /\ Len(queue') = Len(queue) - 1 /\ queue[1] \in Benign
        /\ \A i \in 1 .. Len(queue') : queue'[i] = queue[i + 1]
    BY <1>3 DEF ReceiveBenign, TypeOK
  <2>2. ASSUME NEW i \in 1 .. Len(queue), queue[i] \notin Benign
        PROVE  i - 1 \in 1 .. Len(queue') /\ queue'[i - 1] \notin Benign
    <3>1. i - 1 \in 1 .. Len(queue')
      BY <2>1, <2>2
    <3> QED BY <2>1, <2>2, <3>1
  <2>3. UNCHANGED <<task, mbox, closing>> /\ Live' = Live
    BY <1>3 DEF ReceiveBenign, Live, taskVars, lwipVars
  <2> QED BY <2>2, <2>3 DEF AbortInv, ToldInv, Told
<1>4. CASE ReceiveDone \/ ReceiveFatal
  BY <1>4 DEF ReceiveDone, ReceiveFatal, AbortInv, ToldInv, lwipVars
<1>5. CASE Settle
  BY <1>5, SessionAssumption DEF Settle, ThreadDone, Punctual, AbortInv, ToldInv
<1>6. ASSUME NEW p \in Pcbs, StartClient(p) PROVE AbortInv' /\ ToldInv'
  <2>1. mbox[1].fn = "start" /\ 1 \in 1 .. Len(mbox) /\ mbox' = Tail(mbox)
    BY <1>6 DEF StartClient, Runs, TypeOK
  <2>2. mbox' = <<>> /\ closing' = NULL
    BY <1>6, <2>1 DEF StartClient, OwnInv, StartInv, TypeOK
  <2>3. p \in Live'
    BY <1>6 DEF StartClient, Live, TypeOK
  <2> QED BY <2>2, <2>3, SessionAssumption DEF AbortInv, ToldInv
<1>7. CASE StartClientFails
  <2>1. mbox[1].fn = "start" /\ 1 \in 1 .. Len(mbox) /\ mbox' = Tail(mbox)
    BY <1>7 DEF StartClientFails, Runs, TypeOK
  <2>5. Len(mbox) = 1 /\ task = "wait" /\ queue = <<>>
    BY <2>1 DEF OwnInv, StartInv
  <2>2. mbox' = <<>> /\ cs_q = "open"
    BY <2>1, <2>5 DEF TypeOK
  <2>3. \E a \in Fatal, b \in Events : Post(<<a>>) \/ Post(<<a, b>>)
    BY <1>7 DEF StartClientFails, Fatal, Events
  <2>4. Len(queue) < QueueLen
    BY <2>5, SessionAssumption
  <2>6. Told'
    BY <2>2, <2>3, <2>4, PostTells DEF Events, Fatal, Benign
  <2> QED BY <2>2, <2>6 DEF AbortInv, ToldInv
<1>8. CASE TlsAbort
  <2>1. /\ mbox[1].fn = "abort" /\ 1 \in 1 .. Len(mbox) /\ mbox' = Tail(mbox)
        /\ UNCHANGED task
    BY <1>8 DEF TlsAbort, Runs, TypeOK, taskVars
  <2>2. task \in {"rx_error", "error"}
    BY <2>1 DEF AbortInv
  <2> QED BY <2>1, <2>2 DEF AbortInv, ToldInv
<1>9. ASSUME NEW p \in Pcbs,
             Connected(p) \/ \E ev \in {"SENT", "RX_DATA", "RX_ERROR"} : Traffic(p, ev)
      PROVE  AbortInv' /\ ToldInv'
  <2>1. p \in Live' /\ closing' = NULL /\ UNCHANGED <<task, mbox>>
    BY <1>9 DEF Connected, Traffic, ThreadIdle, Live, TypeOK, taskVars
  <2> QED BY <2>1, SessionAssumption DEF AbortInv, ToldInv
<1>10. ASSUME NEW p \in Pcbs, RecvOversize(p) \/ LowerError(p) \/ RecvDone(p)
       PROVE  AbortInv' /\ ToldInv'
  <2>1. p \in Live /\ UNCHANGED <<task, mbox>>
    BY <1>10 DEF RecvOversize, LowerError, RecvDone, Live, taskVars
  <2>2. \E a \in Fatal \cup {"RX_DONE"}, b \in Events : Post(<<a>>) \/ Post(<<a, b>>)
    BY <1>10 DEF RecvOversize, LowerError, RecvDone, Fatal, Events
  <2>3. cs_q = "open" /\ Live # {}
    BY <2>1, CallbackPlace
  <2>4. task = "wait" => Told'
    BY <2>2, <2>3, PostTells DEF RoomToTell, Events, Fatal, Benign
  <2> QED BY <2>1, <2>4 DEF AbortInv, ToldInv
<1>11. CASE Close
  <2>1. Live \subseteq {closing} /\ UNCHANGED <<task, mbox, queue>>
    BY <1>11, CallbackPlace DEF Close, OwnInv, LiveInv, taskVars
  <2> QED BY <2>1 DEF AbortInv, ToldInv, Told
<1>12. CASE UNCHANGED vars \/ \E addr \in {"host", "NONE", "ANY"} : DnsAnswer(addr)
  BY <1>12 DEF DnsAnswer, AbortInv, ToldInv, Told, Live, vars, taskVars, csVars, lwipVars
<1> QED
  BY <1>1, <1>2, <1>3, <1>4, <1>5, <1>6, <1>7, <1>8, <1>9, <1>10, <1>11, <1>12
  DEF Next, Task, Scheduled, Callback

\* If the traffic of a connection may not fill the queue: an event at most for its being
\* connected, one for every other callback, and one that ends it.
RoomForConnection == MaxTraffic + 2 <= QueueLen

\* A queue that does not yet tell the task has no more in it than that.
RoomInv ==
    task = "wait" => \A p \in Live :
        /\ traffic[p] <= MaxTraffic
        /\ pcb[p] = "connecting" => queue = <<>>
        /\ Told \/ Len(queue) <= 1 + traffic[p]

LEMMA RoomSuffices ==
    ASSUME RoomForConnection, TypeOK, RoomInv
    PROVE  RoomToTell
<1> SUFFICES ASSUME task = "wait", NEW p \in Live PROVE Told \/ Len(queue) < QueueLen
  BY DEF RoomToTell
<1>1. /\ traffic[p] \in Nat /\ Len(queue) \in Nat /\ MaxTraffic \in Nat /\ QueueLen \in Nat
  BY SessionAssumption DEF TypeOK, Live
<1>2. traffic[p] <= MaxTraffic /\ (Told \/ Len(queue) <= 1 + traffic[p])
  BY DEF RoomInv
<1> QED BY <1>1, <1>2 DEF RoomForConnection

LEMMA StepRoom ==
    ASSUME RoomForConnection, Punctual, OwnInv, AbortInv, RoomInv, [Next]_vars
    PROVE  RoomInv'
<1> TypeOK /\ TypeOK'
  BY StepType DEF OwnInv
<1> USE SessionAssumption
<1>0. ASSUME Live' = {} PROVE RoomInv'
  BY <1>0 DEF RoomInv
<1>1. CASE \/ NewSession \/ ResolvePoll \/ CreateQueue \/ CreateConfig
           \/ FreeConfig \/ DeleteQueue \/ ClearQueue \/ Start
  <2>1. Live = {} /\ Live' = Live
    BY <1>1, CalmPlace DEF NewSession, ResolvePoll, CreateQueue, CreateConfig, FreeConfig,
       DeleteQueue, ClearQueue, Start, Live, lwipVars
  <2> QED BY <1>0, <2>1
<1>2. CASE ReceiveDone \/ ReceiveFatal \/ Settle
  BY <1>2 DEF ReceiveDone, ReceiveFatal, Settle, RoomInv
<1>3. CASE ReceiveBenign
  <2>1. /\ Len(queue) \in Nat \ {0} /\ Len(queue') = Len(queue) - 1 /\ queue[1] \in Benign
        /\ \A i \in 1 .. Len(queue') : queue'[i] = queue[i + 1]
    BY <1>3 DEF ReceiveBenign, TypeOK
  <2>2. Told => Told'
    <3> SUFFICES ASSUME NEW i \in 1 .. Len(queue), queue[i] \notin Benign PROVE Told'
      BY DEF Told
    <3>1. i - 1 \in 1 .. Len(queue') /\ i = (i - 1) + 1
      BY <2>1
    <3>2. queue'[i - 1] = queue[i]
      BY <2>1, <3>1
    <3> QED BY <3>1, <3>2 DEF Told
  <2>3. Live' = Live /\ UNCHANGED <<task, pcb, traffic>> /\ queue # <<>>
    BY <1>3 DEF ReceiveBenign, Live, taskVars, lwipVars
  <2>4. ASSUME NEW p \in Live, task = "wait" PROVE
             /\ traffic[p] <= MaxTraffic
             /\ pcb[p] # "connecting"
             /\ Told' \/ Len(queue') <= 1 + traffic[p]
    <3>1. traffic[p] \in Nat
      BY DEF TypeOK, Live
    <3> QED BY <2>1, <2>2, <2>3, <2>4, <3>1 DEF RoomInv
  <2> QED BY <2>3, <2>4 DEF RoomInv
<1>4. ASSUME NEW p \in Pcbs, StartClient(p) PROVE RoomInv'
  <2>1. mbox[1].fn = "start" /\ 1 \in 1 .. Len(mbox)
    BY <1>4 DEF StartClient, Runs, TypeOK
  <2>2. queue = <<>> /\ Live = {}
    BY <2>1 DEF OwnInv, StartInv
  <2>3. Live' = {p} /\ traffic'[p] = 0 /\ queue' = <<>> /\ Len(queue') = 0
    BY <1>4, <2>2 DEF StartClient, Live, TypeOK
  <2> QED BY <2>3 DEF RoomInv
<1>5. CASE StartClientFails
  <2>1. mbox[1].fn = "start" /\ 1 \in 1 .. Len(mbox)
    BY <1>5 DEF StartClientFails, Runs, TypeOK
  <2>2. Live' = {}
    BY <1>5, <2>1 DEF StartClientFails, OwnInv, StartInv, Live, lwipVars
  <2> QED BY <1>0, <2>2
<1>6. CASE TlsAbort
  <2>1. mbox[1].fn = "abort" /\ 1 \in 1 .. Len(mbox) /\ UNCHANGED task
    BY <1>6 DEF TlsAbort, Runs, TypeOK, taskVars
  <2>2. task' # "wait"
    BY <2>1 DEF AbortInv
  <2> QED BY <2>2 DEF RoomInv
<1>7. ASSUME NEW p \in Pcbs, Connected(p) PROVE RoomInv'
  <2>1. /\ p \in Live /\ pcb[p] = "connecting" /\ pcb'[p] = "up"
        /\ UNCHANGED <<task, traffic>> /\ Live' = Live
    BY <1>7 DEF Connected, Live, TypeOK, taskVars
  <2>2. Live' = {p} /\ cs_q = "open"
    BY <2>1, CallbackPlace
  <2> SUFFICES ASSUME task = "wait" PROVE Told' \/ Len(queue') <= 1 + traffic[p]
    BY <2>1, <2>2 DEF RoomInv
  <2>3. queue = <<>> /\ Len(queue) = 0 /\ traffic[p] \in Nat
    BY <2>1 DEF RoomInv, TypeOK
  <2>4. "CONNECTED" \in Events /\ "WRITE_ERROR" \in Events /\ "WRITE_ERROR" \notin Benign
    BY DEF Events, Benign, Fatal
  <2>5. CASE Post(<<"CONNECTED">>)
    <3> DEFINE evs == <<"CONNECTED">>
    <3>1. evs \in Seq(Events) /\ Post(evs) /\ Len(evs) = 1
      BY <2>4, <2>5, OneOrTwo
    <3> HIDE DEF evs
    <3>2. Len(queue') = IF Len(queue) + Len(evs) < QueueLen
                          THEN Len(queue) + Len(evs) ELSE QueueLen
      BY <2>2, <3>1, PostKeeps
    <3> QED BY <2>3, <3>1, <3>2
  <2>6. CASE Post(<<"CONNECTED", "WRITE_ERROR">>)
    <3> DEFINE evs == <<"CONNECTED", "WRITE_ERROR">>
    <3>1. evs \in Seq(Events) /\ Post(evs) /\ 2 \in 1 .. Len(evs) /\ evs[2] = "WRITE_ERROR"
      BY <2>4, <2>6, OneOrTwo
    <3>2. Len(queue) + 2 <= QueueLen
      BY <2>3 DEF RoomForConnection
    <3> HIDE DEF evs
    <3>3. /\ Len(queue) + 2 \in 1 .. Len(queue')
          /\ queue'[Len(queue) + 2] = "WRITE_ERROR"
      BY <2>2, <3>1, <3>2, PostKeeps
    <3> QED BY <2>4, <3>3 DEF Told
  <2> QED BY <1>7, <2>5, <2>6 DEF Connected
<1>8. ASSUME NEW p \in Pcbs, NEW ev \in {"SENT", "RX_DATA", "RX_ERROR"}, Traffic(p, ev)
      PROVE  RoomInv'
  <2>1. /\ p \in Live /\ pcb[p] = "up" /\ UNCHANGED <<task, pcb>> /\ Live' = Live
        /\ traffic[p] \in Nat /\ traffic[p] < MaxTraffic /\ traffic'[p] = traffic[p] + 1
        /\ Post(<<ev>>)
    BY <1>8 DEF Traffic, Live, TypeOK, taskVars
  <2>2. Live' = {p} /\ cs_q = "open"
    BY <2>1, CallbackPlace
  <2> SUFFICES ASSUME task = "wait"
               PROVE  traffic'[p] <= MaxTraffic /\ (Told' \/ Len(queue') <= 1 + traffic'[p])
    BY <2>1, <2>2 DEF RoomInv
  <2>3. <<ev>> \in Seq(Events) /\ Len(<<ev>>) = 1
    BY OneOrTwo DEF Events, Benign, Fatal
  <2>4. Len(queue') <= Len(queue) + 1 /\ Len(queue') \in Nat /\ Len(queue) \in Nat
    <3> DEFINE evs == <<ev>>
    <3>1. evs \in Seq(Events) /\ Post(evs) /\ Len(evs) = 1
      BY <2>1, <2>3
    <3> HIDE DEF evs
    <3>2. Len(queue') = IF Len(queue) + Len(evs) < QueueLen
                          THEN Len(queue) + Len(evs) ELSE QueueLen
      BY <2>2, <3>1, PostKeeps
    <3>3. Len(queue') \in Nat /\ Len(queue) \in Nat
      BY DEF TypeOK
    <3> QED BY <3>1, <3>2, <3>3
  <2>5. Told => Told'
    BY <2>1, <2>2, <2>3, PostKeepsTold
  <2>6. Told \/ Len(queue) <= 1 + traffic[p]
    BY <2>1 DEF RoomInv
  <2> QED BY <2>1, <2>4, <2>5, <2>6
<1>9. ASSUME NEW p \in Pcbs, RecvOversize(p) \/ LowerError(p) PROVE RoomInv'
  <2>1. p \in Live
    BY <1>9 DEF RecvOversize, LowerError, Live
  <2>2. Live' = {}
    BY <1>9, <2>1, CallbackPlace DEF RecvOversize, LowerError, Live, TypeOK
  <2> QED BY <1>0, <2>2
<1>10. ASSUME NEW p \in Pcbs, RecvDone(p) PROVE RoomInv'
  <2>1. /\ p \in Live /\ pcb[p] = "up" /\ UNCHANGED <<task, pcb, traffic>> /\ Live' = Live
        /\ Post(<<"RX_DONE">>)
    BY <1>10 DEF RecvDone, Live, taskVars
  <2>2. Live' = {p} /\ cs_q = "open"
    BY <2>1, CallbackPlace
  <2> SUFFICES ASSUME task = "wait" PROVE traffic[p] <= MaxTraffic /\ Told'
    BY <2>1, <2>2 DEF RoomInv
  <2>3. "RX_DONE" \in Events \ Benign
    BY DEF Events, Benign
  <2>4. Told \/ Len(queue) < QueueLen
    BY <2>1, RoomSuffices DEF RoomToTell
  <2>5. Told'
    BY <2>1, <2>2, <2>3, <2>4, PostTells
  <2> QED BY <2>1, <2>5 DEF RoomInv
<1>11. CASE Close
  <2>1. closing \in Live /\ Live = {closing}
    BY <1>11, CallbackPlace DEF Close, OwnInv, LiveInv
  <2>2. Live' = {}
    BY <1>11, <2>1 DEF Close, Live, TypeOK, Punctual
  <2> QED BY <1>0, <2>2
<1>12. CASE UNCHANGED vars \/ \E addr \in {"host", "NONE", "ANY"} : DnsAnswer(addr)
  BY <1>12 DEF DnsAnswer, RoomInv, Told, Live, vars, taskVars, csVars, lwipVars
<1> QED
  BY <1>1, <1>2, <1>3, <1>4, <1>5, <1>6, <1>7, <1>8, <1>9, <1>10, <1>11, <1>12
  DEF Next, Task, Scheduled, Callback

\* As long as there is always a place for the event that ends a connection, the task
\* never waits for nobody: with its queue empty there is a function to run, or a
\* connection that is not being closed.
THEOREM SessionIsTold ==
    ASSUME Punctual
    PROVE  Spec /\ []RoomToTell => []NeverWaitsForNobody
<1>1. Init => OwnInv /\ AbortInv /\ ToldInv
  BY InitOwn DEF Init, AbortInv, ToldInv
<1>2. OwnInv /\ AbortInv /\ ToldInv /\ RoomToTell /\ [Next]_vars
        => (OwnInv /\ AbortInv /\ ToldInv)'
  BY StepOwn, StepTold
<1>3. ToldInv => NeverWaitsForNobody
  BY DEF ToldInv, Told, NeverWaitsForNobody
<1> QED BY <1>1, <1>2, <1>3, PTL DEF Spec

\* ... and there is, when the queue has two places more than a connection has traffic,
\* whatever else fails and however slowly the task takes its events.
THEOREM SessionNeverAlone ==
    ASSUME Punctual, RoomForConnection
    PROVE  Spec => []NeverWaitsForNobody
<1> DEFINE Inv == OwnInv /\ AbortInv /\ ToldInv /\ RoomInv
<1>1. Init => Inv
  BY InitOwn DEF Init, AbortInv, ToldInv, RoomInv
<1>2. Inv /\ [Next]_vars => Inv'
  <2> SUFFICES ASSUME Inv, [Next]_vars PROVE Inv'
    OBVIOUS
  <2>1. OwnInv' /\ RoomToTell
    BY StepOwn, RoomSuffices DEF OwnInv
  <2> QED BY <2>1, StepTold, StepRoom
<1>3. Inv => NeverWaitsForNobody
  BY DEF ToldInv, Told, NeverWaitsForNobody
<1> QED BY <1>1, <1>2, <1>3, PTL DEF Spec

-----------------------------------------------------------------------------
(* What may stop the TCP/IP thread                                         *)

\* Whoever posts an event finds the queue open.
LEMMA StepHalts ==
    ASSUME Punctual, OwnInv, [Next]_vars
    PROVE  [halted' # halted => Runs("abort") /\ cs_pcb \in Pcbs \ Live]_vars
<1> SUFFICES ASSUME ~(Runs("abort") /\ cs_pcb \in Pcbs \ Live)
             PROVE  halted' = halted
  OBVIOUS
<1> TypeOK
  BY DEF OwnInv
<1>1. CASE Task
  BY <1>1 DEF Task, NewSession, ResolvePoll, CreateQueue, CreateConfig, Start,
     ReceiveBenign, ReceiveDone, ReceiveFatal, Settle, FreeConfig, DeleteQueue, ClearQueue
<1>2. CASE (\E p \in Pcbs : StartClient(p)) \/ Close \/ UNCHANGED vars
           \/ \E addr \in {"host", "NONE", "ANY"} : DnsAnswer(addr)
  BY <1>2 DEF StartClient, Close, DnsAnswer, vars
<1>3. ASSUME NEW evs, Post(evs), cs_q = "open", ~halted PROVE halted' = halted
  BY <1>3 DEF Post, TypeOK
<1>4. CASE StartClientFails
  <2>1. mbox[1].fn = "start" /\ 1 \in 1 .. Len(mbox) /\ ~halted
    BY <1>4 DEF StartClientFails, Runs, ThreadIdle, TypeOK
  <2>2. cs_q = "open"
    BY <2>1 DEF OwnInv, StartInv, TypeOK
  <2>3. \E evs : Post(evs)
    BY <1>4 DEF StartClientFails
  <2> QED BY <1>3, <2>1, <2>2, <2>3
<1>5. CASE TlsAbort
  <2>1. CASE cs_pcb \in Live
    <3>1. cs_q = "open" /\ ~halted
      BY <1>5, <2>1, CallbackPlace DEF TlsAbort, Runs, ThreadIdle
    <3>2. cs_pcb # NULL /\ cs_pcb \notin Pcbs \ Live
      BY <2>1, SessionAssumption DEF Live
    <3>3. Post(<<"ERROR">>)
      BY <1>5, <3>2 DEF TlsAbort
    <3> QED BY <1>3, <3>1, <3>3
  <2>2. CASE cs_pcb \notin Live
    BY <1>5, <2>2 DEF TlsAbort
  <2> QED BY <2>1, <2>2
<1>6. ASSUME NEW p \in Pcbs, Callback(p) PROVE halted' = halted
  <2>1. p \in Live /\ ~halted
    BY <1>6 DEF Callback, Connected, Traffic, RecvOversize, RecvDone, LowerError, Live,
       ThreadIdle
  <2>2. cs_q = "open"
    BY <2>1, CallbackPlace
  <2>3. \E evs : Post(evs)
    BY <1>6 DEF Callback, Connected, Traffic, RecvOversize, RecvDone, LowerError
  <2> QED BY <1>3, <2>1, <2>2, <2>3
<1> QED BY <1>1, <1>2, <1>4, <1>5, <1>6 DEF Next, Scheduled

\* Connections may break as they like: with a TCP/IP thread on time no callback ever
\* posts to a queue that is not there, is being deleted or is deleted, the failed
\* assertion or worse that it would be.  What stops the thread is the abort of a freed
\* connection, and nothing else.
THEOREM OnlyFreedAbortHalts ==
    ASSUME Punctual
    PROVE  Spec => OnlyAbortHalts
<1>1. OwnInv /\ [Next]_vars => OwnInv'
  BY StepOwn
<1>2. OwnInv /\ [Next]_vars => [halted' # halted => Runs("abort") /\ cs_pcb \in Pcbs \ Live]_vars
  BY StepHalts
<1> QED BY <1>1, <1>2, InitOwn, PTL DEF Spec, OnlyAbortHalts
=============================================================================
