---------------------------- MODULE HttpsSession ----------------------------
(***************************************************************************)
(* The life of an HTTPS connection: https_task (src/pico_rtos_https.c) on  *)
(* one side, the functions and callbacks of src/pico_tls.c that run on     *)
(* lwIP's TCP/IP thread on the other.  They share one connection_state,    *)
(* which has the same place on the task's stack in every round of its      *)
(* loop, so that a callback of an old connection finds the current one.    *)
(*                                                                         *)
(* One action is one callback, or what the task does between two points    *)
(* where it blocks or shares something.  The bytes are left to RxPath:     *)
(* here a chunk is an event.  connection_state.error is only printed.      *)
(* What lwIP may do wrong is the parameter Faults.                         *)
(***************************************************************************)
EXTENDS Naturals, Sequences

CONSTANTS
    Pcbs,           \* lwIP's supply of connections (TLS PCBs)
    NULL,
    QueueLen,       \* TLS_STATE_QUEUE_LEN
    MboxSize,       \* TCPIP_MBOX_SIZE
    MaxTraffic,     \* bound: data and acknowledgement callbacks per connection
    Faults,         \* the failures that may happen
    Timely          \* the 500 ms given to the TCP/IP thread are enough

AllFaults ==
    {"dns",             \* the name is not resolved
     "dns_zero",        \* the name resolves to 0.0.0.0
     "queue_mem", "config_mem",     \* no memory for the queue, the TLS config
     "callback_mem",    \* tcpip_callback has no memory for its message
     "tls_mem", "hostname", "connect", "write",     \* the lwIP call fails
     "oversize",        \* a chunk larger than the ring
     "recv_err",        \* the receive callback is called with an error
     "lower_err",       \* the connection breaks: refused, reset, timed out
     "close_mem"}       \* altcp_close has no memory for a FIN

ASSUME SessionAssumption ==
    /\ NULL \notin Pcbs
    /\ QueueLen \in Nat \ {0}
    /\ MboxSize \in Nat \ {0}
    /\ MaxTraffic \in Nat
    /\ Faults \subseteq AllFaults
    /\ Timely \in BOOLEAN

VARIABLES
    task,           \* where https_task is
    ipaddr, dns,    \* connection_state.ipaddr; a DNS query is under way
    cs_pcb, cs_pconfig, cs_q,   \* the pointers of connection_state
    queue,          \* the events in the queue
    mbox,           \* functions scheduled on the TCP/IP thread
    pcb,            \* what lwIP has each connection in
    traffic,        \* data and acknowledgement callbacks of each connection
    mine,           \* history: connections made for this round of the task's loop
    closing,        \* the connection altcp_recv_cb is about to close
    halted          \* the TCP/IP thread is in configASSERT or a fault handler

taskVars == <<task, ipaddr, dns>>
csVars   == <<cs_pcb, cs_pconfig, cs_q>>
lwipVars == <<pcb, traffic, mine, closing>>
vars     == <<taskVars, csVars, queue, mbox, lwipVars, halted>>

Live  == {p \in Pcbs : pcb[p] \notin {"free", "aborted"}}
Benign == {"CONNECTED", "SENT", "RX_DATA"}
Fatal  == {"RX_ERROR", "WRITE_ERROR", "TLS_CONFIG_ERROR", "SET_HOSTNAME_ERROR",
           "CONNECTION_ERROR", "ERROR"}
Events == Benign \cup Fatal \cup {"RX_DONE"}

Init ==
    /\ task = "begin" /\ ipaddr = "ANY" /\ dns = FALSE
    /\ cs_pcb = NULL /\ cs_pconfig = FALSE /\ cs_q = "null"
    /\ queue = <<>> /\ mbox = <<>>
    /\ pcb = [p \in Pcbs |-> "free"] /\ traffic = [p \in Pcbs |-> 0]
    /\ mine = {} /\ closing = NULL
    /\ halted = FALSE

-----------------------------------------------------------------------------
(* The two ways across                                                     *)

\* xQueueSendFromISR on connection_state.q, for each event in turn: events that
\* find the queue full are lost, a null queue is a failed assertion, and a
\* deleted one anything.
Post(evs) ==
    /\ queue' = IF cs_q = "open"
                  THEN SubSeq(queue \o evs, 1,
                              IF Len(queue \o evs) < QueueLen
                                THEN Len(queue \o evs) ELSE QueueLen)
                  ELSE queue
    /\ halted' \in CASE cs_q = "open"    -> {FALSE}
                     [] cs_q = "null"    -> {TRUE}
                     [] cs_q = "deleted" -> BOOLEAN

\* tcpip_callback: waits for a place in the mailbox; the function will run,
\* after those scheduled before.  `old': history, it is from an earlier round.
Schedule(fn) ==
    /\ Len(mbox) < MboxSize
    /\ mbox' = Append(mbox, [fn |-> fn, old |-> FALSE])

-----------------------------------------------------------------------------
(* https_task                                                              *)

\* connection_state = {0}; resolve_hostname(): an answer from the cache, a query,
\* or a failure, after which the loop goes round (and 15 s pass).
NewSession ==
    /\ task = "begin"
    /\ cs_pcb' = NULL /\ cs_pconfig' = FALSE /\ cs_q' = "null"
    /\ mine' = {}
    /\ mbox' = [i \in 1 .. Len(mbox) |-> [mbox[i] EXCEPT !.old = TRUE]]
    /\ \/ ipaddr' = "host" /\ task' = "queue" /\ UNCHANGED dns
       \/ ipaddr' = "ANY" /\ task' = "resolve" /\ dns' = TRUE
       \/ "dns" \in Faults /\ ipaddr' = "ANY" /\ UNCHANGED <<task, dns>>
    /\ UNCHANGED <<queue, pcb, traffic, closing, halted>>

\* Mutant of Resolved: a failed query is polled for as an unanswered one is.
ResolvedHost == ipaddr = "host"

\* while (ipaddr->addr == IPADDR_ANY) vTaskDelay()
Resolved == ipaddr # "ANY"

ResolvePoll ==
    /\ task = "resolve"
    /\ Resolved
    /\ task' = IF ipaddr = "NONE" THEN "begin" ELSE "queue"
    /\ UNCHANGED <<ipaddr, dns, csVars, queue, mbox, lwipVars, halted>>

CreateQueue ==
    /\ task = "queue"
    /\ \/ cs_q' = "open" /\ queue' = <<>> /\ task' = "config"
       \/ "queue_mem" \in Faults /\ task' = "dead" /\ UNCHANGED <<cs_q, queue>>
    /\ UNCHANGED <<ipaddr, dns, cs_pcb, cs_pconfig, mbox, lwipVars, halted>>

CreateConfig ==
    /\ task = "config"
    /\ \/ cs_pconfig' = TRUE /\ task' = "start"
       \/ "config_mem" \in Faults /\ task' = "dead" /\ UNCHANGED cs_pconfig
    /\ UNCHANGED <<ipaddr, dns, cs_pcb, cs_q, queue, mbox, lwipVars, halted>>

\* Mutant of Start: the task starts the client itself, not by tcpip_callback().
StartDirect ==
    /\ task = "start"
    /\ \E p \in Pcbs :
         /\ p \notin Live
         /\ pcb' = [pcb EXCEPT ![p] = "connecting"]
         /\ traffic' = [traffic EXCEPT ![p] = 0]
         /\ mine' = mine \cup {p}
         /\ cs_pcb' = p
    /\ task' = "wait"
    /\ UNCHANGED <<ipaddr, dns, cs_pconfig, cs_q, queue, mbox, closing, halted>>

Start ==
    /\ task = "start"
    /\ \/ Schedule("start") /\ task' = "wait"
       \/ "callback_mem" \in Faults /\ task' = "free" /\ UNCHANGED mbox
    /\ UNCHANGED <<ipaddr, dns, csVars, queue, lwipVars, halted>>

\* An event that changes nothing but the console.
ReceiveBenign ==
    /\ task = "wait" /\ queue # <<>> /\ Head(queue) \in Benign
    /\ queue' = Tail(queue)
    /\ UNCHANGED <<taskVars, csVars, mbox, lwipVars, halted>>

ReceiveDone ==
    /\ task = "wait" /\ queue # <<>> /\ Head(queue) = "RX_DONE"
    /\ queue' = Tail(queue)
    /\ task' = "done"
    /\ UNCHANGED <<ipaddr, dns, csVars, mbox, lwipVars, halted>>

ReceiveFatal ==
    /\ task = "wait" /\ queue # <<>> /\ Head(queue) \in Fatal
    /\ queue' = Tail(queue)
    /\ task' = IF Head(queue) = "RX_ERROR" THEN "rx_error" ELSE "error"
    /\ \/ Schedule("abort")
       \/ "callback_mem" \in Faults /\ UNCHANGED mbox
    /\ UNCHANGED <<ipaddr, dns, csVars, lwipVars, halted>>

\* Mutant of ThreadDone: the task does not wait for the TCP/IP thread.
ThreadDoneAtOnce == TRUE

\* vTaskDelay(500): the TCP/IP thread has done what it was doing, and what was
\* scheduled on it.
ThreadDone == Timely => mbox = <<>> /\ closing = NULL

\* connection_state.pcb = NULL, except after a receive error.
Settle ==
    /\ task \in {"done", "rx_error", "error"}
    /\ ThreadDone
    /\ cs_pcb' = IF task = "rx_error" THEN cs_pcb ELSE NULL
    /\ task' = "free"
    /\ UNCHANGED <<ipaddr, dns, cs_pconfig, cs_q, queue, mbox, lwipVars, halted>>

\* pico_tls_free_config(), vQueueDelete(), connection_state.q = NULL, a minute's
\* sleep.
FreeConfig ==
    /\ task = "free"
    /\ cs_pconfig' = FALSE
    /\ task' = "delete"
    /\ UNCHANGED <<ipaddr, dns, cs_pcb, cs_q, queue, mbox, lwipVars, halted>>

DeleteQueue ==
    /\ task = "delete"
    /\ queue' = <<>> /\ cs_q' = "deleted"
    /\ task' = "clear"
    /\ UNCHANGED <<ipaddr, dns, cs_pcb, cs_pconfig, mbox, lwipVars, halted>>

\* Mutant of ClearQueue: connection_state.q keeps the deleted queue.
ClearQueueNot ==
    /\ task = "clear"
    /\ task' = "begin"
    /\ UNCHANGED <<ipaddr, dns, csVars, queue, mbox, lwipVars, halted>>

ClearQueue ==
    /\ task = "clear"
    /\ cs_q' = "null"
    /\ task' = "begin"
    /\ UNCHANGED <<ipaddr, dns, cs_pcb, cs_pconfig, queue, mbox, lwipVars, halted>>

-----------------------------------------------------------------------------
(* The TCP/IP thread                                                       *)

ThreadIdle == ~halted /\ closing = NULL

\* gethostbyname_cb
DnsAnswer(addr) ==
    /\ dns /\ ThreadIdle
    /\ addr = "NONE" => "dns" \in Faults
    /\ addr = "ANY" => "dns_zero" \in Faults
    /\ ipaddr' = addr /\ dns' = FALSE
    /\ UNCHANGED <<task, csVars, queue, mbox, lwipVars, halted>>

Runs(fn) == ThreadIdle /\ mbox # <<>> /\ Head(mbox).fn = fn /\ mbox' = Tail(mbox)

\* tcpip_start_client: altcp_tls_new() and altcp_connect() succeed.
StartClient(p) ==
    /\ Runs("start")
    /\ cs_pconfig /\ p \notin Live
    /\ pcb' = [pcb EXCEPT ![p] = "connecting"]
    /\ traffic' = [traffic EXCEPT ![p] = 0]
    /\ mine' = IF Head(mbox).old THEN mine ELSE mine \cup {p}
    /\ cs_pcb' = p
    /\ UNCHANGED <<taskVars, cs_pconfig, cs_q, queue, closing, halted>>

\* Mutant of StartClientFails: no event when altcp_tls_new() returns NULL.
StartClientFailsSilently ==
    /\ Runs("start")
    /\ \/ "tls_mem" \in Faults \/ Live = Pcbs \/ ~cs_pconfig
    /\ cs_pcb' = NULL
    /\ UNCHANGED <<taskVars, cs_pconfig, cs_q, lwipVars, queue, halted>>

\* tcpip_start_client: a failure leaves no connection.  The error callback is
\* set by the time altcp_connect() fails, so altcp_abort() calls it.
StartClientFails ==
    /\ Runs("start")
    /\ \/ ("tls_mem" \in Faults \/ Live = Pcbs \/ ~cs_pconfig)
          /\ Post(<<"TLS_CONFIG_ERROR">>)
       \/ "hostname" \in Faults /\ Post(<<"SET_HOSTNAME_ERROR">>)
       \/ "connect" \in Faults /\ Post(<<"ERROR", "CONNECTION_ERROR">>)
    /\ cs_pcb' = NULL
    /\ UNCHANGED <<taskVars, cs_pconfig, cs_q, lwipVars>>

\* altcp_connect_cb: the request is written to connection_state.pcb.
Connected(p) ==
    /\ ThreadIdle /\ pcb[p] = "connecting"
    /\ pcb' = [pcb EXCEPT ![p] = "up"]
    /\ \/ cs_pcb # NULL /\ Post(<<"CONNECTED">>)
       \/ ("write" \in Faults \/ cs_pcb = NULL) /\ Post(<<"CONNECTED", "WRITE_ERROR">>)
    /\ UNCHANGED <<taskVars, csVars, mbox, traffic, mine, closing>>

\* altcp_sent_cb, and altcp_recv_cb with a chunk that the ring takes, or with
\* an error.
Traffic(p, event) ==
    /\ ThreadIdle /\ pcb[p] = "up"
    /\ event = "RX_ERROR" => "recv_err" \in Faults
    /\ traffic[p] < MaxTraffic
    /\ traffic' = [traffic EXCEPT ![p] = @ + 1]
    /\ Post(<<event>>)
    /\ UNCHANGED <<taskVars, csVars, mbox, pcb, mine, closing>>

\* Mutant of RecvOversize: connection_state.pcb keeps the aborted connection.
RecvOversizeKeep(p) ==
    /\ "oversize" \in Faults
    /\ ThreadIdle /\ pcb[p] = "up"
    /\ pcb' = [pcb EXCEPT ![p] = "aborted"]
    /\ Post(<<"ERROR", "RX_ERROR">>)
    /\ UNCHANGED <<taskVars, csVars, mbox, traffic, mine, closing>>

\* altcp_recv_cb with a chunk that can never fit: altcp_abort(), which calls
\* altcp_err_cb.
RecvOversize(p) ==
    /\ "oversize" \in Faults
    /\ ThreadIdle /\ pcb[p] = "up"
    /\ pcb' = [pcb EXCEPT ![p] = "aborted"]
    /\ Post(<<"ERROR", "RX_ERROR">>)
    /\ cs_pcb' = NULL
    /\ UNCHANGED <<taskVars, cs_pconfig, cs_q, mbox, traffic, mine, closing>>

\* altcp_recv_cb with p == NULL: the peer has closed.  The task is told
RecvDone(p) ==
    /\ ThreadIdle /\ pcb[p] = "up"
    /\ Post(<<"RX_DONE">>)
    /\ closing' = p
    /\ UNCHANGED <<taskVars, csVars, mbox, pcb, traffic, mine>>

\* before altcp_close() is called.
Close ==
    /\ closing # NULL /\ ~halted
    /\ \/ pcb' = [pcb EXCEPT ![closing] = "free"]
       \/ "close_mem" \in Faults /\ pcb' = [pcb EXCEPT ![closing] = "not_closed"]
    /\ closing' = NULL
    /\ UNCHANGED <<taskVars, csVars, queue, mbox, traffic, mine, halted>>

\* altcp_err_cb; lwIP has freed the connection, or does so on return.
LowerError(p) ==
    /\ "lower_err" \in Faults
    /\ ThreadIdle /\ p \in Live
    /\ pcb' = [pcb EXCEPT ![p] = "free"]
    /\ Post(<<"ERROR">>)
    /\ UNCHANGED <<taskVars, csVars, mbox, traffic, mine, closing>>

\* tcpip_tls_abort: altcp_abort() calls altcp_err_cb.  With a freed connection
\* it does nothing or jumps through what is now in that memory.
TlsAbort ==
    /\ Runs("abort")
    /\ \/ cs_pcb = NULL /\ UNCHANGED <<queue, pcb, halted>>
       \/ /\ cs_pcb \in Live
          /\ pcb' = [pcb EXCEPT ![cs_pcb] = "aborted"]
          /\ Post(<<"ERROR">>)
       \/ /\ cs_pcb \in Pcbs \ Live
          /\ halted' \in BOOLEAN
          /\ UNCHANGED <<queue, pcb>>
    /\ cs_pcb' = NULL
    /\ UNCHANGED <<taskVars, cs_pconfig, cs_q, traffic, mine, closing>>

-----------------------------------------------------------------------------

Task ==
    \/ NewSession \/ ResolvePoll \/ CreateQueue \/ CreateConfig \/ Start
    \/ ReceiveBenign \/ ReceiveDone \/ ReceiveFatal
    \/ Settle \/ FreeConfig \/ DeleteQueue \/ ClearQueue

Scheduled == (\E p \in Pcbs : StartClient(p)) \/ StartClientFails \/ TlsAbort

Callback(p) ==
    \/ Connected(p)
    \/ \E event \in {"SENT", "RX_DATA", "RX_ERROR"} : Traffic(p, event)
    \/ RecvOversize(p)
    \/ RecvDone(p)
    \/ LowerError(p)

Next ==
    \/ Task
    \/ Scheduled
    \/ \E addr \in {"host", "NONE", "ANY"} : DnsAnswer(addr)
    \/ \E p \in Pcbs : Callback(p)
    \/ Close

Spec == Init /\ [][Next]_vars

\* Both threads run, and lwIP ends a DNS query: answered, or given up.  The peer of a
\* connection need do nothing at all, not even close it: keepalive is not set.
Fairness ==
    /\ WF_vars(Task)
    /\ WF_vars(Scheduled) /\ WF_vars(Close)
    /\ WF_vars(\E addr \in {"host", "NONE", "ANY"} : DnsAnswer(addr))

FairSpec == Spec /\ Fairness

-----------------------------------------------------------------------------
(* Properties                                                              *)

\* The type of the state; and the pointers of connection_state go with the place of
\* the task: the queue pointer is good from its creation to its deletion and null
\* from the line after that on, minutes of sleep included.
TypeOK ==
    /\ task \in {"begin", "resolve", "queue", "config", "start", "wait", "done",
                 "rx_error", "error", "free", "delete", "clear", "dead"}
    /\ ipaddr \in {"ANY", "NONE", "host"} /\ dns \in BOOLEAN
    /\ cs_pcb \in Pcbs \cup {NULL} /\ cs_pconfig \in BOOLEAN
    /\ cs_q \in {"null", "open", "deleted"}
    /\ cs_q = "open" => task \notin {"begin", "resolve", "queue", "clear"}
    /\ cs_q = "null" => task \in {"begin", "resolve", "queue", "dead"}
    /\ cs_q = "deleted" <=> task = "clear"
    /\ queue \in Seq(Events) /\ Len(queue) <= QueueLen
    /\ mbox \in Seq([fn : {"start", "abort"}, old : BOOLEAN])
    /\ pcb \in [Pcbs -> {"free", "aborted", "connecting", "up", "not_closed"}]
    /\ traffic \in [Pcbs -> Nat]
    /\ mine \subseteq Pcbs /\ closing \in Pcbs \cup {NULL}
    /\ halted \in BOOLEAN

\* A connection that lwIP still has, and that may therefore call back, is the
\* one connection_state points to, and its TLS configuration and the queue its
\* callbacks post to are there: the task never frees them under it, and no
\* round of the loop inherits a connection from an earlier one.
SessionOwnsConnection ==
    \A p \in Live : cs_pcb = p /\ cs_pconfig /\ cs_q = "open" /\ p \in mine

\* The task waits without a timeout, but never for nobody: with its queue empty,
\* a function that is still to run or a connection that is still there will
\* post to it.
NeverWaitsForNobody ==
    task = "wait" /\ queue = <<>> /\ ~halted => mbox # <<>> \/ Live # {}

\* pico_tls.h:121: tcpip_tls_abort aborts the active connection; if
\* connection_state has one when it runs, lwIP has not freed it.
AbortsActive ==
    mbox # <<>> /\ Head(mbox).fn = "abort" => cs_pcb \in Live \cup {NULL}

\* A connection that the program itself has aborted is not aborted again: whoever
\* aborts one clears the pointer that tcpip_tls_abort will look at.
NoDoubleAbort ==
    mbox # <<>> /\ Head(mbox).fn = "abort" /\ cs_pcb # NULL
        => pcb[cs_pcb] # "aborted"

\* However late the TCP/IP thread is, an abort scheduled in one round of the
\* loop does not hit the connection of a later round, although both find
\* connection_state at the same address.
LateAbortIsHarmless ==
    [][\A p \in mine : p \in Live /\ Runs("abort") /\ Head(mbox).old
                          => p \in Live']_vars

\* What https_task waits for without a timeout that the other side may never give: an
\* address from a resolver that answered 0.0.0.0 (taken for no answer yet), or the end
\* of a connection from a silent peer (xQueueReceive with portMAX_DELAY).
ZeroAddress == task = "resolve" /\ ipaddr = "ANY" /\ ~dns
SilentPeer  == task = "wait" /\ queue = <<>> /\ mbox = <<>> /\ Live # {} /\ closing = NULL

\* README: the task makes connection after connection, until the end of time.  Only
\* those two hold it up, whatever else fails (the watchdog then resets the device:
\* module HttpsTime), or the abort of a freed connection that stops the TCP/IP thread.
SessionsRepeat ==
    \/ []<>(task = "begin" \/ halted)
    \/ <>[]ZeroAddress
    \/ <>[]SilentPeer

\* Nothing but that abort stops the TCP/IP thread: no event is ever posted to a queue
\* that is not there yet, that is being deleted, or that is deleted.
OnlyAbortHalts ==
    [][halted' # halted => Runs("abort") /\ cs_pcb \in Pcbs \ Live]_vars

\* The promise of HttpsRounds: in a round the resources are taken, at most one
\* connection is made with them, and it is gone before they are given back.
Rounds == INSTANCE HttpsRounds WITH
    held <- cs_pconfig,
    conn <- IF Live # {} THEN "open"
            ELSE IF cs_pconfig /\ mine # {} THEN "closed" ELSE "none"
RoundsSpec == Rounds!Spec

=============================================================================
