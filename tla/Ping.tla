-------------------------------- MODULE Ping --------------------------------
(***************************************************************************)
(* The gateway ping: ping_gateway (src/pico_rtos_https.c), which the       *)
(* network check calls once a minute, and src/ping.c.  A call reports on   *)
(* the ping that the call before it sent, if it did: the first one only    *)
(* makes ready, and without memory none is sent.  Packets are handled on   *)
(* the TCP/IP thread, at any time: echo replies may be lost, late,         *)
(* repeated or out of order.  With PING_SINGLE_SHOT the module's timer     *)
(* does nothing.                                                           *)
(***************************************************************************)
EXTENDS Naturals

CONSTANT SeqNums        \* sequence numbers before ping_seq_num wraps around (2^16)

ASSUME PingAssumption == SeqNums \in Nat \ {0, 1}

VARIABLES
    ready,              \* ping_target->addr is set, so ping_init has been called
    ping_pcb,           \* 1 and 2 in turn: each PCB is another one; 0 for NULL
    last_ping_result, ping_seq_num,
    pc,                 \* where ping_gateway is
    recv,               \* ping_recv: "none", or the packet has "matched" or is an "other"
    in_use,             \* the PCB that lwIP's raw_input holds meanwhile, or 0
    replies,            \* sequence numbers of the replies under way
    ping_rc,            \* what the last call of ping_gateway returned
    asked,              \* history: what it sent: a "ping", nothing since it called
                        \* "init", or nothing for want of memory, "no_mem"
    answered,           \* history: a reply with the last ping's number has been handled
                        \* since ping_gateway ran
    overlap             \* history: while it ran, ping_recv counted a reply to the ping before

task == <<ready, ping_pcb, last_ping_result, ping_seq_num, pc, ping_rc>>
vars == <<task, recv, in_use, replies, asked, answered, overlap>>

Init ==
    /\ ready = FALSE /\ ping_pcb = 0
    /\ last_ping_result = 0 /\ ping_seq_num = 0
    /\ pc = "idle" /\ recv = "none" /\ in_use = 0 /\ replies = {}
    /\ ping_rc = "OK" /\ asked = "init" /\ answered = FALSE /\ overlap = FALSE

-----------------------------------------------------------------------------
(* ping_gateway, on the network check task                                 *)

\* ping_init(): the PCB is removed, if there is one, and another created.
PingInit ==
    /\ ready' = TRUE /\ ping_rc' = "OK"
    /\ ping_pcb' = IF ping_pcb = 1 THEN 2 ELSE 1
    /\ last_ping_result' = 0
    /\ asked' = "init" /\ answered' = FALSE /\ overlap' = (recv = "matched")
    /\ UNCHANGED <<ping_seq_num, pc, recv, in_use, replies>>

\* No target yet: take the gateway's address, if there is one, and send no ping.
PingFirst ==
    /\ pc = "idle" /\ ~ready
    /\ \/ PingInit
       \/ /\ ping_rc' = "ERROR"
          /\ UNCHANGED <<ready, ping_pcb, last_ping_result, ping_seq_num, pc, recv, in_use,
                         replies, asked, answered, overlap>>

\* get_last_ping_result()
PingReport ==
    /\ pc = "idle" /\ ready
    /\ ping_rc' = IF last_ping_result = 1 THEN "OK" ELSE "TIMEOUT"
    /\ pc' = "clear"
    /\ UNCHANGED <<ready, ping_pcb, last_ping_result, ping_seq_num, recv, in_use, replies,
                   asked, answered, overlap>>

ResultCleared == last_ping_result' = 0

\* ping_send_now(): set_ping_result(0)
PingClear ==
    /\ pc = "clear"
    /\ ResultCleared
    /\ pc' = "send" /\ overlap' = FALSE
    /\ UNCHANGED <<ready, ping_pcb, ping_seq_num, recv, in_use, replies, ping_rc, asked,
                   answered>>

\* Mutant of NextSeqNum: the number outgrows its sixteen bits.
NextSeqNumWide == ping_seq_num + 1

NextSeqNum == (ping_seq_num + 1) % SeqNums

\* ping_send(): a new sequence number, and the request is out; a reply to it may
\* come.  Without memory for the packet nothing is sent.  A reply is not as
\* late as SeqNums pings.
PingSend ==
    /\ pc = "send"
    /\ pc' = "idle"
    /\ \/ /\ ping_seq_num' = NextSeqNum /\ asked' = "ping"
          /\ \/ replies' = replies \cup {NextSeqNum}
             \/ replies' = replies \ {NextSeqNum}
       \/ asked' = "no_mem" /\ UNCHANGED <<ping_seq_num, replies>>
    /\ answered' = FALSE /\ overlap' = (overlap \/ recv = "matched")
    /\ UNCHANGED <<ready, ping_pcb, last_ping_result, recv, in_use, ping_rc>>

\* check_net_task finds the Wi-Fi link down: the target is to be set again.
LinkLost ==
    /\ pc = "idle" /\ ready
    /\ ready' = FALSE
    /\ UNCHANGED <<ping_pcb, last_ping_result, ping_seq_num, pc, recv, in_use, replies,
                   ping_rc, asked, answered, overlap>>

-----------------------------------------------------------------------------
(* ping_recv, on the TCP/IP thread                                         *)

\* lwIP has found the PCB and calls ping_recv for it.
Called == recv = "none" /\ ping_pcb # 0 /\ in_use' = ping_pcb

\* Mutants of Matches: the sequence number is not looked at, or was advanced after the
\* packet was made.
MatchesAny(seq) == TRUE

MatchesNext(seq) == seq = NextSeqNum

Matches(seq) == seq = ping_seq_num

\* A reply comes in (a duplicate of it may follow) and is compared with the
\* last ping.
RecvReply(seq) ==
    /\ seq \in replies
    /\ Called
    /\ recv' = IF Matches(seq) THEN "matched" ELSE "other"
    /\ answered' = (answered \/ seq = ping_seq_num)
    /\ replies' \in {replies, replies \ {seq}}
    /\ UNCHANGED <<task, asked, overlap>>

\* Any other ICMP packet, such as a request from somewhere.
RecvOther ==
    /\ Called
    /\ recv' = "other"
    /\ UNCHANGED <<task, replies, asked, answered, overlap>>

\* PING_RESULT(1) for a match, and back to raw_input, which goes on with the PCB.
RecvEnd ==
    /\ recv # "none"
    /\ last_ping_result' = IF recv = "matched" THEN 1 ELSE last_ping_result
    /\ recv' = "none" /\ in_use' = 0
    /\ overlap' = (overlap \/ (recv = "matched" /\ pc = "send"))
    /\ UNCHANGED <<ready, ping_pcb, ping_seq_num, pc, replies, ping_rc, asked,
                   answered>>

Lose(seq) ==
    /\ seq \in replies
    /\ replies' = replies \ {seq}
    /\ UNCHANGED <<task, recv, in_use, asked, answered, overlap>>

-----------------------------------------------------------------------------

PingGateway == PingFirst \/ PingReport \/ PingClear \/ PingSend

Next ==
    \/ PingGateway
    \/ LinkLost
    \/ \E seq \in 0 .. SeqNums - 1 : RecvReply(seq) \/ Lose(seq)
    \/ RecvOther
    \/ RecvEnd

Spec == Init /\ [][Next]_vars

-----------------------------------------------------------------------------
(* Properties                                                              *)

TypeOK ==
    /\ ready \in BOOLEAN /\ ping_pcb \in 0 .. 2 /\ in_use \in 0 .. 2
    /\ recv \in {"none", "matched", "other"}
    /\ last_ping_result \in {0, 1}
    /\ ping_seq_num \in 0 .. SeqNums - 1
    /\ pc \in {"idle", "clear", "send"}
    /\ replies \subseteq 0 .. SeqNums - 1
    /\ ping_rc \in {"OK", "TIMEOUT", "ERROR"}
    /\ asked \in {"init", "ping", "no_mem"}
    /\ answered \in BOOLEAN /\ overlap \in BOOLEAN

\* pico_rtos_https.c:217: ping_gateway returns the previous ping's result.  It says that
\* the gateway is there only if that very ping was answered, not on account of a late,
\* repeated or reordered reply to another - unless ping_recv was at that other reply
\* just while ping_gateway ran, which nothing in ping.c excludes.  (When the last call
\* sent none, the ping is the last one that was sent.)
OkMeansAnswered ==
    [][PingReport /\ ping_rc' = "OK" => answered \/ overlap]_vars

\* ... and that it is not there only if no answer has been handled, or one is just coming.
\* That may be for want of a ping: the first report after ping_init, at boot and after
\* each reconnect, is a timeout although no ping was sent, and so is one after a call
\* without memory.  A second timeout in a row is never again of the call to ping_init.
TimeoutMeansUnanswered ==
    [][PingReport /\ ping_rc' = "TIMEOUT" =>
          /\ ~answered \/ recv = "matched"
          /\ ping_rc = "TIMEOUT" => asked # "init"]_vars

\* pico_rtos_https.c:463-472: what creates or modifies a PCB must not race with the core,
\* "e.g. freeing/changing a PCB while the core is processing it".
PcbKeptInUse == in_use \in {0, ping_pcb}

=============================================================================
