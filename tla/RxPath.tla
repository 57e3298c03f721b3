------------------------------- MODULE RxPath -------------------------------
(***************************************************************************)
(* The way of a received byte: altcp_recv_cb (src/pico_tls.c) on the       *)
(* TCP/IP thread stores a chunk in the ring and posts an HTTPS_RX_DATA     *)
(* event with its length; https_task (src/pico_rtos_https.c) takes the     *)
(* event and reads the ring until it has got that many bytes.  The ring    *)
(* is the module extended here, step by step; what is added is who calls   *)
(* it and when.  HTTPS_CONNECTED and HTTPS_SENT take places in the same    *)
(* queue.  A connection ends with HTTPS_RX_DONE, or breaks at any time     *)
(* with HTTPS_ERROR (module HttpsSession has the other failures); the task *)
(* then starts the next one with a new queue, but with the same ring:      *)
(* circ_buffer_init() runs once, before the first connection.              *)
(***************************************************************************)
EXTENDS RxCircularBuffer

CONSTANTS
    QueueLen,   \* TLS_STATE_QUEUE_LEN
    MaxAcks     \* bound: parts in which a request may be acknowledged

ASSUME QueueLenAssumption == QueueLen \in Nat \ {0} /\ MaxAcks \in Nat

VARIABLES
    events,             \* the queue connection_state.q
    open,               \* the connection has not ended: closed by the peer, or broken
    stage,              \* 0 while it is being made, 1 when it is there, and one more
                        \* for each acknowledgement of the request
    posting,            \* altcp_recv_cb has stored a chunk but not told
    task,               \* where https_task is
    tot_len,            \* e.len of the event being handled
    tot_bytes_read,
    due                 \* history: bytes of the stream announced to the task so far

session  == <<events, open, stage, posting, task, tot_len, tot_bytes_read, due>>
pathVars == <<vars, session>>

PathInit ==
    /\ Init
    /\ events = <<>>
    /\ open = TRUE /\ stage = 0
    /\ posting = FALSE
    /\ task = "wait"
    /\ tot_len = 0 /\ tot_bytes_read = 0 /\ due = 0

\* xQueueSendFromISR: an event that finds the queue full is lost, and the
\* callbacks do not look at the result.  len: bytes to be read from the ring.  `upto' is
\* history: the place in the stream.
Post(status, len) ==
    events' = IF Len(events) < QueueLen
                THEN Append(events, [status |-> status, len |-> len, upto |-> accepted])
                ELSE events

-----------------------------------------------------------------------------
(* The callbacks, on the TCP/IP thread, one at a time                      *)

\* altcp_connect_cb: connected, and the request is written.
Connect ==
    /\ open /\ ~posting /\ stage = 0
    /\ Post("CONNECTED", 0)
    /\ stage' = 1
    /\ UNCHANGED <<vars, open, posting, task, tot_len, tot_bytes_read, due>>

\* altcp_sent_cb: the peer has acknowledged the request or a part of it.
Sent ==
    /\ open /\ ~posting /\ wpc \in {"idle", "refused"}
    /\ stage \in 1 .. MaxAcks
    /\ Post("SENT", 0)
    /\ stage' = stage + 1
    /\ UNCHANGED <<vars, open, posting, task, tot_len, tot_bytes_read, due>>

RecvChunk(len) ==
    /\ open /\ stage > 0 /\ ~posting
    /\ Offer(len)
    /\ UNCHANGED session

\* Mutant of RecvAgain: the task is told of the chunk before it is known to be stored.
RecvAgainTells ==
    /\ Retry /\ Post("RX_DATA", 0)
    /\ UNCHANGED <<open, stage, posting, task, tot_len, tot_bytes_read, due>>

\* ERR_MEM: lwIP keeps the refused chunk and calls back later.
RecvAgain == Retry /\ UNCHANGED session

RecvCopy ==
    /\ WriteLoad \/ WriteCheck \/ WriteCopy \/ WriteFinish
    /\ UNCHANGED session

\* circ_buff_write returns ERR_OK.
RecvStored ==
    /\ WritePublish
    /\ posting' = TRUE
    /\ UNCHANGED <<events, open, stage, task, tot_len, tot_bytes_read, due>>

\* Mutant of RecvTell: no event for a one-byte chunk.
RecvTellLongOnly ==
    /\ posting
    /\ IF w_len > 1 THEN Post("RX_DATA", w_len) ELSE UNCHANGED events
    /\ posting' = FALSE
    /\ UNCHANGED <<vars, open, stage, task, tot_len, tot_bytes_read, due>>

RecvTell ==
    /\ posting
    /\ Post("RX_DATA", w_len)
    /\ posting' = FALSE
    /\ UNCHANGED <<vars, open, stage, task, tot_len, tot_bytes_read, due>>

\* p == NULL: the peer closed.  lwIP delivers refused data first.
RecvClose ==
    /\ open /\ stage > 0
    /\ wpc = "idle" /\ ~posting
    /\ Post("RX_DONE", 0)
    /\ open' = FALSE
    /\ UNCHANGED <<vars, stage, posting, task, tot_len, tot_bytes_read, due>>

\* altcp_err_cb: the connection is reset or times out, between two callbacks.
Break ==
    /\ open /\ ~posting
    /\ \/ wpc = "idle" /\ UNCHANGED vars
       \/ Drop
    /\ Post("ERROR", 0)
    /\ open' = FALSE
    /\ UNCHANGED <<stage, posting, task, tot_len, tot_bytes_read, due>>

-----------------------------------------------------------------------------
(* https_task                                                              *)

Notes == {"CONNECTED", "SENT"}

\* xQueueReceive(q, &e, portMAX_DELAY); HTTPS_CONNECTED and HTTPS_SENT are only printed.
Receive ==
    /\ task = "wait"
    /\ events # <<>>
    /\ events' = Tail(events)
    /\ tot_len' = Head(events).len
    /\ tot_bytes_read' = 0
    /\ due' = Head(events).upto
    /\ task' = CASE Head(events).status = "RX_DATA" -> "drain"
                 [] Head(events).status \in Notes   -> "wait"
                 [] OTHER                           -> "done"
    /\ UNCHANGED <<vars, open, stage, posting>>

\* while (tot_bytes_read < tot_len) circ_buff_read(rx_data, rx_data_max_size)
DrainCall ==
    /\ task = "drain"
    /\ tot_bytes_read < tot_len
    /\ \E plen \in ReadSizes : ReadCall(plen)
    /\ UNCHANGED session

\* Mutant of DrainCheck: the loop goes on when there is nothing to read.
DrainCheckSpins ==
    /\ ReadCheck
    /\ UNCHANGED session

\* if (n == 0) break;
DrainCheck ==
    /\ ReadCheck
    /\ task' = IF NothingToRead THEN "drained" ELSE task
    /\ UNCHANGED <<events, open, stage, posting, tot_len, tot_bytes_read, due>>

DrainCopy ==
    /\ ReadCopy \/ ReadClear
    /\ UNCHANGED session

\* Mutant of DrainAdvance: the loop ends after one read.
DrainAdvanceOnce ==
    /\ ReadPublish
    /\ tot_bytes_read' = tot_bytes_read + r_n
    /\ task' = "drained"
    /\ UNCHANGED <<events, open, stage, posting, tot_len, due>>

DrainAdvance ==
    /\ ReadPublish
    /\ tot_bytes_read' = tot_bytes_read + r_n
    /\ task' = IF tot_bytes_read' < tot_len THEN "drain" ELSE "drained"
    /\ UNCHANGED <<events, open, stage, posting, tot_len, due>>

\* The warning at line 546 depends on tot_bytes_read # tot_len here.
Drained ==
    /\ task = "drained"
    /\ task' = "wait"
    /\ UNCHANGED <<vars, events, open, stage, posting, tot_len, tot_bytes_read, due>>

\* HTTPS_RX_DONE or HTTPS_ERROR: the queue is deleted, and the next connection made.
NextConnection ==
    /\ task = "done"
    /\ task' = "wait"
    /\ events' = <<>>
    /\ open' = TRUE /\ stage' = 0
    /\ resp' = 0
    /\ UNCHANGED <<statics, writer, reader, accepted, out,
                   posting, tot_len, tot_bytes_read, due>>

-----------------------------------------------------------------------------

RecvCb == RecvCopy \/ RecvStored \/ RecvTell
Https  == Receive \/ DrainCall \/ DrainCheck \/ DrainCopy \/ DrainAdvance
          \/ Drained \/ NextConnection

PathNext ==
    \/ Connect \/ Sent
    \/ \E len \in ChunkLens : RecvChunk(len)
    \/ RecvAgain
    \/ RecvCb
    \/ RecvClose \/ Break
    \/ Https

PathSpec == PathInit /\ [][PathNext]_pathVars

\* Both threads run, and lwIP retries refused data.  The peer need not do anything.
PathFairness ==
    /\ WF_pathVars(RecvAgain)
    /\ WF_pathVars(RecvCb)
    /\ WF_pathVars(Https)

FairPathSpec == PathSpec /\ PathFairness

-----------------------------------------------------------------------------
(* Properties                                                              *)

Events == [status : Notes \cup {"RX_DATA", "RX_DONE", "ERROR"}, len : Nat, upto : Nat]

PathTypeOK ==
    /\ TypeOK
    /\ events \in Seq(Events)
    /\ Len(events) <= QueueLen
    /\ open \in BOOLEAN /\ posting \in BOOLEAN /\ stage \in 0 .. MaxAcks + 1
    /\ task \in {"wait", "drain", "drained", "done"}
    /\ tot_len \in Nat /\ tot_bytes_read \in Nat /\ due \in Nat

\* The callback and the task use the ring as its module assumes: in particular
\* a connection never starts with bytes of an earlier one in the ring, though
\* nothing resets it.
RingSpec == Spec

\* No byte is stranded.  One event's reads may take bytes announced by the next,
\* and a read may find nothing; but when an event has been handled, every byte
\* announced so far has been read, and when the connection is over, every byte.
NoStrandedByte ==
    /\ task \in {"wait", "drained", "done"} => due <= Len(out)
    /\ task = "done" => Len(out) = accepted

\* No event is lost: the queue has room for another one as long as the connection may
\* post it, the last one of all included, although nobody looks at the result of a post.
QueueHasRoom == open \/ posting => Len(events) < QueueLen

\* The odd room test of circ_buff_write refuses nothing for long: when the task has
\* handled what it was told of, any chunk that may come fits, so that a chunk is only
\* refused while the task has an event to come and bytes to take out.
NoRefusalAtRest ==
    task = "wait" /\ events = <<>> /\ open /\ ~posting =>
        \A len \in ChunkLens :
            resp + len <= MaxResponse => ~Refuses(len, read_idx, write_idx, is_full)

\* src/README.md:220: after a minute's sleep the https task repeats "until the end of
\* time": a connection that is closed or broken is followed by another one.
NextConnectionFollows == ~open ~> open

\* pico_tls.c:48-51: circ_buff_write refuses chunks that would fit (its room test
\* is on the used bytes), but never for ever: the task's reads make room, unless
\* the connection breaks first.
EveryChunkAccepted == wpc = "load" ~> wpc = "idle"

-----------------------------------------------------------------------------
(* The inductive invariant behind RingSpec and NoStrandedByte              *)

\* The bytes told of in an event, and where the event at place i goes on from.
Told == IF posting THEN accepted - w_len ELSE accepted
From(i) == IF i = 1 THEN due ELSE events[i - 1].upto

\* Each event goes on where the one before it ended, and the last one ends where
\* telling has come to.
AnnounceInv ==
    /\ due <= accepted
    /\ \A i \in 1 .. Len(events) :
         events[i].upto <= accepted /\ events[i].upto = From(i) + events[i].len
    /\ Told = From(Len(events) + 1)
    /\ posting => wpc = "idle"

\* The last event of a connection is the last one in the queue.
EndInv ==
    /\ \A i \in 1 .. Len(events) :
         /\ events[i].status # "RX_DATA" => events[i].len = 0
         /\ events[i].status \in {"RX_DONE", "ERROR"} => i = Len(events) /\ ~open
    /\ task = "done" => events = <<>> /\ ~open
    /\ ~open => wpc = "idle" /\ ~posting

\* The loop of reads has got as far as it has counted; a read that finds nothing
\* finds that others have read what this event announced.
DrainInv ==
    /\ task \in {"wait", "drained", "done"} => rpc = "idle" /\ due <= Len(out)
    /\ task = "drain" =>
         /\ due + tot_bytes_read <= Published + tot_len
         /\ rpc = "check" => r_plen > 0 /\ due <= Published + Dist(r_r, r_w)

PathInv ==
    /\ PathTypeOK
    /\ RingInv
    /\ AnnounceInv
    /\ EndInv
    /\ DrainInv

\* The case in which the queue suffices: a response has no more chunks, of at least m
\* bytes each, than there are places besides those of HTTPS_CONNECTED, of the
\* acknowledgements and of the event that ends the connection.
FewChunks(m) ==
    /\ \A len \in ChunkLens : len >= m
    /\ MaxResponse + m * (MaxAcks + 1) < m * QueueLen

\* Each event in the queue is counted in `stage' or is about that many bytes of the
\* current response.
ChunkInv(m) ==
    /\ wpc # "idle" \/ posting => w_len >= m
    /\ open \/ posting =>
         m * Len(events) + (IF posting THEN w_len ELSE 0) <= resp + m * stage
=============================================================================
