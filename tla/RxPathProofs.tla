---------------------------- MODULE RxPathProofs ----------------------------
(***************************************************************************)
(* Theorems about the receive path, for every size of ring and queue and   *)
(* every set of chunk and read sizes: while responses are shorter than the *)
(* ring and no event is lost, altcp_recv_cb and https_task use the ring as *)
(* its module assumes, connections that break included, so that what is    *)
(* proved of the ring holds of the program that uses it.  No event is lost *)
(* when the queue has places for the chunks of a response, and besides for *)
(* HTTPS_CONNECTED, the acknowledgements of the request and the last       *)
(* event; types hold with no assumption at all.                            *)
(***************************************************************************)
EXTENDS RxPath, RxCircularBufferProofs

USE ConstantAssumption

\* A post to a queue that is not full appends the event.
LEMMA PostAppends ==
    ASSUME QueueHasRoom, open \/ posting, NEW st, NEW len, Post(st, len)
    PROVE  events' = Append(events, [status |-> st, len |-> len, upto |-> accepted])
BY DEF Post, QueueHasRoom

\* When the task has handled the last event of a connection, the ring is empty
\* and nobody is inside it.
LEMMA DoneIsDrained ==
    ASSUME PathInv, task = "done"
    PROVE  /\ wpc = "idle" /\ rpc = "idle" /\ ~posting /\ ~open
           /\ Len(out) = accepted /\ due = accepted /\ events = <<>>
<1>1. wpc = "idle" /\ rpc = "idle" /\ ~posting /\ ~open /\ events = <<>>
      /\ due <= Len(out)
  BY DEF PathInv, EndInv, DrainInv
<1>2. due = accepted
  BY <1>1 DEF PathInv, AnnounceInv, Told, From
<1>3. Len(out) <= accepted /\ Len(out) \in Nat /\ accepted \in Nat
  BY DEF PathInv, RingInv, TypeOK, DeliveredInOrder
<1> QED BY <1>1, <1>2, <1>3

\* Every step of the path but the next connection is a step of the ring, or
\* leaves the ring alone.
LEMMA PathStepUsesRing ==
    ASSUME [PathNext]_pathVars, ~NextConnection
    PROVE  [Next]_vars
<1>1. CASE UNCHANGED pathVars
  BY <1>1 DEF pathVars
<1>2. CASE (\E len \in ChunkLens : RecvChunk(len)) \/ RecvAgain \/ RecvCb
           \/ Connect \/ Sent \/ RecvClose \/ Break
  BY <1>2 DEF Connect, Sent, RecvChunk, RecvAgain, RecvCb, RecvCopy, RecvStored, RecvTell,
     RecvClose, Break, Next, Write
<1>3. CASE Receive \/ DrainCall \/ DrainCheck \/ DrainCopy \/ DrainAdvance \/ Drained
  BY <1>3 DEF Receive, DrainCall, DrainCheck, DrainCopy, DrainAdvance, Drained,
     Next, Read
<1> QED BY <1>1, <1>2, <1>3 DEF PathNext, Https

\* The next connection is one too: it never finds bytes of the last one in the ring.
LEMMA PathStepRing ==
    ASSUME PathInv, [PathNext]_pathVars
    PROVE  [Next]_vars
<1>1. CASE NextConnection
  <2>1. /\ wpc = "idle" /\ rpc = "idle" /\ Len(out) = accepted
        /\ resp' = 0 /\ UNCHANGED <<statics, writer, reader, accepted, out>>
    BY <1>1, DoneIsDrained DEF NextConnection
  <2>2. resp \in Nat
    BY DEF PathInv, RingInv, TypeOK
  <2>3. CASE resp > 0
    BY <2>1, <2>3 DEF Next, NewResponse
  <2>4. CASE resp = 0
    BY <2>1, <2>4 DEF vars
  <2> QED BY <2>2, <2>3, <2>4
<1> QED BY <1>1, PathStepUsesRing

-----------------------------------------------------------------------------
(* Types                                                                   *)

LEMMA InitPathType == PathInit => PathTypeOK
<1> SUFFICES ASSUME PathInit PROVE PathTypeOK
  OBVIOUS
<1>1. TypeOK /\ Len(events) <= QueueLen
  BY InitType, QueueLenAssumption DEF PathInit
<1>2. events \in Seq(Events)
  BY DEF PathInit
<1>3. stage \in 0 .. MaxAcks + 1
  BY QueueLenAssumption DEF PathInit
<1> QED BY <1>1, <1>2, <1>3 DEF PathInit, PathTypeOK

LEMMA StepRingType ==
    ASSUME TypeOK, [PathNext]_pathVars
    PROVE  TypeOK'
<1>1. CASE NextConnection
  BY <1>1 DEF NextConnection, TypeOK, statics, writer, reader
<1>2. CASE ~NextConnection
  <2>1. [Next]_vars
    BY <1>2, PathStepUsesRing
  <2> QED BY <2>1, StepType
<1> QED BY <1>1, <1>2

LEMMA StepPathType ==
    ASSUME PathTypeOK, TypeOK', [PathNext]_pathVars
    PROVE  PathTypeOK'
<1> USE QueueLenAssumption DEF PathTypeOK
<1>0. ASSUME NEW st \in Notes \cup {"RX_DATA", "RX_DONE", "ERROR"},
             NEW len \in Nat, Post(st, len)
      PROVE  /\ events' \in Seq(Events)
             /\ Len(events') <= QueueLen
  <2> DEFINE e == [status |-> st, len |-> len, upto |-> accepted]
  <2>1. e \in Events
    BY DEF TypeOK, Events
  <2>2. events' = IF Len(events) < QueueLen THEN Append(events, e) ELSE events
    BY <1>0 DEF Post
  <2> HIDE DEF e
  <2> QED BY <2>1, <2>2
<1>1. CASE \/ \E len \in ChunkLens : RecvChunk(len)
           \/ RecvAgain \/ RecvCopy \/ RecvStored \/ DrainCall \/ DrainCheck
           \/ DrainCopy \/ Drained \/ UNCHANGED pathVars
  BY <1>1 DEF RecvChunk, RecvAgain, RecvCopy, RecvStored, DrainCall, DrainCheck,
     DrainCopy, Drained, pathVars, session
<1>2. CASE Connect \/ Sent \/ RecvTell \/ RecvClose \/ Break
  <2>1. w_len \in Nat
    BY DEF TypeOK
  <2>2. PICK st \in Notes \cup {"RX_DATA", "RX_DONE", "ERROR"}, len \in Nat : Post(st, len)
    BY <1>2, <2>1 DEF Connect, Sent, Notes, RecvTell, RecvClose, Break
  <2>3. events' \in Seq(Events) /\ Len(events') <= QueueLen
    BY <1>0, <2>2
  <2>4. stage' \in 0 .. MaxAcks + 1
    BY <1>2 DEF Connect, Sent, RecvTell, RecvClose, Break
  <2> QED BY <1>2, <2>3, <2>4 DEF Connect, Sent, RecvTell, RecvClose, Break
<1>3. CASE Receive
  <2>1. /\ Tail(events) \in Seq(Events)
        /\ Len(Tail(events)) <= QueueLen
        /\ Head(events) \in Events
    BY <1>3 DEF Receive
  <2> QED BY <1>3, <2>1 DEF Receive, Events
<1>4. CASE DrainAdvance
  <2>1. r_n \in Nat
    BY DEF TypeOK
  <2> QED BY <1>4, <2>1 DEF DrainAdvance
<1>5. CASE NextConnection
  <2>1. events' = <<>> /\ Len(events') = 0
    BY <1>5 DEF NextConnection
  <2> QED BY <1>5, <2>1 DEF NextConnection
<1> QED BY <1>1, <1>2, <1>3, <1>4, <1>5 DEF PathNext, RecvCb, Https

\* Whatever the sizes, and events lost or not, every variable keeps its type and
\* the queue its bound.
THEOREM PathTypeCorrect == PathSpec => []PathTypeOK
<1>1. PathTypeOK /\ [PathNext]_pathVars => PathTypeOK'
  BY StepRingType, StepPathType DEF PathTypeOK
<1> QED BY InitPathType, <1>1, PTL DEF PathSpec

-----------------------------------------------------------------------------
(* The invariant                                                           *)

LEMMA InitPath == PathInit => PathInv
<1> SUFFICES ASSUME PathInit PROVE PathInv
  OBVIOUS
<1>1. RingInv
  BY InitRing DEF PathInit
<1>2. PathTypeOK
  BY InitPathType
<1>3. AnnounceInv /\ EndInv /\ DrainInv
  BY DEF PathInit, Init, AnnounceInv, EndInv, DrainInv, Told, From
<1> QED BY <1>1, <1>2, <1>3 DEF PathInv

\* A step in which only the two cursors of a read, or the writer's copies, move.
LEMMA QuietStep ==
    ASSUME PathInv, UNCHANGED <<events, open, posting, due, accepted>>,
           w_len' = w_len \/ ~posting,
           (posting \/ ~open) => wpc' = wpc,
           task' # "done" \/ task = "done"
    PROVE  AnnounceInv' /\ EndInv'
BY DEF PathInv, AnnounceInv, EndInv, Told, From

\* A step of the TCP/IP thread that keeps what the reader has.
LEMMA ReaderLeftAlone ==
    ASSUME PathInv, UNCHANGED <<read_idx, reader, out, task, tot_len, tot_bytes_read, due>>
    PROVE  DrainInv'
BY DEF PathInv, DrainInv, Published, Dist, reader

\* An event posted where the others end keeps the announcements in a chain.
LEMMA PostKeepsChain ==
    ASSUME PathInv, NEW len \in Nat, NEW st,
           accepted = Told + len, ~posting',
           events' = Append(events, [status |-> st, len |-> len, upto |-> accepted]),
           UNCHANGED <<accepted, due>>
    PROVE  AnnounceInv'
<1> DEFINE e == [status |-> st, len |-> len, upto |-> accepted]
<1>1. /\ events \in Seq(Events)
      /\ accepted \in Nat
      /\ Len(events) \in Nat
  BY DEF PathInv, PathTypeOK, TypeOK
<1>2. /\ Len(events') = Len(events) + 1
      /\ events'[Len(events) + 1] = e
      /\ \A i \in 1 .. Len(events) : events'[i] = events[i]
  BY <1>1
<1>3. e.len = len /\ e.upto = accepted
  OBVIOUS
<1> HIDE DEF e
<1>4. ASSUME NEW i \in 1 .. Len(events) + 1 PROVE From(i)' = From(i)
  <2>1. CASE i = 1
    BY <2>1 DEF From
  <2>2. CASE i # 1
    <3>1. i - 1 \in 1 .. Len(events)
      BY <1>1, <2>2
    <3> QED BY <1>2, <2>2, <3>1 DEF From
  <2> QED BY <2>1, <2>2
<1>5. From(Len(events) + 1) = Told
  BY DEF PathInv, AnnounceInv
<1>6. ASSUME NEW i \in 1 .. Len(events')
      PROVE  events'[i].upto <= accepted /\ events'[i].upto = From(i)' + events'[i].len
  <2>1. CASE i \in 1 .. Len(events)
    BY <1>1, <1>2, <1>4, <2>1 DEF PathInv, AnnounceInv
  <2>2. CASE i = Len(events) + 1
    BY <1>1, <1>2, <1>3, <1>4, <1>5, <2>2
  <2> QED BY <1>1, <1>2, <2>1, <2>2
<1>7. (Told = From(Len(events) + 1))'
  BY <1>1, <1>2, <1>3 DEF Told, From
<1> QED BY <1>6, <1>7 DEF PathInv, AnnounceInv

\* The task takes the next event.
LEMMA StepReceive ==
    ASSUME PathInv, Receive
    PROVE  AnnounceInv' /\ EndInv' /\ DrainInv'
<1>1. /\ events \in Seq(Events)
      /\ Len(events) \in Nat /\ Len(events) > 0
      /\ due \in Nat /\ Head(events) \in Events /\ Head(events).len \in Nat
  <2>1. events \in Seq(Events) /\ events # <<>> /\ due \in Nat
    BY DEF PathInv, PathTypeOK, Receive
  <2>2. Len(events) > 0 /\ Head(events) \in Events
    BY <2>1
  <2> QED BY <2>1, <2>2 DEF Events
<1>2. /\ Len(events') = Len(events) - 1
      /\ \A i \in 1 .. Len(events') : events'[i] = events[i + 1]
      /\ Head(events) = events[1]
      /\ 1 \in 1 .. Len(events)
  BY <1>1 DEF Receive
<1>3. /\ due' = events[1].upto /\ tot_len' = events[1].len /\ tot_bytes_read' = 0
      /\ events[1].upto = due + events[1].len /\ events[1].upto <= accepted
      /\ task' = CASE events[1].status = "RX_DATA" -> "drain"
                   [] events[1].status \in Notes   -> "wait"
                   [] OTHER                        -> "done"
      /\ events[1].status \in Notes \cup {"RX_DATA", "RX_DONE", "ERROR"}
      /\ UNCHANGED <<vars, open, posting>>
      /\ task = "wait"
  BY <1>1, <1>2 DEF Receive, PathInv, AnnounceInv, From, Events
<1>4. ASSUME NEW i \in 1 .. Len(events) PROVE From(i)' = From(i + 1)
  <2>1. CASE i = 1
    BY <1>1, <1>3, <2>1 DEF From
  <2>2. CASE i # 1
    <3>1. i - 1 \in 1 .. Len(events')
      BY <1>1, <1>2, <2>2
    <3>2. events'[i - 1] = events[i]
      BY <1>2, <3>1
    <3> QED BY <2>2, <3>2 DEF From
  <2> QED BY <2>1, <2>2
<1>5. AnnounceInv'
  <2>1. ASSUME NEW i \in 1 .. Len(events')
        PROVE  events'[i].upto <= accepted /\ events'[i].upto = From(i)' + events'[i].len
    <3>1. i + 1 \in 1 .. Len(events) /\ i \in 1 .. Len(events)
      BY <1>1, <1>2
    <3> QED BY <1>2, <1>4, <3>1 DEF PathInv, AnnounceInv
  <2>2. (Told = From(Len(events) + 1))'
    <3>1. Told' = Told
      BY <1>3 DEF Told, vars, writer
    <3>2. Len(events) \in 1 .. Len(events) /\ Len(events') + 1 = Len(events)
      BY <1>1, <1>2
    <3>3. PICK n \in 1 .. Len(events) : n = Len(events)
      BY <3>2
    <3>4. From(n)' = Told
      BY <1>4, <3>3 DEF PathInv, AnnounceInv
    <3>5. (From(Len(events) + 1) = From(n))'
      BY <3>2, <3>3
    <3> QED BY <3>1, <3>4, <3>5
  <2> QED BY <1>3, <2>1, <2>2 DEF PathInv, AnnounceInv, vars, writer
<1>6. EndInv'
  <2>1. ASSUME NEW i \in 1 .. Len(events')
        PROVE  /\ events'[i].status # "RX_DATA" => events'[i].len = 0
               /\ events'[i].status \in {"RX_DONE", "ERROR"} => i = Len(events') /\ ~open'
    <3>1. i + 1 \in 1 .. Len(events) /\ events'[i] = events[i + 1]
      BY <1>1, <1>2
    <3>2. /\ events[i + 1].status # "RX_DATA" => events[i + 1].len = 0
          /\ events[i + 1].status \in {"RX_DONE", "ERROR"} => i + 1 = Len(events) /\ ~open
      BY <3>1 DEF PathInv, EndInv
    <3> QED BY <1>1, <1>2, <1>3, <3>1, <3>2
  <2>2. task' = "done" => events' = <<>> /\ ~open'
    <3> SUFFICES ASSUME task' = "done" PROVE events' = <<>> /\ ~open'
      OBVIOUS
    <3>1. events[1].status \in {"RX_DONE", "ERROR"}
      BY <1>3
    <3>2. Len(events) = 1 /\ ~open
      BY <1>2, <3>1 DEF PathInv, EndInv
    <3> QED BY <1>1, <1>3, <3>2 DEF Receive
  <2>3. ~open' => wpc' = "idle" /\ ~posting'
    BY <1>3 DEF PathInv, EndInv, vars, writer
  <2> QED BY <2>1, <2>2, <2>3 DEF EndInv
<1>7. DrainInv'
  <2>1. rpc = "idle" /\ due <= Len(out) /\ Len(out) \in Nat /\ Published = Len(out)
    BY <1>3 DEF PathInv, DrainInv, RingInv, TypeOK, Published
  <2>2. events[1].status # "RX_DATA" => events[1].len = 0
    BY <1>2 DEF PathInv, EndInv
  <2>3. UNCHANGED <<rpc, out>> /\ Published' = Len(out)
    BY <1>3, <2>1 DEF vars, reader, Published
  <2>4. CASE events[1].status = "RX_DATA"
    <3>1. task' = "drain" /\ rpc' = "idle" /\ tot_bytes_read' = 0
      BY <1>3, <2>1, <2>3, <2>4 DEF Notes
    <3>2. due' = due + events[1].len /\ tot_len' = events[1].len /\ events[1].len \in Nat
      BY <1>1, <1>2, <1>3
    <3>3. due' + tot_bytes_read' <= Published' + tot_len'
      BY <1>1, <2>1, <2>3, <3>1, <3>2
    <3> QED BY <3>1, <3>3 DEF DrainInv
  <2>5. CASE events[1].status # "RX_DATA"
    <3>1. task' # "drain" /\ due' = due
      BY <1>1, <1>2, <1>3, <2>2, <2>5
    <3> QED BY <2>1, <2>3, <3>1 DEF DrainInv
  <2> QED BY <2>4, <2>5
<1> QED BY <1>5, <1>6, <1>7

\* One access of the task inside circ_buff_read.
LEMMA StepDrain ==
    ASSUME PathInv, PathTypeOK', RingInv',
           DrainCall \/ DrainCheck \/ DrainCopy \/ DrainAdvance
    PROVE  DrainInv'
<1>1. /\ due \in Nat /\ tot_len \in Nat /\ tot_bytes_read \in Nat /\ accepted \in Nat
      /\ due <= accepted /\ Len(out) \in Nat /\ r_i \in Nat /\ r_n \in Nat
      /\ InRing = accepted - Published /\ Published \in Nat
      /\ Dist(read_idx, write_idx) = InRing /\ ~is_full
  BY DEF PathInv, PathTypeOK, TypeOK, AnnounceInv, RingInv, CountInv, InRing
<1>2. CASE DrainCall
  <2>1. PICK plen \in ReadSizes : ReadCall(plen)
    BY <1>2 DEF DrainCall
  <2>2. /\ rpc = "idle" /\ rpc' = "check" /\ r_r' = read_idx /\ r_w' = write_idx
        /\ r_plen' = plen /\ plen > 0 /\ task = "drain" /\ Published' = Published
        /\ UNCHANGED <<task, due, tot_len, tot_bytes_read, out>>
    BY <1>2, <2>1 DEF DrainCall, ReadCall, session, Published
  <2>3. Dist(r_r, r_w)' = InRing
    BY <1>1, <2>2 DEF Dist
  <2> QED BY <1>1, <2>2, <2>3 DEF PathInv, DrainInv
<1>3. CASE DrainCheck
  <2>1. /\ rpc = "check" /\ task = "drain" /\ Published = Len(out)
        /\ UNCHANGED <<due, tot_len, tot_bytes_read, out>>
    BY <1>3 DEF DrainCheck, ReadCheck, PathInv, DrainInv, PathTypeOK, Published
  <2>2. CASE NothingToRead
    <3>1. rpc' = "idle" /\ task' = "drained"
      BY <1>3, <2>2 DEF DrainCheck, ReadCheck
    <3>2. r_r = r_w /\ Dist(r_r, r_w) = 0
      BY <1>1, <2>1, <2>2 DEF NothingToRead, PathInv, DrainInv, RingInv, TypeOK, Index, Dist
    <3> QED BY <1>1, <2>1, <3>1, <3>2 DEF PathInv, DrainInv
  <2>3. CASE ~NothingToRead
    <3>1. rpc' = "copy" /\ r_i' = 0 /\ task' = task
      BY <1>3, <2>3 DEF DrainCheck, ReadCheck
    <3>2. Published' = Published
      BY <1>1, <2>1, <3>1 DEF Published
    <3> QED BY <2>1, <3>1, <3>2 DEF PathInv, DrainInv
  <2> QED BY <2>2, <2>3
<1>4. CASE DrainCopy
  <2>1. /\ rpc = "copy" /\ rpc' \in {"copy", "publish"} /\ task = "drain"
        /\ UNCHANGED session
    BY <1>4 DEF DrainCopy, ReadCopy, ReadClear, PathInv, DrainInv, PathTypeOK, reader
  <2>2. Published' = Published
    <3>1. CASE ReadCopy
      <4>1. out' = Append(out, rx_buffer[r_r]) /\ r_i' = r_i + 1
        BY <3>1 DEF ReadCopy
      <4>2. Len(out') = Len(out) + 1
        BY <4>1 DEF PathInv, RingInv, TypeOK
      <4> QED BY <1>1, <2>1, <4>1, <4>2 DEF Published
    <3>2. CASE ReadClear
      BY <2>1, <3>2 DEF ReadClear, Published
    <3> QED BY <1>4, <3>1, <3>2 DEF DrainCopy
  <2> QED BY <2>1, <2>2 DEF session, PathInv, DrainInv
<1>5. CASE DrainAdvance
  <2>1. /\ rpc = "publish" /\ rpc' = "idle" /\ task = "drain" /\ r_i = r_n
        /\ tot_bytes_read' = tot_bytes_read + r_n
        /\ task' = IF tot_bytes_read' < tot_len THEN "drain" ELSE "drained"
        /\ UNCHANGED <<out, due, tot_len>>
    BY <1>5 DEF DrainAdvance, ReadPublish, PathInv, DrainInv, PathTypeOK, RingInv, ReaderInv
  <2>2. Published = Len(out) - r_n /\ Published' = Len(out)
    BY <2>1 DEF Published
  <2>3. due + tot_bytes_read <= Published + tot_len
    BY <2>1 DEF PathInv, DrainInv
  <2> QED BY <1>1, <2>1, <2>2, <2>3 DEF DrainInv
<1> QED BY <1>2, <1>3, <1>4, <1>5

LEMMA StepPath ==
    ASSUME ShortResponses, PathInv, QueueHasRoom, [PathNext]_pathVars
    PROVE  PathInv'
<1>1. RingInv' /\ TypeOK'
  <2>1. RingInv'
    BY PathStepRing, StepRing DEF PathInv
  <2> QED BY <2>1 DEF RingInv
<1>2. PathTypeOK'
  BY <1>1, StepPathType DEF PathInv
<1>3. /\ accepted \in Nat /\ w_len \in Nat /\ due <= accepted
      /\ task # "done" => (posting => wpc = "idle") /\ (~open => wpc = "idle" /\ ~posting)
  BY DEF PathInv, PathTypeOK, TypeOK, AnnounceInv, EndInv
<1>4. CASE (\E len \in ChunkLens : RecvChunk(len)) \/ RecvAgain \/ RecvCopy
  <2>1. /\ ~posting /\ open
        /\ UNCHANGED <<session, read_idx, reader, accepted, out>>
    BY <1>4 DEF RecvChunk, Offer, RecvAgain, Retry, RecvCopy, WriteLoad, WriteCheck,
       WriteCopy, WriteFinish, PathInv, AnnounceInv, EndInv, statics
  <2>2. AnnounceInv' /\ EndInv'
    BY <2>1, QuietStep DEF session
  <2>3. DrainInv'
    BY <2>1, ReaderLeftAlone DEF session
  <2> QED BY <1>1, <1>2, <2>2, <2>3 DEF PathInv
<1>5. CASE RecvStored
  <2>1. /\ wpc = "publish" /\ wpc' = "idle" /\ ~posting /\ posting' /\ open
        /\ accepted' = accepted + w_len /\ w_len' = w_len
        /\ UNCHANGED <<read_idx, reader, out, events, open, task, tot_len, tot_bytes_read, due>>
    BY <1>5 DEF RecvStored, WritePublish, PathInv, AnnounceInv, EndInv, PathTypeOK
  <2>2. AnnounceInv'
    <3>1. Told' = Told
      BY <1>3, <2>1 DEF Told
    <3>2. ASSUME NEW i \in 1 .. Len(events) PROVE events[i].upto <= accepted'
      <4>1. events[i] \in Events /\ events[i].upto <= accepted
        BY DEF PathInv, PathTypeOK, AnnounceInv
      <4> QED BY <1>3, <2>1, <4>1 DEF Events
    <3>3. due <= accepted'
      BY <1>3, <2>1 DEF PathInv, PathTypeOK
    <3> QED BY <2>1, <3>1, <3>2, <3>3 DEF PathInv, AnnounceInv, From
  <2>3. EndInv'
    BY <2>1 DEF PathInv, EndInv
  <2>4. DrainInv'
    BY <2>1, ReaderLeftAlone
  <2> QED BY <1>1, <1>2, <2>2, <2>3, <2>4 DEF PathInv
<1>6. CASE Connect \/ Sent \/ RecvTell \/ RecvClose \/ Break
  <2>1. PICK st \in Notes \cup {"RX_DATA", "RX_DONE", "ERROR"}, len \in Nat :
          /\ Post(st, len)
          /\ st # "RX_DATA" => len = 0
          /\ st \in {"RX_DONE", "ERROR"} => ~open'
          /\ accepted = Told + len
    BY <1>3, <1>6 DEF Connect, Sent, Notes, RecvTell, RecvClose, Break, Told
  <2>2. /\ ~posting' /\ (open' = open \/ ~open') /\ open \in BOOLEAN
        /\ open \/ posting
        /\ ~open' => wpc' = "idle"
        /\ UNCHANGED <<read_idx, reader, accepted, out, task, tot_len, tot_bytes_read, due>>
    BY <1>6, <1>3 DEF Connect, Sent, RecvTell, RecvClose, Break, Drop, vars, statics, writer,
       PathInv, PathTypeOK, AnnounceInv, EndInv
  <2>3. events' = Append(events, [status |-> st, len |-> len, upto |-> accepted])
    BY <2>1, <2>2, PostAppends
  <2>4. AnnounceInv'
    BY <2>1, <2>2, <2>3, PostKeepsChain
  <2>5. EndInv'
    <3>1. open /\ task # "done"
      BY <2>2 DEF PathInv, EndInv
    <3>2. events \in Seq(Events)
      BY DEF PathInv, PathTypeOK
    <3>3. ASSUME NEW i \in 1 .. Len(events')
          PROVE  /\ events'[i].status # "RX_DATA" => events'[i].len = 0
                 /\ events'[i].status \in {"RX_DONE", "ERROR"} => i = Len(events') /\ ~open'
      <4>1. CASE i \in 1 .. Len(events)
        <5>1. events'[i] = events[i]
          BY <2>3, <3>2, <4>1
        <5> QED BY <3>1, <4>1, <5>1 DEF PathInv, EndInv
      <4>2. CASE i \notin 1 .. Len(events)
        <5> DEFINE e == [status |-> st, len |-> len, upto |-> accepted]
        <5>1. e.status = st /\ e.len = len
          OBVIOUS
        <5> HIDE DEF e
        <5>2. i = Len(events') /\ events'[i] = e
          BY <2>3, <3>2, <4>2 DEF e
        <5> QED BY <2>1, <5>1, <5>2
      <4> QED BY <4>1, <4>2
    <3> QED BY <2>2, <3>1, <3>3 DEF EndInv
  <2>6. DrainInv'
    BY <2>2, ReaderLeftAlone
  <2> QED BY <1>1, <1>2, <2>4, <2>5, <2>6 DEF PathInv
<1>7. CASE Receive
  BY <1>1, <1>2, <1>7, StepReceive DEF PathInv
<1>8. CASE DrainCall \/ DrainCheck \/ DrainCopy \/ DrainAdvance
  <2>1. AnnounceInv' /\ EndInv'
    BY <1>8, QuietStep DEF DrainCall, ReadCall, DrainCheck, ReadCheck, DrainCopy, ReadCopy,
       ReadClear, DrainAdvance, ReadPublish, session, writer
  <2> QED BY <1>1, <1>2, <1>8, <2>1, StepDrain DEF PathInv
<1>9. CASE Drained
  <2>1. /\ UNCHANGED <<vars, events, open, posting, tot_len, tot_bytes_read, due>>
        /\ task = "drained" /\ task' = "wait"
    BY <1>9 DEF Drained
  <2>2. AnnounceInv' /\ EndInv'
    BY <2>1, QuietStep DEF vars, writer
  <2>3. DrainInv'
    BY <2>1 DEF PathInv, DrainInv, vars, reader
  <2> QED BY <1>1, <1>2, <2>2, <2>3 DEF PathInv
<1>10. CASE NextConnection
  <2>1. /\ wpc' = "idle" /\ rpc' = "idle" /\ ~posting' /\ open' /\ task' = "wait"
        /\ accepted' = accepted /\ Len(out') = accepted' /\ due' = accepted'
        /\ events' = <<>> /\ Len(events') = 0
    BY <1>10, DoneIsDrained DEF NextConnection, writer, reader
  <2>2. AnnounceInv'
    BY <1>3, <2>1 DEF AnnounceInv, Told, From
  <2>3. EndInv'
    BY <2>1 DEF EndInv
  <2>4. DrainInv'
    BY <1>3, <2>1 DEF DrainInv
  <2> QED BY <1>1, <1>2, <2>2, <2>3, <2>4 DEF PathInv
<1>11. CASE UNCHANGED pathVars
  <2>1. UNCHANGED <<vars, session>>
    BY <1>11 DEF pathVars
  <2>2. AnnounceInv' /\ EndInv'
    BY <2>1, QuietStep DEF vars, writer, session
  <2>3. DrainInv'
    BY <2>1, ReaderLeftAlone DEF vars, statics, session
  <2> QED BY <1>1, <1>2, <2>2, <2>3 DEF PathInv
<1> QED
  BY <1>4, <1>5, <1>6, <1>7, <1>8, <1>9, <1>10, <1>11 DEF PathNext, RecvCb, Https

-----------------------------------------------------------------------------
(* When no event is lost                                                   *)

LEMMA TimesMonotone ==
    ASSUME NEW m \in Nat \ {0}, NEW a \in Nat, NEW b \in Nat, m * a < m * b
    PROVE  a < b
<1> SUFFICES ASSUME b <= a PROVE FALSE
  OBVIOUS
<1>1. PICK d \in Nat : a = b + d
  BY a - b \in Nat
<1>2. m * a = m * b + m * d /\ m * d \in Nat /\ m * b \in Nat
  BY <1>1
<1> QED BY <1>2

LEMMA TimesAtMost ==
    ASSUME NEW m \in Nat \ {0}, NEW a \in Nat, NEW b \in Nat, a <= b
    PROVE  m * a <= m * b
<1>1. PICK d \in Nat : b = a + d
  BY b - a \in Nat
<1>2. m * b = m * a + m * d /\ m * d \in Nat /\ m * a \in Nat
  BY <1>1
<1> QED BY <1>2

\* Events about m bytes each, at the least, and those that are about none do not
\* fill the queue.
LEMMA RoomLeft ==
    ASSUME NEW m \in Nat \ {0}, FewChunks(m), PathInv, ChunkInv(m)
    PROVE  QueueHasRoom
<1> USE ConstantAssumption, QueueLenAssumption
<1> SUFFICES ASSUME open \/ posting PROVE Len(events) < QueueLen
  BY DEF QueueHasRoom
<1>1. /\ Len(events) \in Nat /\ w_len \in Nat /\ resp \in Nat /\ resp <= MaxResponse
      /\ stage \in Nat /\ MaxAcks \in Nat /\ stage <= MaxAcks + 1
  BY DEF PathInv, PathTypeOK, TypeOK, RingInv, CountInv
<1>2. m * Len(events) \in Nat /\ m * QueueLen \in Nat
  BY <1>1
<1>3. m * Len(events) <= resp + m * stage
  BY <1>1, <1>2 DEF ChunkInv
<1>4. m * stage <= m * (MaxAcks + 1)
  BY <1>1, TimesAtMost
<1>5. m * Len(events) < m * QueueLen
  <2>1. m * stage \in Nat /\ m * (MaxAcks + 1) \in Nat /\ MaxResponse \in Nat
    BY <1>1
  <2> QED BY <1>1, <1>2, <1>3, <1>4, <2>1 DEF FewChunks
<1> QED BY <1>1, <1>5, TimesMonotone

LEMMA InitChunk ==
    ASSUME NEW m \in Nat \ {0}
    PROVE  PathInit => ChunkInv(m)
<1> SUFFICES ASSUME PathInit PROVE ChunkInv(m)
  OBVIOUS
<1>1. Len(events) = 0 /\ m * 0 = 0 /\ resp = 0 /\ stage = 0 /\ wpc = "idle" /\ ~posting
  BY DEF PathInit, Init
<1> QED BY <1>1 DEF ChunkInv

\* A chunk is counted when it is stored, and becomes an event when it is told of.
LEMMA StepChunk ==
    ASSUME NEW m \in Nat \ {0}, FewChunks(m), PathInv, ChunkInv(m), QueueHasRoom,
           [PathNext]_pathVars
    PROVE  ChunkInv(m)'
<1> USE ConstantAssumption
<1>1. /\ events \in Seq(Events) /\ Len(events) \in Nat /\ w_len \in Nat /\ resp \in Nat
      /\ m * Len(events) \in Nat /\ open \in BOOLEAN /\ posting \in BOOLEAN
      /\ stage \in Nat /\ m * stage \in Nat
      /\ posting => wpc = "idle"
  BY QueueLenAssumption DEF PathInv, PathTypeOK, TypeOK, AnnounceInv
<1>2. ASSUME NEW len \in ChunkLens, RecvChunk(len) PROVE ChunkInv(m)'
  <2>1. w_len' = len /\ len >= m /\ ~posting /\ UNCHANGED <<events, open, stage, posting, resp>>
    BY <1>2 DEF RecvChunk, Offer, session, FewChunks
  <2> QED BY <1>1, <2>1 DEF ChunkInv
<1>3. CASE RecvAgain \/ RecvCopy
  <2>1. wpc # "idle" /\ ~posting /\ UNCHANGED <<w_len, resp, events, open, stage, posting>>
    BY <1>1, <1>3 DEF RecvAgain, Retry, RecvCopy, WriteLoad, WriteCheck, WriteCopy,
       WriteFinish, session
  <2> QED BY <1>1, <2>1 DEF ChunkInv
<1>4. CASE RecvStored
  <2>1. /\ wpc = "publish" /\ wpc' = "idle" /\ posting' = TRUE /\ ~posting /\ open
        /\ resp' = resp + w_len /\ UNCHANGED <<w_len, events, open, stage>>
    BY <1>1, <1>4 DEF RecvStored, WritePublish, PathInv, EndInv
  <2> QED BY <1>1, <2>1 DEF ChunkInv
<1>5. CASE RecvTell
  <2>1. /\ posting /\ posting' = FALSE /\ wpc' = "idle"
        /\ UNCHANGED <<w_len, resp, stage>> /\ Post("RX_DATA", w_len)
    BY <1>1, <1>5 DEF RecvTell, vars, writer
  <2>2. Len(events') = Len(events) + 1
    <3> DEFINE e == [status |-> "RX_DATA", len |-> w_len, upto |-> accepted]
    <3>1. events' = Append(events, e)
      BY <2>1, PostAppends
    <3> HIDE DEF e
    <3> QED BY <1>1, <3>1
  <2>3. w_len >= m /\ m * Len(events) + w_len <= resp + m * stage
    BY <1>1, <2>1 DEF ChunkInv
  <2>4. m * (Len(events) + 1) = m * Len(events) + m
    BY <1>1
  <2>5. m * Len(events') <= resp + m * stage
    BY <1>1, <2>2, <2>3, <2>4
  <2> QED BY <2>1, <2>5 DEF ChunkInv
<1>6. CASE RecvClose \/ Break
  <2>1. ~open' /\ ~posting' /\ wpc' = "idle"
    BY <1>1, <1>6 DEF RecvClose, Break, Drop, vars, writer
  <2> QED BY <2>1 DEF ChunkInv
<1>7. CASE Receive
  <2>1. /\ events # <<>> /\ events' = Tail(events)
        /\ UNCHANGED <<wpc, w_len, resp, open, stage, posting>>
    BY <1>7 DEF Receive, vars, writer
  <2>2. Len(events) > 0 /\ Len(events') = Len(events) - 1
    BY <1>1, <2>1
  <2>3. m * Len(events') <= m * Len(events) /\ m * Len(events') \in Nat
    <3>1. PICK n \in Nat : n = Len(events')
      BY <1>1, <2>2
    <3>2. m * (n + 1) = m * n + m /\ m * n \in Nat /\ Len(events) = n + 1
      BY <1>1, <2>2, <3>1
    <3> QED BY <3>1, <3>2
  <2> QED BY <1>1, <2>1, <2>3 DEF ChunkInv
<1>8. CASE DrainCall \/ DrainCheck \/ DrainCopy \/ DrainAdvance \/ Drained \/ UNCHANGED pathVars
  <2>1. UNCHANGED <<wpc, w_len, resp, events, open, stage, posting>>
    BY <1>8 DEF DrainCall, ReadCall, DrainCheck, ReadCheck, DrainCopy, ReadCopy, ReadClear,
       DrainAdvance, ReadPublish, Drained, pathVars, vars, session, writer
  <2> QED BY <2>1 DEF ChunkInv
<1>9. CASE NextConnection
  <2>1. /\ wpc' = "idle" /\ ~posting' /\ events' = <<>> /\ resp' = 0 /\ stage' = 0
    BY <1>9, DoneIsDrained DEF NextConnection, writer
  <2>2. Len(events') = 0 /\ m * 0 = 0
    BY <2>1
  <2> QED BY <2>1, <2>2 DEF ChunkInv
<1>10. CASE Connect \/ Sent
  <2>1. /\ open /\ ~posting /\ stage' = stage + 1
        /\ UNCHANGED <<wpc, w_len, resp, open, posting>>
    BY <1>10 DEF Connect, Sent, vars, writer
  <2>2. PICK st \in Notes : Post(st, 0)
    BY <1>10 DEF Connect, Sent, Notes
  <2>3. Len(events') = Len(events) + 1
    <3> DEFINE e == [status |-> st, len |-> 0, upto |-> accepted]
    <3>1. events' = Append(events, e)
      BY <2>1, <2>2, PostAppends
    <3> HIDE DEF e
    <3> QED BY <1>1, <3>1
  <2>4. m * Len(events) <= resp + m * stage
    BY <1>1, <2>1 DEF ChunkInv
  <2>5. m * (Len(events) + 1) = m * Len(events) + m /\ m * (stage + 1) = m * stage + m
    BY <1>1
  <2>6. m * Len(events') <= resp + m * stage'
    BY <1>1, <2>1, <2>3, <2>4, <2>5
  <2> QED BY <2>1, <2>6 DEF ChunkInv
<1> QED
  BY <1>2, <1>3, <1>4, <1>5, <1>6, <1>7, <1>8, <1>9, <1>10 DEF PathNext, RecvCb, Https

-----------------------------------------------------------------------------
(* What follows: as long as no event is lost                               *)

\* The inductive invariant of the receive path, as long as no event is lost.
THEOREM PathCorrect ==
    ASSUME ShortResponses
    PROVE  PathSpec /\ []QueueHasRoom => []PathInv
BY InitPath, StepPath, PTL DEF PathSpec

\* altcp_recv_cb and https_task keep to the ring's module: nothing of one
\* connection is in the ring when the next begins, though nothing resets it and
\* connections break.
THEOREM PathUsesRing ==
    ASSUME ShortResponses
    PROVE  PathSpec /\ []QueueHasRoom => RingSpec
<1>1. PathInit => Init
  BY DEF PathInit
<1>2. PathInv /\ [PathNext]_pathVars => [Next]_vars
  BY PathStepRing
<1> QED BY <1>1, <1>2, PathCorrect, PTL DEF PathSpec, RingSpec, Spec

LEMMA InvNoByteStranded == PathInv => NoStrandedByte
BY DoneIsDrained DEF PathInv, DrainInv, NoStrandedByte

\* Every byte announced to the HTTPS task is read by the time the event has been
\* handled, and every byte of a response by its end, as long as no event is lost.
THEOREM NoByteStranded ==
    ASSUME ShortResponses
    PROVE  PathSpec /\ []QueueHasRoom => []NoStrandedByte
BY InvNoByteStranded, PathCorrect, PTL

-----------------------------------------------------------------------------
(* What follows: from the constants alone                                  *)

\* No event is lost, and with that the whole invariant holds, when a response is
\* shorter than the ring, and the queue, whose events nobody looks to have found a
\* place, has one for HTTPS_CONNECTED, for each acknowledgement, for the end of the
\* connection and for every m bytes of the response, m being the least length of a
\* chunk.
THEOREM QueueSuffices ==
    ASSUME ShortResponses, NEW m \in Nat \ {0}, FewChunks(m)
    PROVE  PathSpec => [](QueueHasRoom /\ PathInv)
<1> DEFINE Inv == PathInv /\ ChunkInv(m)
<1>1. PathInit => Inv
  BY InitPath, InitChunk
<1>2. Inv /\ [PathNext]_pathVars => Inv'
  BY RoomLeft, StepPath, StepChunk
<1>3. Inv => QueueHasRoom /\ PathInv
  BY RoomLeft
<1> QED BY <1>1, <1>2, <1>3, PTL DEF PathSpec

\* From the server to the console: response after response, the bytes come out
\* as they were accepted, each once and in order, all of them by the end of their
\* connection, and the ring is used as its module assumes, when the queue suffices.
THEOREM PathIsFifo ==
    ASSUME ShortResponses, NEW m \in Nat \ {0}, FewChunks(m)
    PROVE  PathSpec => FifoSpec /\ RingSpec /\ []NoStrandedByte
BY QueueSuffices, PathUsesRing, RingIsFifo, NoByteStranded, PTL DEF RingSpec

\* At rest nothing is in the ring, and an empty ring, whatever its indices, refuses
\* no chunk that the response may still bring.
THEOREM RestAccepts ==
    ASSUME ShortResponses, NEW m \in Nat \ {0}, FewChunks(m)
    PROVE  PathSpec => []NoRefusalAtRest
<1>1. PathInv => NoRefusalAtRest
  <2> SUFFICES ASSUME PathInv, task = "wait", events = <<>>, open, ~posting,
                      NEW len \in ChunkLens, resp + len <= MaxResponse
               PROVE  ~Refuses(len, read_idx, write_idx, is_full)
    BY DEF NoRefusalAtRest
  <2> USE ConstantAssumption
  <2>1. due = accepted
    BY DEF PathInv, AnnounceInv, Told, From
  <2>2. /\ rpc = "idle" /\ Len(out) = accepted
    BY <2>1 DEF PathInv, DrainInv, RingInv, DeliveredInOrder, TypeOK
  <2>3. InRing = 0
    BY <2>2 DEF InRing, Published, PathInv, RingInv, TypeOK
  <2>4. ~is_full /\ write_idx = read_idx
    BY <2>3 DEF PathInv, RingInv, CountInv, TypeOK, Index, Dist
  <2>5. len < CIRC_BUFF_SZ
    BY DEF ShortResponses, PathInv, RingInv, TypeOK
  <2>6. read_idx \in Nat
    BY DEF PathInv, RingInv, TypeOK, Index
  <2> QED BY <2>4, <2>5, <2>6 DEF Refuses
<1> QED BY <1>1, QueueSuffices, PTL
=============================================================================
