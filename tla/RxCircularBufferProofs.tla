----------------------- MODULE RxCircularBufferProofs -----------------------
(***************************************************************************)
(* Theorems about src/rx_circular_buffer.c, for every size of the ring,    *)
(* every set of chunk and read sizes and every length of stream: the types *)
(* always hold, and, while a response is shorter than the ring, the ring   *)
(* is a first-in first-out stream (RxFifo) in every interleaving of its    *)
(* two threads, though its room test is made on the wrong number.          *)
(***************************************************************************)
EXTENDS RxCircularBuffer, TLAPS

-----------------------------------------------------------------------------
(* Ring arithmetic                                                         *)

\* A number taken modulo the size is an index.
LEMMA ModIndex ==
    ASSUME NEW x \in Nat
    PROVE  x % CIRC_BUFF_SZ \in Index
BY ConstantAssumption DEF Index

\* Going forward from an index by at most one turn.
LEMMA ModPlus ==
    ASSUME NEW a \in Index, NEW k \in 0 .. CIRC_BUFF_SZ
    PROVE  (a + k) % CIRC_BUFF_SZ = Plus(a, k)
<1>1. CASE a + k < CIRC_BUFF_SZ
  BY <1>1, ConstantAssumption DEF Index, Plus
<1>2. CASE ~(a + k < CIRC_BUFF_SZ)
  BY <1>2, ConstantAssumption DEF Index, Plus
<1> QED BY <1>1, <1>2

\* The expression with which the code counts the cells between two indices.
LEMMA ModDist ==
    ASSUME NEW a \in Index, NEW b \in Index
    PROVE  (b + CIRC_BUFF_SZ - a) % CIRC_BUFF_SZ = Dist(a, b)
<1>1. CASE a <= b
  BY <1>1, ConstantAssumption DEF Index, Dist
<1>2. CASE ~(a <= b)
  BY <1>2, ConstantAssumption DEF Index, Dist
<1> QED BY <1>1, <1>2

\* What Plus and Dist yield, and how they cancel.
LEMMA PlusDist ==
    /\ \A a, k \in Index : Plus(a, k) \in Index
    /\ \A a, b \in Index : Dist(a, b) \in Index
    /\ \A a, k \in Index : Dist(a, Plus(a, k)) = k
    /\ \A a, b \in Index : Plus(a, Dist(a, b)) = b
BY ConstantAssumption DEF Index, Plus, Dist

\* Two steps forward are one step of their sum, short of a whole turn.
LEMMA PlusPlus ==
    ASSUME NEW a \in Index, NEW j \in Index, NEW k \in Index,
           j + k < CIRC_BUFF_SZ
    PROVE  Plus(Plus(a, j), k) = Plus(a, j + k)
BY ConstantAssumption DEF Index, Plus

\* Different distances lead to different cells.
LEMMA PlusInjective ==
    ASSUME NEW a \in Index, NEW j \in Index, NEW k \in Index,
           Plus(a, j) = Plus(a, k)
    PROVE  j = k
BY ConstantAssumption DEF Index, Plus

-----------------------------------------------------------------------------
(* Types                                                                   *)

LEMMA InitType == Init => TypeOK
<1> SUFFICES ASSUME Init PROVE TypeOK
  OBVIOUS
<1>1. rx_buffer \in [Index -> Nat]
  BY DEF Init
<1>2. 0 \in Index
  BY ConstantAssumption DEF Index
<1>3. out \in Seq(Nat)
  BY DEF Init
<1> QED BY <1>1, <1>2, <1>3 DEF Init, TypeOK

LEMMA StepType == TypeOK /\ [Next]_vars => TypeOK'
<1> SUFFICES ASSUME TypeOK, [Next]_vars PROVE TypeOK'
  OBVIOUS
<1> USE ConstantAssumption DEF TypeOK
<1>1. ASSUME NEW len \in ChunkLens, Offer(len) PROVE TypeOK'
  BY <1>1 DEF Offer, statics, reader
<1>2. CASE Retry \/ Drop
  BY <1>2 DEF Retry, Drop, statics, reader
<1>3. CASE WriteLoad
  BY <1>3 DEF WriteLoad, statics, reader
<1>4. CASE WriteCheck
  BY <1>4 DEF WriteCheck, statics, reader
<1>5. CASE WriteCopy
  <2>1. w_w + w_i \in Nat /\ accepted + w_i + 1 \in Nat
    BY DEF Index
  <2>2. WriteCell \in Index
    BY <2>1, ModIndex DEF WriteCell
  <2>3. rx_buffer' \in [Index -> Nat]
    BY <1>5, <2>1, <2>2 DEF WriteCopy
  <2> QED BY <1>5, <2>3 DEF WriteCopy, reader
<1>6. CASE WriteFinish
  BY <1>6 DEF WriteFinish, reader
<1>7. CASE WritePublish
  <2>1. w_w + w_len \in Nat
    BY DEF Index
  <2>2. EndIdx \in Index
    BY <2>1, ModIndex DEF EndIdx
  <2> QED BY <1>7, <2>2 DEF WritePublish, reader
<1>8. ASSUME NEW plen \in ReadSizes, ReadCall(plen) PROVE TypeOK'
  BY <1>8 DEF ReadCall, statics, writer
<1>9. CASE ReadCheck
  <2>1. Available \in Nat
    BY ModIndex DEF Available, Index
  <2> QED BY <1>9, <2>1 DEF ReadCheck, statics, writer
<1>10. CASE ReadCopy
  <2>1. (r_r + 1) % CIRC_BUFF_SZ \in Index
    <3>1. r_r + 1 \in Nat
      BY DEF Index
    <3> QED BY <3>1, ModIndex
  <2>2. rx_buffer[r_r] \in Nat
    BY DEF TypeOK
  <2> QED BY <1>10, <2>1, <2>2 DEF ReadCopy, statics, writer
<1>11. CASE ReadClear
  BY <1>11 DEF ReadClear, writer
<1>12. CASE ReadPublish
  BY <1>12 DEF ReadPublish, writer
<1>13. CASE NewResponse
  BY <1>13 DEF NewResponse, statics, writer, reader
<1>14. CASE UNCHANGED vars
  BY <1>14 DEF vars, statics, writer, reader
<1> QED
  BY <1>1, <1>2, <1>3, <1>4, <1>5, <1>6, <1>7, <1>8, <1>9, <1>10, <1>11,
     <1>12, <1>13, <1>14 DEF Next, Write, Read

\* The types hold under any traffic: in particular the indices never leave the
\* ring, whatever the threads do to each other.
THEOREM TypeCorrect == Spec => []TypeOK
BY InitType, StepType, PTL DEF Spec

-----------------------------------------------------------------------------
(* The inductive invariant, for responses shorter than the ring            *)

LEMMA InitRing == Init => RingInv
<1> SUFFICES ASSUME Init PROVE RingInv
  OBVIOUS
<1>1. TypeOK
  BY InitType
<1>2. CountInv
  <2>1. Published = 0 /\ InRing = 0
    <3>1. Len(out) = 0
      BY DEF Init
    <3>2. Published = 0
      BY <3>1 DEF Init, Published
    <3> QED BY <3>2 DEF Init, InRing
  <2>2. ~is_full
    BY DEF Init
  <2> QED BY <2>1, <2>2, ConstantAssumption DEF Init, CountInv, Dist
<1>3. ContentInv
  BY DEF Init, ContentInv, Published, InRing, Index
<1>4. WriterInv /\ ReaderInv
  BY DEF Init, WriterInv, ReaderInv
<1>5. DeliveredInOrder
  BY DEF Init, DeliveredInOrder
<1> QED BY <1>1, <1>2, <1>3, <1>4, <1>5 DEF RingInv

\* A writer that is copying is at the end of the unread bytes, and the ring
\* has room for its chunk after them.
LEMMA RoomForChunk ==
    ASSUME ShortResponses, RingInv, wpc \in {"copy", "publish"}
    PROVE  /\ InRing \in Nat
           /\ w_len \in Nat \ {0}
           /\ InRing + w_len < CIRC_BUFF_SZ
           /\ w_len \in Index /\ InRing \in Index
           /\ write_idx = Plus(read_idx, InRing)
<1> USE ConstantAssumption
<1>1. InRing \in 0 .. resp /\ resp + w_len <= MaxResponse /\ 0 < w_len
  BY DEF RingInv, CountInv, WriterInv
<1>2. resp \in Nat /\ w_len \in Nat
  BY DEF RingInv, TypeOK
<1>3. InRing + w_len < CIRC_BUFF_SZ
  BY <1>1, <1>2 DEF ShortResponses
<1>4. write_idx = Plus(read_idx, InRing)
  BY PlusDist DEF RingInv, CountInv, TypeOK
<1> QED BY <1>1, <1>2, <1>3, <1>4 DEF Index

\* The cell a copying writer stores into is beyond the unread bytes.
LEMMA WriteCellAhead ==
    ASSUME ShortResponses, RingInv, wpc = "copy", w_i < w_len
    PROVE  /\ w_i \in Index /\ InRing \in Index /\ InRing + w_i \in Index
           /\ WriteCell = Plus(w_w, w_i)
           /\ WriteCell = Plus(read_idx, InRing + w_i)
<1> USE ConstantAssumption
<1>1. w_i \in Nat /\ w_w \in Index /\ w_w = write_idx /\ read_idx \in Index
  BY DEF RingInv, TypeOK, WriterInv
<1>2. /\ InRing \in Index /\ w_len \in Nat /\ InRing + w_len < CIRC_BUFF_SZ
      /\ w_w = Plus(read_idx, InRing)
  BY <1>1, RoomForChunk
<1>3. w_i \in Index /\ InRing + w_i \in Index /\ InRing + w_i < CIRC_BUFF_SZ
  BY <1>1, <1>2 DEF Index
<1>4. WriteCell = Plus(w_w, w_i)
  BY <1>1, <1>3, ModPlus DEF WriteCell, Index
<1> QED BY <1>1, <1>2, <1>3, <1>4, PlusPlus

LEMMA WriteCopyRing ==
    ASSUME ShortResponses, RingInv, WriteCopy, TypeOK'
    PROVE  RingInv'
<1> USE ConstantAssumption
<1>1. /\ w_i \in Index /\ w_w \in Index /\ w_w = write_idx
      /\ w_i < w_len /\ accepted \in Nat
  <2>1. wpc = "copy" /\ w_i < w_len
    BY DEF WriteCopy
  <2>2. w_i \in Nat /\ w_w \in Index /\ w_w = write_idx /\ accepted \in Nat
    BY <2>1 DEF RingInv, TypeOK, WriterInv
  <2>3. w_i \in Index
    BY <2>1, WriteCellAhead
  <2> QED BY <2>1, <2>2, <2>3
<1>2. WriteCell = Plus(w_w, w_i)
  BY WriteCellAhead DEF WriteCopy
<1>3. WriteCell \in Index
  BY <1>1, <1>2, PlusDist
<1>4. /\ UNCHANGED <<Published, InRing, read_idx, write_idx, is_full, resp>>
      /\ UNCHANGED <<wpc, w_len, w_r, w_w, accepted, out>>
      /\ UNCHANGED <<rpc, r_plen, r_r, r_w, r_n, r_i>>
  BY DEF WriteCopy, reader, Published, InRing
<1>5. CountInv'
  BY <1>4 DEF RingInv, CountInv, Dist
<1>6. ContentInv'
  <2> SUFFICES ASSUME NEW k \in Index, k < InRing
               PROVE  rx_buffer'[Plus(read_idx, k)] = Published + k + 1
    BY <1>4 DEF ContentInv, Plus
  <2>1. k # InRing + w_i
    BY <1>1, RoomForChunk DEF WriteCopy, Index
  <2>2. Plus(read_idx, k) # WriteCell
    <3>1. InRing + w_i \in Index /\ WriteCell = Plus(read_idx, InRing + w_i)
      BY WriteCellAhead DEF WriteCopy
    <3> QED BY <2>1, <3>1, PlusInjective DEF RingInv, TypeOK
  <2>3. Plus(read_idx, k) \in Index
    BY PlusDist DEF RingInv, TypeOK
  <2> QED BY <1>3, <2>2, <2>3 DEF WriteCopy, RingInv, TypeOK, ContentInv
<1>7. WriterInv'
  <2>1. ASSUME NEW k \in Index, k < w_i + 1
        PROVE  rx_buffer'[Plus(w_w, k)] = accepted + k + 1
    <3>1. CASE k = w_i
      BY <1>1, <1>2, <1>3, <3>1 DEF WriteCopy, RingInv, TypeOK
    <3>2. CASE k # w_i
      <4>1. k < w_i
        BY <1>1, <2>1, <3>2 DEF Index
      <4>2. Plus(w_w, k) # WriteCell /\ Plus(w_w, k) \in Index
        BY <1>1, <1>2, <3>2, PlusInjective, PlusDist
      <4> QED BY <1>3, <4>1, <4>2 DEF WriteCopy, RingInv, TypeOK, WriterInv
    <3> QED BY <3>1, <3>2
  <2>2. w_i' = w_i + 1 /\ w_i' <= w_len /\ wpc = "copy"
    BY <1>1 DEF WriteCopy, RingInv, TypeOK, Index
  <2> QED BY <1>4, <2>1, <2>2 DEF WriterInv, RingInv, Dist, Plus
<1>8. ReaderInv'
  BY <1>4 DEF RingInv, ReaderInv, Dist, Plus
<1>9. DeliveredInOrder'
  BY <1>4 DEF RingInv, DeliveredInOrder
<1> QED BY <1>5, <1>6, <1>7, <1>8, <1>9 DEF RingInv

LEMMA WriteFinishRing ==
    ASSUME ShortResponses, RingInv, WriteFinish, TypeOK'
    PROVE  RingInv'
<1> USE ConstantAssumption
<1>1. /\ w_len \in Index /\ w_len # 0 /\ w_len + Dist(w_r, w_w) < CIRC_BUFF_SZ
      /\ w_r \in Index /\ w_w \in Index /\ w_i = w_len
  <2>1. /\ resp + w_len <= MaxResponse /\ Dist(w_r, w_w) <= resp
        /\ w_r \in Index /\ w_w \in Index /\ resp \in Nat
    BY DEF WriteFinish, RingInv, WriterInv, TypeOK
  <2>2. Dist(w_r, w_w) \in Index
    BY <2>1, PlusDist
  <2>3. w_len \in Index /\ w_len # 0 /\ w_i = w_len
    BY RoomForChunk DEF WriteFinish, Index
  <2> QED BY <2>1, <2>2, <2>3 DEF ShortResponses, Index
<1>2. EndIdx = Plus(w_w, w_len)
  BY <1>1, ModPlus DEF EndIdx, Index
<1>3. (EndIdx + CIRC_BUFF_SZ - w_w) % CIRC_BUFF_SZ = w_len
  BY <1>1, <1>2, ModDist, PlusDist
<1>4. EndIdx # w_r
  BY <1>1, <1>2 DEF Index, Plus, Dist
<1>5. wpc' = "publish" /\ is_full' = is_full
  <2>1. wpc' = "publish" /\ is_full' = (is_full \/ EndIdx = w_r)
    BY <1>3, Zenon DEF WriteFinish
  <2>2. is_full \in BOOLEAN
    BY DEF RingInv, TypeOK
  <2> QED BY <1>4, <2>1, <2>2, Zenon
<1>6. /\ UNCHANGED <<Published, InRing, rx_buffer, read_idx, write_idx, resp>>
      /\ UNCHANGED <<w_len, w_r, w_w, w_i, accepted, out>>
      /\ UNCHANGED <<rpc, r_plen, r_r, r_w, r_n, r_i>>
  BY DEF WriteFinish, reader, Published, InRing
<1>7. CountInv'
  BY <1>5, <1>6 DEF RingInv, CountInv, Dist
<1>8. ContentInv'
  BY <1>6 DEF RingInv, ContentInv, Plus
<1>9. WriterInv'
  BY <1>1, <1>5, <1>6 DEF WriteFinish, RingInv, WriterInv, Dist, Plus
<1>10. ReaderInv'
  BY <1>6 DEF RingInv, ReaderInv, Dist, Plus
<1>11. DeliveredInOrder'
  BY <1>6 DEF RingInv, DeliveredInOrder
<1> QED BY <1>7, <1>8, <1>9, <1>10, <1>11 DEF RingInv

LEMMA WritePublishRing ==
    ASSUME ShortResponses, RingInv, WritePublish, TypeOK'
    PROVE  RingInv'
<1> USE ConstantAssumption
<1>1. /\ InRing \in Nat /\ w_len \in Nat \ {0} /\ InRing + w_len < CIRC_BUFF_SZ
      /\ w_len \in Index /\ InRing \in Index
      /\ write_idx = Plus(read_idx, InRing)
  BY RoomForChunk DEF WritePublish
<1>2. /\ read_idx \in Index /\ w_w \in Index /\ w_w = write_idx /\ w_i = w_len
      /\ accepted \in Nat /\ resp \in Nat /\ resp + w_len <= MaxResponse
      /\ Published \in Nat /\ InRing <= resp /\ ~is_full
  BY DEF WritePublish, RingInv, TypeOK, WriterInv, CountInv
<1>3. InRing + w_len \in Index
  BY <1>1 DEF Index
<1>4. write_idx' = Plus(read_idx, InRing + w_len)
  <2>1. EndIdx = Plus(w_w, w_len)
    BY <1>1, <1>2, ModPlus DEF EndIdx, Index
  <2> QED BY <1>1, <1>2, <2>1, PlusPlus DEF WritePublish
<1>5. /\ UNCHANGED <<Published, rx_buffer, read_idx, is_full, out>>
      /\ UNCHANGED <<rpc, r_plen, r_r, r_w, r_n, r_i>>
      /\ accepted' = accepted + w_len /\ resp' = resp + w_len /\ wpc' = "idle"
  BY DEF WritePublish, reader, Published
<1>6. accepted = Published + InRing
  BY <1>1, <1>2 DEF InRing
<1>7. InRing' = InRing + w_len
  BY <1>1, <1>2, <1>5 DEF InRing
<1>8. CountInv'
  <2>1. Dist(read_idx, write_idx') = InRing + w_len
    BY <1>2, <1>3, <1>4, PlusDist
  <2>2. Dist(read_idx, write_idx)' = InRing'
    BY <1>5, <1>7, <2>1 DEF Dist
  <2>3. Published' \in Nat /\ InRing' \in 0 .. resp' /\ resp' <= MaxResponse
    BY <1>1, <1>2, <1>5, <1>7
  <2> QED BY <1>2, <1>5, <2>2, <2>3 DEF CountInv
<1>9. ContentInv'
  <2> SUFFICES ASSUME NEW k \in Index, k < InRing + w_len
               PROVE  rx_buffer[Plus(read_idx, k)] = Published + k + 1
    BY <1>5, <1>7 DEF ContentInv, Plus
  <2>1. CASE k < InRing
    BY <2>1 DEF RingInv, ContentInv
  <2>2. CASE ~(k < InRing)
    <3>1. k - InRing \in Index /\ k - InRing < w_i
      BY <1>1, <1>2, <2>2 DEF Index
    <3>2. rx_buffer[Plus(w_w, k - InRing)] = accepted + (k - InRing) + 1
      BY <3>1 DEF RingInv, WriterInv, WritePublish
    <3>3. Plus(w_w, k - InRing) = Plus(read_idx, InRing + (k - InRing))
      BY <1>1, <1>2, <3>1, PlusPlus DEF Index
    <3>4. InRing + (k - InRing) = k /\ accepted + (k - InRing) + 1 = Published + k + 1
      BY <1>1, <1>2, <1>6 DEF Index
    <3> QED BY <3>2, <3>3, <3>4
  <2> QED BY <2>1, <2>2
<1>10. WriterInv'
  BY <1>5 DEF WriterInv
<1>11. ReaderInv'
  <2>1. InRing <= InRing'
    BY <1>1, <1>7
  <2>2. ReaderInv /\ r_n \in Nat /\ Dist(r_r, r_w) \in Nat
    <3>1. r_r \in Index /\ r_w \in Index /\ r_n \in Nat /\ ReaderInv
      BY DEF RingInv, TypeOK
    <3> QED BY <3>1, PlusDist DEF Index
  <2> QED BY <1>1, <1>5, <1>7, <2>1, <2>2 DEF ReaderInv, Dist, Plus
<1>12. DeliveredInOrder'
  <2>1. Len(out) \in Nat
    BY DEF RingInv, TypeOK
  <2> QED BY <1>1, <1>2, <1>5, <2>1 DEF RingInv, DeliveredInOrder
<1> QED BY <1>8, <1>9, <1>10, <1>11, <1>12 DEF RingInv

LEMMA ReadCheckRing ==
    ASSUME ShortResponses, RingInv, ReadCheck, TypeOK'
    PROVE  RingInv'
<1> USE ConstantAssumption
<1>1. /\ rpc = "check" /\ r_r = read_idx /\ Dist(r_r, r_w) <= InRing
      /\ r_r \in Index /\ r_w \in Index /\ Len(out) \in Nat /\ r_plen \in Nat
      /\ ~is_full /\ Published = Len(out) /\ InRing \in Nat
  BY DEF RingInv, ReadCheck, ReaderInv, TypeOK, CountInv, Published
<1>2. /\ UNCHANGED <<rx_buffer, read_idx, write_idx, is_full, accepted, out, resp>>
      /\ UNCHANGED <<wpc, w_len, w_r, w_w, w_i, r_plen, r_r, r_w>>
  BY DEF ReadCheck, statics, writer
<1>3. rpc' = "idle" \/ (rpc' = "copy" /\ r_i' = 0 /\ r_n' \in Nat /\ r_n' <= InRing)
  <2>1. CASE NothingToRead
    BY <2>1 DEF ReadCheck
  <2>2. CASE ~NothingToRead
    <3>1. r_r # r_w
      BY <1>1, <2>2 DEF NothingToRead
    <3>2. Available = Dist(r_r, r_w)
      BY <1>1, <3>1, ModDist DEF Available
    <3>3. Dist(r_r, r_w) \in Nat
      BY <1>1, PlusDist DEF Index
    <3> QED BY <1>1, <2>2, <3>2, <3>3 DEF ReadCheck
  <2> QED BY <2>1, <2>2
<1>4. Published' = Published /\ InRing' = InRing
  <2>1. Published' = Len(out)
    BY <1>1, <1>2, <1>3 DEF Published
  <2> QED BY <1>1, <1>2, <2>1 DEF InRing
<1>5. CountInv'
  BY <1>2, <1>4 DEF RingInv, CountInv, Dist
<1>6. ContentInv'
  BY <1>2, <1>4 DEF RingInv, ContentInv, Plus
<1>7. WriterInv'
  BY <1>2 DEF RingInv, WriterInv, Dist, Plus
<1>8. ReaderInv'
  <2>1. Plus(read_idx, 0) = read_idx
    BY <1>1 DEF Plus, Index
  <2>2. CASE rpc' = "idle"
    BY <2>2 DEF ReaderInv
  <2>3. CASE rpc' # "idle"
    BY <1>1, <1>2, <1>3, <1>4, <2>1, <2>3 DEF ReaderInv, Plus
  <2> QED BY <2>2, <2>3
<1>9. DeliveredInOrder'
  BY <1>2 DEF RingInv, DeliveredInOrder
<1> QED BY <1>5, <1>6, <1>7, <1>8, <1>9 DEF RingInv

\* What a copying reader takes is the next byte of the stream.
LEMMA NextByte ==
    ASSUME RingInv, ReadCopy
    PROVE  /\ rx_buffer[r_r] = Len(out) + 1
           /\ Len(out) < accepted
<1> USE ConstantAssumption
<1>1. /\ r_i \in Nat /\ r_i < r_n /\ r_n <= InRing /\ r_n \in Nat
      /\ r_r = Plus(read_idx, r_i) /\ Len(out) \in Nat /\ accepted \in Nat
      /\ Published = Len(out) - r_i /\ Published \in Nat
      /\ InRing \in 0 .. resp /\ resp \in Nat
      /\ Dist(read_idx, write_idx) = InRing
  BY DEF RingInv, ReadCopy, ReaderInv, TypeOK, CountInv, Published
<1>2. InRing \in Index /\ r_i \in Index
  <2>1. InRing \in Index
    BY <1>1, PlusDist DEF RingInv, TypeOK
  <2> QED BY <1>1, <2>1 DEF Index
<1>3. r_i < InRing
  BY <1>1
<1>4. rx_buffer[r_r] = Published + r_i + 1
  BY <1>1, <1>2, <1>3 DEF RingInv, ContentInv
<1>5. InRing = accepted - Published
  BY DEF InRing
<1> QED BY <1>1, <1>3, <1>4, <1>5

LEMMA ReadCopyRing ==
    ASSUME ShortResponses, RingInv, ReadCopy, TypeOK'
    PROVE  RingInv'
<1> USE ConstantAssumption
<1>1. /\ r_i \in Nat /\ r_i < r_n /\ r_n <= InRing /\ r_n \in Nat
      /\ r_r = Plus(read_idx, r_i) /\ Len(out) \in Nat /\ accepted \in Nat
      /\ rpc = "copy" /\ Published = Len(out) - r_i /\ read_idx \in Index
      /\ InRing \in Nat /\ InRing <= MaxResponse /\ out \in Seq(Nat)
      /\ rx_buffer[r_r] \in Nat
  <2>1. rx_buffer[r_r] \in Nat
    BY DEF RingInv, TypeOK
  <2>2. /\ r_i < r_n /\ rpc = "copy" /\ r_n <= InRing
        /\ r_r = Plus(read_idx, r_i) /\ Published = Len(out) - r_i
    BY DEF RingInv, ReadCopy, ReaderInv, Published
  <2>3. /\ r_i \in Nat /\ r_n \in Nat /\ accepted \in Nat
        /\ read_idx \in Index /\ out \in Seq(Nat) /\ resp \in Nat
    BY DEF RingInv, TypeOK
  <2>4. InRing \in 0 .. resp /\ resp <= MaxResponse
    BY DEF RingInv, CountInv
  <2> QED BY <2>1, <2>2, <2>3, <2>4
<1>2. /\ UNCHANGED <<rx_buffer, read_idx, write_idx, is_full, accepted, resp>>
      /\ UNCHANGED <<wpc, w_len, w_r, w_w, w_i, rpc, r_plen, r_w, r_n>>
      /\ r_i' = r_i + 1
  BY DEF ReadCopy, statics, writer
<1>3. out' = Append(out, Len(out) + 1) /\ Len(out') = Len(out) + 1
  BY <1>1, NextByte DEF ReadCopy
<1>4. Published' = Published /\ InRing' = InRing
  <2>1. Published' = Len(out') - r_i'
    BY <1>1, <1>2 DEF Published
  <2>2. Published' = Published
    BY <1>1, <1>2, <1>3, <2>1
  <2> QED BY <1>2, <2>2 DEF InRing
<1>5. CountInv'
  BY <1>2, <1>4 DEF RingInv, CountInv, Dist
<1>6. ContentInv'
  BY <1>2, <1>4 DEF RingInv, ContentInv, Plus
<1>7. WriterInv'
  BY <1>2 DEF RingInv, WriterInv, Dist, Plus
<1>8. ReaderInv'
  <2>1. r_i + 1 < CIRC_BUFF_SZ
    BY <1>1 DEF ShortResponses
  <2>2. r_r' = Plus(r_r, 1)
    <3>1. r_r \in Index
      BY DEF RingInv, TypeOK
    <3> QED BY <3>1, ModPlus DEF ReadCopy
  <2>3. Plus(r_r, 1) = Plus(read_idx, r_i + 1)
    BY <1>1, <2>1, PlusPlus DEF Index
  <2>4. r_r' = Plus(read_idx, r_i)'
    BY <1>2, <2>2, <2>3 DEF Plus
  <2> QED BY <1>1, <1>2, <1>4, <2>4 DEF ReaderInv
<1>9. DeliveredInOrder'
  <2>1. Len(out') <= accepted
    BY <1>1, <1>3, NextByte
  <2>2. ASSUME NEW i \in 1 .. Len(out') PROVE out'[i] = i
    <3>1. CASE i = Len(out) + 1
      BY <1>1, <1>3, <3>1
    <3>2. CASE i # Len(out) + 1
      <4>1. i \in 1 .. Len(out)
        BY <1>1, <1>3, <3>2
      <4>2. out'[i] = out[i]
        BY <1>1, <1>3, <4>1
      <4> QED BY <4>1, <4>2 DEF RingInv, DeliveredInOrder
    <3> QED BY <3>1, <3>2
  <2> QED BY <1>2, <2>1, <2>2 DEF DeliveredInOrder
<1> QED BY <1>5, <1>6, <1>7, <1>8, <1>9 DEF RingInv

LEMMA ReadPublishRing ==
    ASSUME ShortResponses, RingInv, ReadPublish, TypeOK'
    PROVE  RingInv'
<1> USE ConstantAssumption
<1>1. /\ r_i = r_n /\ r_n <= InRing /\ r_n \in Nat
      /\ r_r = Plus(read_idx, r_i) /\ Len(out) \in Nat /\ accepted \in Nat
      /\ Published = Len(out) - r_i /\ Published \in Nat
      /\ read_idx \in Index /\ write_idx \in Index
      /\ InRing \in 0 .. resp /\ resp \in Nat /\ resp <= MaxResponse
      /\ Dist(read_idx, write_idx) = InRing /\ InRing = accepted - Published
  BY DEF RingInv, ReadPublish, ReaderInv, TypeOK, CountInv, Published, InRing
<1>2. /\ UNCHANGED <<rx_buffer, write_idx, is_full, accepted, out, resp>>
      /\ UNCHANGED <<wpc, w_len, w_r, w_w, w_i>>
      /\ rpc' = "idle" /\ read_idx' = Plus(read_idx, r_n)
  BY <1>1 DEF ReadPublish, writer
<1>3. Published' = Published + r_n
  <2>1. Published' = Len(out)
    BY <1>2 DEF Published
  <2> QED BY <1>1, <2>1
<1>4. InRing' = InRing - r_n
  BY <1>1, <1>2, <1>3 DEF InRing
<1>5. InRing \in Index /\ r_n \in Index /\ InRing - r_n \in Index
  <2>1. InRing \in Index
    BY <1>1, PlusDist
  <2> QED BY <1>1, <2>1 DEF Index
<1>6. CountInv'
  <2>1. write_idx = Plus(read_idx, r_n + (InRing - r_n))
    BY <1>1, <1>5, PlusDist DEF Index
  <2>2. write_idx = Plus(read_idx', InRing - r_n)
    BY <1>1, <1>2, <1>5, <2>1, PlusPlus DEF Index
  <2>3. Dist(read_idx', write_idx) = InRing - r_n
    BY <1>1, <1>2, <1>5, <2>2, PlusDist
  <2>4. Dist(read_idx, write_idx)' = InRing'
    BY <1>2, <1>4, <2>3 DEF Dist
  <2>5. Published' \in Nat /\ InRing' \in 0 .. resp
    BY <1>1, <1>3, <1>4
  <2> QED BY <1>1, <1>2, <2>4, <2>5 DEF RingInv, CountInv
<1>7. ContentInv'
  <2> SUFFICES ASSUME NEW k \in Index, k < InRing - r_n
               PROVE  rx_buffer[Plus(read_idx', k)] = Published + r_n + k + 1
    BY <1>2, <1>3, <1>4 DEF ContentInv, Plus
  <2>1. r_n + k \in Index /\ r_n + k < InRing /\ r_n + k < CIRC_BUFF_SZ
    BY <1>1, <1>5 DEF Index
  <2>2. Plus(read_idx', k) = Plus(read_idx, r_n + k)
    BY <1>1, <1>2, <1>5, <2>1, PlusPlus
  <2>3. rx_buffer[Plus(read_idx, r_n + k)] = Published + (r_n + k) + 1
    BY <2>1 DEF RingInv, ContentInv
  <2> QED BY <1>1, <2>2, <2>3 DEF Index
<1>8. WriterInv'
  BY <1>2 DEF RingInv, WriterInv, Dist, Plus
<1>9. ReaderInv'
  BY <1>2 DEF ReaderInv
<1>10. DeliveredInOrder'
  BY <1>2 DEF RingInv, DeliveredInOrder
<1> QED BY <1>6, <1>7, <1>8, <1>9, <1>10 DEF RingInv

LEMMA StepRing ==
    ASSUME ShortResponses
    PROVE  RingInv /\ [Next]_vars => RingInv'
<1> SUFFICES ASSUME RingInv, [Next]_vars PROVE RingInv'
  OBVIOUS
<1> USE ConstantAssumption
<1>0. TypeOK /\ TypeOK'
  BY StepType DEF RingInv
<1>1. ASSUME NEW len \in ChunkLens, Offer(len) PROVE RingInv'
  <2>1. /\ UNCHANGED <<statics, w_r, w_w, w_i, reader, accepted, out, resp>>
        /\ w_len' = len /\ wpc' = "load" /\ 0 < len /\ resp + len <= MaxResponse
    BY <1>1 DEF Offer
  <2>2. WriterInv'
    BY <2>1 DEF WriterInv
  <2>3. CountInv' /\ ContentInv' /\ ReaderInv' /\ DeliveredInOrder'
    BY <2>1 DEF statics, reader, RingInv, CountInv, ContentInv, ReaderInv,
                DeliveredInOrder, Published, InRing, Plus, Dist
  <2> QED BY <1>0, <2>2, <2>3 DEF RingInv
<1>2. CASE Retry \/ Drop
  <2>1. WriterInv'
    BY <1>2 DEF Retry, Drop, RingInv, WriterInv
  <2>2. CountInv' /\ ContentInv' /\ ReaderInv' /\ DeliveredInOrder'
    BY <1>2 DEF Retry, Drop, statics, reader, RingInv, CountInv, ContentInv,
                ReaderInv, DeliveredInOrder, Published, InRing, Plus, Dist
  <2> QED BY <1>0, <2>1, <2>2 DEF RingInv
<1>3. CASE WriteLoad
  <2>1. WriterInv'
    <3>1. Dist(read_idx, write_idx) <= resp
      BY <1>0 DEF RingInv, CountInv, TypeOK
    <3> QED BY <1>3, <3>1 DEF WriteLoad, statics, RingInv, WriterInv, Dist
  <2>2. CountInv' /\ ContentInv' /\ ReaderInv' /\ DeliveredInOrder'
    BY <1>3 DEF WriteLoad, statics, reader, RingInv, CountInv, ContentInv,
                ReaderInv, DeliveredInOrder, Published, InRing, Plus, Dist
  <2> QED BY <1>0, <2>1, <2>2 DEF RingInv
<1>4. CASE WriteCheck
  <2>1. WriterInv'
    <3>1. /\ wpc' = "refused" \/ (wpc' = "copy" /\ w_i' = 0)
          /\ wpc = "check" /\ UNCHANGED <<write_idx, w_len, w_r, w_w, resp, accepted>>
      BY <1>4 DEF WriteCheck, statics
    <3>2. w_len \in Nat /\ WriterInv
      BY DEF RingInv, TypeOK
    <3>3. CASE wpc' = "refused"
      BY <3>1, <3>2, <3>3 DEF WriterInv
    <3>4. CASE wpc' = "copy" /\ w_i' = 0
      <4>1. \A k \in Index : ~(k < 0)
        BY DEF Index
      <4> QED BY <3>1, <3>2, <3>4, <4>1 DEF WriterInv, Dist
    <3> QED BY <3>1, <3>3, <3>4
  <2>2. CountInv' /\ ContentInv' /\ ReaderInv' /\ DeliveredInOrder'
    BY <1>4 DEF WriteCheck, statics, reader, RingInv, CountInv, ContentInv,
                ReaderInv, DeliveredInOrder, Published, InRing, Plus, Dist
  <2> QED BY <1>0, <2>1, <2>2 DEF RingInv
<1>5. CASE WriteCopy
  BY <1>0, <1>5, WriteCopyRing
<1>6. CASE WriteFinish
  BY <1>0, <1>6, WriteFinishRing
<1>7. CASE WritePublish
  BY <1>0, <1>7, WritePublishRing
<1>8. ASSUME NEW plen \in ReadSizes, ReadCall(plen) PROVE RingInv'
  <2>1. /\ rpc = "idle" /\ rpc' = "check" /\ r_r' = read_idx /\ r_w' = write_idx
        /\ UNCHANGED <<statics, writer, accepted, out, resp>>
    BY <1>8 DEF ReadCall
  <2>2. Published' = Published /\ InRing' = InRing
    BY <2>1 DEF Published, InRing
  <2>3. CountInv' /\ ContentInv' /\ WriterInv' /\ DeliveredInOrder'
    BY <2>1, <2>2 DEF statics, writer, RingInv, CountInv, ContentInv,
                WriterInv, DeliveredInOrder, Plus, Dist
  <2>4. ReaderInv'
    <3>1. Dist(read_idx, write_idx) = InRing /\ InRing \in Nat
      BY <1>0 DEF RingInv, CountInv, TypeOK
    <3> QED BY <2>1, <2>2, <3>1 DEF statics, ReaderInv, Dist
  <2> QED BY <1>0, <2>3, <2>4 DEF RingInv
<1>9. CASE ReadCheck
  BY <1>0, <1>9, ReadCheckRing
<1>10. CASE ReadCopy
  BY <1>0, <1>10, ReadCopyRing
<1>11. CASE ReadClear
  <2>1. /\ rpc = "copy" /\ rpc' = "publish" /\ r_i = r_n /\ ~is_full'
        /\ UNCHANGED <<rx_buffer, read_idx, write_idx, writer>>
        /\ UNCHANGED <<r_plen, r_r, r_w, r_n, r_i, accepted, out, resp>>
    <3>1. ~is_full'
      BY <1>11, Zenon DEF ReadClear
    <3> QED BY <1>11, <3>1 DEF ReadClear
  <2>2. Published' = Published /\ InRing' = InRing
    BY <2>1 DEF Published, InRing
  <2>3. CountInv' /\ ContentInv' /\ WriterInv' /\ DeliveredInOrder'
    BY <2>1, <2>2 DEF writer, RingInv, CountInv, ContentInv,
                WriterInv, DeliveredInOrder, Plus, Dist
  <2>4. ReaderInv'
    BY <2>1, <2>2 DEF RingInv, ReaderInv, Plus, Dist
  <2> QED BY <1>0, <2>3, <2>4 DEF RingInv
<1>12. CASE ReadPublish
  BY <1>0, <1>12, ReadPublishRing
<1>13. CASE NewResponse
  <2>1. /\ resp' = 0 /\ UNCHANGED <<statics, writer, reader, accepted, out>>
        /\ wpc = "idle" /\ rpc = "idle" /\ Len(out) = accepted
    BY <1>13 DEF NewResponse
  <2>2. Published' = Published /\ InRing' = InRing /\ InRing = 0
    <3>1. Len(out) \in Nat /\ Published = Len(out)
      BY <1>0, <2>1 DEF TypeOK, Published
    <3> QED BY <2>1, <3>1 DEF reader, Published, InRing
  <2>3. CountInv'
    BY <2>1, <2>2 DEF statics, RingInv, CountInv, Dist
  <2>4. ContentInv' /\ WriterInv' /\ DeliveredInOrder'
    BY <2>1, <2>2 DEF statics, writer, RingInv, ContentInv, WriterInv,
                DeliveredInOrder, Plus
  <2>5. ReaderInv'
    BY <2>1 DEF reader, ReaderInv
  <2> QED BY <1>0, <2>3, <2>4, <2>5 DEF RingInv
<1>14. CASE UNCHANGED vars
  BY <1>0, <1>14 DEF vars, statics, writer, reader, RingInv, CountInv, ContentInv,
     WriterInv, ReaderInv, DeliveredInOrder, Published, InRing, Plus, Dist
<1> QED
  BY <1>1, <1>2, <1>3, <1>4, <1>5, <1>6, <1>7, <1>8, <1>9, <1>10, <1>11,
     <1>12, <1>13, <1>14 DEF Next, Write, Read

-----------------------------------------------------------------------------
(* What follows from it                                                    *)

\* With responses shorter than the ring, the inductive invariant holds in every
\* interleaving of circ_buff_write and circ_buff_read.
THEOREM RingCorrect ==
    ASSUME ShortResponses
    PROVE  Spec => []RingInv
BY InitRing, StepRing, PTL DEF Spec

\* What the HTTPS task has been given is a prefix of what the server sent.
THEOREM InOrder ==
    ASSUME ShortResponses
    PROVE  Spec => []DeliveredInOrder
<1>1. RingInv => DeliveredInOrder
  BY DEF RingInv
<1> QED BY <1>1, RingCorrect, PTL

\* An unread byte is never stored over, although circ_buff_write decides
\* whether there is room from a stale read_idx and with the wrong test.
THEOREM Unread ==
    ASSUME ShortResponses
    PROVE  Spec => []NoOverwrite
<1>1. RingInv => NoOverwrite
  <2> DEFINE cursor == IF rpc \in {"copy", "publish"} THEN r_r ELSE read_idx
  <2> SUFFICES ASSUME RingInv, wpc = "copy", w_i < w_len,
                      NEW k \in 0 .. accepted - Len(out) - 1
               PROVE  (cursor + k) % CIRC_BUFF_SZ # WriteCell
    BY DEF NoOverwrite, UnreadCells
  <2> USE ConstantAssumption
  <2>1. /\ w_i \in Index /\ InRing \in Index /\ InRing + w_i \in Index
        /\ WriteCell = Plus(read_idx, InRing + w_i)
    BY WriteCellAhead
  <2>2. /\ accepted \in Nat /\ Len(out) \in Nat /\ r_i \in Nat /\ r_n \in Nat
        /\ read_idx \in Index /\ InRing = accepted - Published
    BY DEF RingInv, TypeOK, InRing
  <2>3. PICK c \in Index :
            /\ cursor = Plus(read_idx, c)
            /\ Published = Len(out) - c
            /\ c <= InRing
    <3>1. CASE rpc \in {"copy", "publish"}
      <4>1. r_i \in Index
        BY <2>1, <2>2, <3>1 DEF RingInv, ReaderInv, Index
      <4> QED BY <2>2, <3>1, <4>1 DEF RingInv, ReaderInv, Published
    <3>2. CASE rpc \notin {"copy", "publish"}
      <4>1. 0 \in Index /\ Plus(read_idx, 0) = read_idx
        BY <2>2 DEF Index, Plus
      <4> QED BY <2>1, <2>2, <3>2, <4>1 DEF Published, Index
    <3> QED BY <3>1, <3>2
  <2>4. k \in Nat /\ c + k < InRing
    BY <2>1, <2>2, <2>3 DEF Index
  <2>5. c + k \in Index /\ k \in Index /\ c + k < CIRC_BUFF_SZ
    BY <2>1, <2>3, <2>4 DEF Index
  <2>6. cursor \in Index
    BY <2>2, <2>3, PlusDist
  <2>7. (cursor + k) % CIRC_BUFF_SZ = Plus(cursor, k)
    <3>1. k \in 0 .. CIRC_BUFF_SZ
      BY <2>5 DEF Index
    <3> HIDE DEF cursor
    <3> QED BY <2>6, <3>1, ModPlus
  <2>8. Plus(cursor, k) = Plus(read_idx, c + k)
    BY <2>2, <2>3, <2>5, PlusPlus
  <2>9. c + k # InRing + w_i
    BY <2>1, <2>3, <2>4 DEF Index
  <2> QED BY <2>1, <2>2, <2>5, <2>7, <2>8, <2>9, PlusInjective
<1> QED BY <1>1, RingCorrect, PTL

\* Between calls the indices and the flag count exactly the unread bytes: no
\* concurrent call leaves a stale one behind.
THEOREM RestingCount ==
    ASSUME ShortResponses
    PROVE  Spec => []CountAtRest
<1>1. RingInv => CountAtRest
  <2> SUFFICES ASSUME RingInv, rpc = "idle"
               PROVE  /\ ~is_full
                      /\ accepted - Len(out) =
                           (write_idx + CIRC_BUFF_SZ - read_idx) % CIRC_BUFF_SZ
    BY DEF CountAtRest
  <2>1. ~is_full /\ Dist(read_idx, write_idx) = InRing
    BY DEF RingInv, CountInv
  <2>2. InRing = accepted - Len(out)
    BY DEF InRing, Published
  <2>3. (write_idx + CIRC_BUFF_SZ - read_idx) % CIRC_BUFF_SZ
          = Dist(read_idx, write_idx)
    BY ModDist DEF RingInv, TypeOK
  <2> QED BY <2>1, <2>2, <2>3
<1> QED BY <1>1, RingCorrect, PTL

LEMMA InitFifo == Init => Fifo!Init
BY DEF Init, Fifo!Init

\* Only the last step of circ_buff_write and the copying steps of
\* circ_buff_read are steps of the stream; the rest stutter.
LEMMA StepFifo ==
    ASSUME ShortResponses, RingInv, [Next]_vars
    PROVE  [Fifo!Next]_Fifo!fifoVars
<1>1. CASE WritePublish
  <2>1. /\ w_len \in Nat \ {0} /\ InRing + w_len < CIRC_BUFF_SZ
        /\ accepted \in Nat /\ Len(out) \in Nat
        /\ r_i \in Nat /\ InRing = accepted - Published
    BY <1>1, RoomForChunk DEF WritePublish, RingInv, TypeOK, InRing
  <2>2. Published <= Len(out) /\ Published \in Nat
    BY <2>1 DEF Published, RingInv, CountInv
  <2>3. accepted + w_len - Len(out) <= CIRC_BUFF_SZ
    BY <2>1, <2>2, ConstantAssumption
  <2>4. accepted' = accepted + w_len /\ out' = out
    BY <1>1 DEF WritePublish
  <2> QED BY <2>1, <2>3, <2>4 DEF Fifo!Next, Fifo!Put
<1>2. CASE ReadCopy
  BY <1>2, NextByte DEF ReadCopy, Fifo!Next, Fifo!Get
<1>3. CASE ~WritePublish /\ ~ReadCopy
  BY <1>3 DEF Next, vars, Write, Read, Offer, Retry, Drop, WriteLoad, WriteCheck,
     WriteCopy, WriteFinish, ReadCall, ReadCheck, ReadClear, ReadPublish,
     NewResponse, Fifo!fifoVars
<1> QED BY <1>1, <1>2, <1>3

\* The ring implements the first-in first-out stream of RxFifo: every
\* interleaving of its two threads delivers each accepted byte once, in order,
\* and accepts a chunk only into free cells.
THEOREM RingIsFifo ==
    ASSUME ShortResponses
    PROVE  Spec => FifoSpec
<1>1. RingInv /\ [Next]_vars => [Fifo!Next]_Fifo!fifoVars
  BY StepFifo
<1> QED BY <1>1, InitFifo, RingCorrect, PTL DEF Spec, FifoSpec, Fifo!Spec
=============================================================================
