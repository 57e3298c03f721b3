-------------------------- MODULE RxCircularBuffer --------------------------
(***************************************************************************)
(* src/rx_circular_buffer.c: the ring that carries received bytes from     *)
(* lwIP's TCP/IP thread (circ_buff_write) to the HTTPS task                *)
(* (circ_buff_read).  The two run on two cores with no lock.  One step     *)
(* here is one access to a volatile index or flag, or one byte copied;     *)
(* reads of an index that only the reading side writes are merged with     *)
(* their neighbour, and so are computations on locals.                     *)
(*                                                                         *)
(* A byte of the stream is represented by its position in the stream, so   *)
(* that a lost, repeated or overwritten byte is visible in `out'.          *)
(***************************************************************************)
EXTENDS Naturals, Sequences

CONSTANTS
    CIRC_BUFF_SZ,   \* size of rx_buffer
    ChunkLens,      \* the p->tot_len lwIP may hand over
    ReadSizes,      \* the plen the HTTPS task may ask for
    MaxResponse,    \* bytes in one HTTPS response (one connection)
    MaxStream       \* bound: bytes in all responses together

ASSUME ConstantAssumption ==
    /\ CIRC_BUFF_SZ \in Nat \ {0}
    /\ ChunkLens \subseteq Nat \ {0}
    /\ ReadSizes \subseteq Nat \ {0}
    /\ MaxResponse \in Nat
    /\ MaxStream \in Nat

VARIABLES
    rx_buffer, read_idx, write_idx, is_full,  \* the statics of the C file
    wpc, w_len, w_r, w_w, w_i,                \* circ_buff_write: p->tot_len, r_idx,
                                              \* start_w_idx, bytes copied
    rpc, r_plen, r_r, r_w, r_n, r_i,          \* circ_buff_read: plen, r_idx, w_idx,
                                              \* n_bytes, i
    accepted,       \* history: bytes for which circ_buff_write returned ERR_OK
    out,            \* history: bytes copied to the HTTPS task, in order
    resp            \* bytes of the current response accepted so far

statics == <<rx_buffer, read_idx, write_idx, is_full>>
writer  == <<wpc, w_len, w_r, w_w, w_i>>
reader  == <<rpc, r_plen, r_r, r_w, r_n, r_i>>
vars    == <<statics, writer, reader, accepted, out, resp>>

Index == 0 .. CIRC_BUFF_SZ - 1

\* Static storage is zero, and circ_buffer_init() makes the same values.
Init ==
    /\ rx_buffer = [i \in Index |-> 0]
    /\ read_idx = 0 /\ write_idx = 0 /\ is_full = FALSE
    /\ wpc = "idle" /\ w_len = 0 /\ w_r = 0 /\ w_w = 0 /\ w_i = 0
    /\ rpc = "idle" /\ r_plen = 0 /\ r_r = 0 /\ r_w = 0 /\ r_n = 0 /\ r_i = 0
    /\ accepted = 0 /\ out = <<>> /\ resp = 0

-----------------------------------------------------------------------------
(* circ_buff_write, on the TCP/IP thread                                   *)

\* lwIP hands over a chunk of the response; a refused chunk is retried as it is.
Offer(len) ==
    /\ wpc = "idle"
    /\ resp + len <= MaxResponse
    /\ accepted + len <= MaxStream
    /\ w_len' = len
    /\ wpc' = "load"
    /\ UNCHANGED <<statics, w_r, w_w, w_i, reader, accepted, out, resp>>

Retry ==
    /\ wpc = "refused"
    /\ wpc' = "load"
    /\ UNCHANGED <<statics, w_len, w_r, w_w, w_i, reader, accepted, out, resp>>

\* The connection breaks: lwIP frees the refused chunk.
Drop ==
    /\ wpc = "refused"
    /\ wpc' = "idle"
    /\ UNCHANGED <<statics, w_len, w_r, w_w, w_i, reader, accepted, out, resp>>

\* Mutant of WriteLoad: the two indices taken the wrong way round.
WriteLoadSwapped ==
    /\ wpc = "load"
    /\ w_r' = write_idx
    /\ w_w' = read_idx
    /\ wpc' = "check"
    /\ UNCHANGED <<statics, w_len, w_i, reader, accepted, out, resp>>

\* int r_idx = read_idx; int w_idx = write_idx; int start_w_idx = w_idx;
WriteLoad ==
    /\ wpc = "load"
    /\ w_r' = read_idx
    /\ w_w' = write_idx
    /\ wpc' = "check"
    /\ UNCHANGED <<statics, w_len, w_i, reader, accepted, out, resp>>

\* Mutant of Refuses: `>=' for `>', so that an empty ring counts as a used one.
RefusesWhenEmpty(len, r, w, full) ==
    \/ full
    \/ len > CIRC_BUFF_SZ
    \/ w >= r /\ len > w - r
    \/ w < r /\ len > CIRC_BUFF_SZ + w - r

\* The three early returns, as the code computes them.
Refuses(len, r, w, full) ==
    \/ full
    \/ len > CIRC_BUFF_SZ
    \/ w > r /\ len > w - r
    \/ w < r /\ len > CIRC_BUFF_SZ + w - r

WriteCheck ==
    /\ wpc = "check"
    /\ IF Refuses(w_len, w_r, w_w, is_full)
         THEN wpc' = "refused" /\ UNCHANGED w_i
         ELSE wpc' = "copy" /\ w_i' = 0
    /\ UNCHANGED <<statics, w_len, w_r, w_w, reader, accepted, out, resp>>

WriteCell == (w_w + w_i) % CIRC_BUFF_SZ

WriteCopy ==
    /\ wpc = "copy"
    /\ w_i < w_len
    /\ rx_buffer' = [rx_buffer EXCEPT ![WriteCell] = accepted + w_i + 1]
    /\ w_i' = w_i + 1
    /\ UNCHANGED <<read_idx, write_idx, is_full, wpc, w_len, w_r, w_w,
                   reader, accepted, out, resp>>

\* Mutant of EndIdx: the index does not wrap around.
EndIdxUnwrapped == w_w + w_len

EndIdx == (w_w + w_len) % CIRC_BUFF_SZ

\* Mutant of WriteFinish: write_idx moved before the last byte is in place.
WriteFinishEarly ==
    /\ wpc = "copy"
    /\ w_i = w_len - 1
    /\ wpc' = "publish" /\ is_full' = (is_full \/ EndIdx = w_r)
    /\ UNCHANGED <<rx_buffer, read_idx, write_idx, w_len, w_r, w_w, w_i,
                   reader, accepted, out, resp>>

\* The all-or-nothing test, then is_full.
WriteFinish ==
    /\ wpc = "copy"
    /\ w_i = w_len
    /\ IF (EndIdx + CIRC_BUFF_SZ - w_w) % CIRC_BUFF_SZ # w_len
         THEN wpc' = "refused" /\ UNCHANGED is_full
         ELSE wpc' = "publish" /\ is_full' = (is_full \/ EndIdx = w_r)
    /\ UNCHANGED <<rx_buffer, read_idx, write_idx, w_len, w_r, w_w, w_i,
                   reader, accepted, out, resp>>

\* write_idx = w_idx; return ERR_OK;
WritePublish ==
    /\ wpc = "publish"
    /\ write_idx' = EndIdx
    /\ accepted' = accepted + w_len
    /\ resp' = resp + w_len
    /\ wpc' = "idle"
    /\ UNCHANGED <<rx_buffer, read_idx, is_full, w_len, w_r, w_w, w_i,
                   reader, out>>

-----------------------------------------------------------------------------
(* circ_buff_read, on the HTTPS task                                       *)

ReadCall(plen) ==
    /\ rpc = "idle"
    /\ r_plen' = plen
    /\ r_r' = read_idx
    /\ r_w' = write_idx
    /\ rpc' = "check"
    /\ UNCHANGED <<statics, writer, r_n, r_i, accepted, out, resp>>

NothingToRead == r_plen = 0 \/ (r_r = r_w /\ ~is_full)

Available ==
    IF r_r = r_w THEN CIRC_BUFF_SZ ELSE (r_w + CIRC_BUFF_SZ - r_r) % CIRC_BUFF_SZ

ReadCheck ==
    /\ rpc = "check"
    /\ IF NothingToRead
         THEN rpc' = "idle" /\ UNCHANGED <<r_n, r_i>>
         ELSE /\ rpc' = "copy"
              /\ r_n' = IF Available < r_plen THEN Available ELSE r_plen
              /\ r_i' = 0
    /\ UNCHANGED <<statics, writer, r_plen, r_r, r_w, accepted, out, resp>>

ReadCopy ==
    /\ rpc = "copy"
    /\ r_i < r_n
    /\ out' = Append(out, rx_buffer[r_r])
    /\ r_r' = (r_r + 1) % CIRC_BUFF_SZ
    /\ r_i' = r_i + 1
    /\ UNCHANGED <<statics, writer, rpc, r_plen, r_w, r_n, accepted, resp>>

\* is_full = 0;
ReadClear ==
    /\ rpc = "copy"
    /\ r_i = r_n
    /\ is_full' = FALSE
    /\ rpc' = "publish"
    /\ UNCHANGED <<rx_buffer, read_idx, write_idx, writer, r_plen, r_r, r_w,
                   r_n, r_i, accepted, out, resp>>

\* Mutant of ReadPublish: an index one too far is stored back.
ReadPublishPast ==
    /\ rpc = "publish"
    /\ read_idx' = (r_r + 1) % CIRC_BUFF_SZ
    /\ rpc' = "idle"
    /\ UNCHANGED <<rx_buffer, write_idx, is_full, writer, r_plen, r_r, r_w,
                   r_n, r_i, accepted, out, resp>>

\* read_idx = r_idx; return n_bytes;
ReadPublish ==
    /\ rpc = "publish"
    /\ read_idx' = r_r
    /\ rpc' = "idle"
    /\ UNCHANGED <<rx_buffer, write_idx, is_full, writer, r_plen, r_r, r_w,
                   r_n, r_i, accepted, out, resp>>

-----------------------------------------------------------------------------

\* The next connection starts once the HTTPS task has printed the last one.
NewResponse ==
    /\ wpc = "idle" /\ rpc = "idle"
    /\ resp > 0
    /\ Len(out) = accepted
    /\ resp' = 0
    /\ UNCHANGED <<statics, writer, reader, accepted, out>>

Write == WriteLoad \/ WriteCheck \/ WriteCopy \/ WriteFinish \/ WritePublish
Read  == ReadCheck \/ ReadCopy \/ ReadClear \/ ReadPublish

Next ==
    \/ \E len \in ChunkLens : Offer(len)
    \/ Retry
    \/ Drop
    \/ Write
    \/ \E plen \in ReadSizes : ReadCall(plen)
    \/ Read
    \/ NewResponse

Spec == Init /\ [][Next]_vars

-----------------------------------------------------------------------------
(* Properties                                                              *)

TypeOK ==
    /\ rx_buffer \in [Index -> Nat]
    /\ read_idx \in Index /\ write_idx \in Index /\ is_full \in BOOLEAN
    /\ wpc \in {"idle", "load", "check", "copy", "publish", "refused"}
    /\ w_len \in Nat /\ w_i \in Nat /\ w_r \in Index /\ w_w \in Index
    /\ rpc \in {"idle", "check", "copy", "publish"}
    /\ r_plen \in Nat /\ r_n \in Nat /\ r_i \in Nat
    /\ r_r \in Index /\ r_w \in Index
    /\ accepted \in Nat /\ out \in Seq(Nat) /\ resp \in Nat

\* The cells from which the HTTPS task has yet to copy an accepted byte.
UnreadCells ==
    LET cursor == IF rpc \in {"copy", "publish"} THEN r_r ELSE read_idx
    IN  {(cursor + k) % CIRC_BUFF_SZ : k \in 0 .. accepted - Len(out) - 1}

\* The TCP/IP thread never stores a byte over one that circ_buff_write has
\* accepted and the HTTPS task has not yet copied (the store at line 74).
NoOverwrite ==
    wpc = "copy" /\ w_i < w_len => WriteCell \notin UnreadCells

\* The ring is the byte stream the header promises: what circ_buff_read returns
\* is what circ_buff_write accepted, in order, each byte once, none invented,
\* whatever the interleaving of the two threads.
Fifo == INSTANCE RxFifo WITH Capacity <- CIRC_BUFF_SZ
FifoSpec == Fifo!Spec

\* The state part of FifoSpec: the bytes printed so far are the first bytes of
\* the stream, and none of them was printed before it was accepted.
DeliveredInOrder ==
    /\ Len(out) <= accepted
    /\ \A i \in 1 .. Len(out) : out[i] = i

\* When neither thread is inside the ring, its indices and flag count exactly
\* the bytes accepted and not yet read: no stale index or flag survives a call.
CountAtRest ==
    wpc \in {"idle", "refused"} /\ rpc = "idle" =>
        accepted - Len(out) =
            IF is_full THEN CIRC_BUFF_SZ
            ELSE (write_idx + CIRC_BUFF_SZ - read_idx) % CIRC_BUFF_SZ

\* rx_circular_buffer.h:21 says that circ_buff_write returns ERR_BUF if there
\* is insufficient space: past the early returns, the chunk fits.
RefusesWithoutSpace ==
    wpc = "copy" => accepted - Len(out) + w_len <= CIRC_BUFF_SZ

-----------------------------------------------------------------------------
(* The inductive invariant behind FifoSpec, for responses shorter than the *)
(* ring.  Ring arithmetic is put in linear form: Plus steps forward from a *)
(* cell and Dist counts the cells from one index up to another.            *)

Plus(a, k) == IF a + k < CIRC_BUFF_SZ THEN a + k ELSE a + k - CIRC_BUFF_SZ
Dist(a, b) == IF a <= b THEN b - a ELSE b + CIRC_BUFF_SZ - a

\* Bytes read and given back by read_idx; a read in progress is ahead of it.
Published == IF rpc \in {"copy", "publish"} THEN Len(out) - r_i ELSE Len(out)
InRing == accepted - Published

\* The two indices count the bytes in the ring, which never fill it.
CountInv ==
    /\ ~is_full
    /\ Published \in Nat
    /\ InRing \in 0 .. resp
    /\ resp <= MaxResponse
    /\ Dist(read_idx, write_idx) = InRing

\* The cells from read_idx on hold the bytes that come next.
ContentInv ==
    \A k \in Index : k < InRing => rx_buffer[Plus(read_idx, k)] = Published + k + 1

\* The writer's copy of read_idx is at most a response old, so the chunk being
\* copied ends short of it.
WriterInv ==
    /\ wpc # "idle" => 0 < w_len /\ resp + w_len <= MaxResponse
    /\ wpc \in {"check", "copy", "publish"} =>
         /\ w_w = write_idx
         /\ Dist(w_r, w_w) <= resp
    /\ wpc \in {"copy", "publish"} =>
         /\ w_i <= w_len
         /\ \A k \in Index : k < w_i => rx_buffer[Plus(w_w, k)] = accepted + k + 1
    /\ wpc = "publish" => w_i = w_len

\* A read in progress stays within the bytes that were there when it began.
ReaderInv ==
    /\ rpc = "check" => r_r = read_idx /\ Dist(r_r, r_w) <= InRing
    /\ rpc \in {"copy", "publish"} =>
         /\ r_i <= r_n /\ r_n <= InRing
         /\ r_r = Plus(read_idx, r_i)
    /\ rpc = "publish" => r_i = r_n

\* The case in which the ring works: it never comes near to full.
ShortResponses == MaxResponse < CIRC_BUFF_SZ

RingInv ==
    /\ TypeOK
    /\ CountInv
    /\ ContentInv
    /\ WriterInv
    /\ ReaderInv
    /\ DeliveredInOrder

=============================================================================
