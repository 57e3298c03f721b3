------------------------------- MODULE RxFifo -------------------------------
(***************************************************************************)
(* What rx_circular_buffer.h promises the two sides of an HTTPS session:   *)
(* a bounded first-in first-out byte stream.  The bytes of the stream are  *)
(* named by their position, 1, 2, 3, ...  The producer (lwIP's TCP/IP      *)
(* thread) adds a chunk as a whole and only when it fits; the consumer     *)
(* (the HTTPS task) takes bytes out one after the other, each once, in     *)
(* order, and never one that has not been added.                           *)
(***************************************************************************)
EXTENDS Naturals, Sequences

CONSTANT Capacity   \* bytes the buffer can hold

VARIABLES
    accepted,       \* number of bytes the producer has added so far
    out             \* the bytes the consumer has taken out, in that order

fifoVars == <<accepted, out>>

Init ==
    /\ accepted = 0
    /\ out = <<>>

\* A chunk is added: all of it, and only into free space.
Put ==
    /\ accepted' \in Nat
    /\ accepted' > accepted
    /\ accepted' - Len(out) <= Capacity
    /\ UNCHANGED out

\* The next byte of the stream is taken out.
Get ==
    /\ Len(out) < accepted
    /\ out' = Append(out, Len(out) + 1)
    /\ UNCHANGED accepted

Next == Put \/ Get

Spec == Init /\ [][Next]_fifoVars
=============================================================================
