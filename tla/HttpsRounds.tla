---------------------------- MODULE HttpsRounds ----------------------------
(***************************************************************************)
(* What https_task promises about a round of its loop: it takes the TLS    *)
(* configuration (and the queue), makes at most one connection with it,    *)
(* and gives it back when there is no connection any more.                 *)
(***************************************************************************)
VARIABLES
    held,       \* the round has its TLS configuration
    conn        \* its connection: "none" yet, "open", "closed"

vars == <<held, conn>>

Init == held = FALSE /\ conn = "none"

Begin == ~held /\ conn = "none" /\ held' = TRUE /\ UNCHANGED conn
Open  == held /\ conn = "none" /\ conn' = "open" /\ UNCHANGED held
Close == held /\ conn = "open" /\ conn' = "closed" /\ UNCHANGED held
End   == held /\ conn # "open" /\ held' = FALSE /\ conn' = "none"

Next == Begin \/ Open \/ Close \/ End

Spec == Init /\ [][Next]_vars
=============================================================================
