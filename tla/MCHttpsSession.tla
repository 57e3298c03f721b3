--------------------------- MODULE MCHttpsSession ---------------------------
(***************************************************************************)
(* HttpsSession for TLC: lwIP's connections are interchangeable in a run   *)
(* that checks no liveness.                                                *)
(***************************************************************************)
EXTENDS HttpsSession, TLC

PcbSymmetry == Permutations(Pcbs)
=============================================================================
