---------------------------- MODULE MCQuicCapture ----------------------------
(***************************************************************************)
(* Instance of QuicCapture for TLC: two peers are enough for a stale       *)
(* finalizer to remove somebody else's entry, two fragments make a gather  *)
(* incomplete, and the bound on datagrams lets one peer lose its gather to *)
(* a race and start another.                                               *)
(***************************************************************************)
EXTENDS QuicCapture

CONSTANTS p1, p2, f1, f2
=============================================================================
