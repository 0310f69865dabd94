---------------------------- MODULE MCQuicFiles ----------------------------
(***************************************************************************)
(* An instance of QuicFiles for TLC: two flights of one target, a complete *)
(* one of two datagrams and an incomplete one of one datagram, which is    *)
(* named after -default-target.                                            *)
(***************************************************************************)
EXTENDS QuicFiles

CONSTANTS long, part

MCSize == [f \in Flights |-> IF f = long THEN 2 ELSE 1]
MCSNI == [f \in Flights |-> "chromeparrot"]
MCPeerID == [f \in Flights |-> "peer-10-0-0-2-50001"]
=============================================================================
