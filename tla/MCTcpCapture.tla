---------------------------- MODULE MCTcpCapture ----------------------------
(***************************************************************************)
(* Instances of TcpCapture for TLC: its constants are model values.        *)
(***************************************************************************)
EXTENDS TcpCapture
=============================================================================
