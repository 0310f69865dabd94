---------------------------- MODULE MCHelloParser ----------------------------
(***************************************************************************)
(* Instance of HelloParser for TLC: short lengths around the borders the   *)
(* code tests, and one that is longer than everything.                     *)
(***************************************************************************)
EXTENDS HelloParser
=============================================================================
