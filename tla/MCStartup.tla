----------------------------- MODULE MCStartup -----------------------------
(***************************************************************************)
(* Instances of Startup for TLC.                                           *)
(***************************************************************************)
EXTENDS Startup, TLC

CONSTANTS t1, t2
=============================================================================
