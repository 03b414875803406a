-------------------------- MODULE MCSessionReceiver --------------------------
(***************************************************************************)
(* Instances of SessionReceiver for TLC.                                   *)
(***************************************************************************)
EXTENDS SessionReceiver
==============================================================================
