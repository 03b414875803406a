---------------------------- MODULE MCP2PHandover ----------------------------
(***************************************************************************)
(* Instances of P2PHandover for TLC.                                       *)
(***************************************************************************)
EXTENDS P2PHandover
==============================================================================
