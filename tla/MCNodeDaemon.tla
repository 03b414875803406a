----------------------------- MODULE MCNodeDaemon ----------------------------
(***************************************************************************)
(* Instances of NodeDaemon for TLC.                                        *)
(***************************************************************************)
EXTENDS NodeDaemon
==============================================================================
