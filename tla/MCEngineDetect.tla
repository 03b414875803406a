--------------------------- MODULE MCEngineDetect ----------------------------
(* An instance of EngineDetect for TLC. *)
EXTENDS EngineDetect
==============================================================================
