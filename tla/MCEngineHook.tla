---------------------------- MODULE MCEngineHook -----------------------------
(* Instances of EngineHook.  The sessions: new; with a token the client does *)
(* not have yet; used up; known to the proxy only, without text; generated   *)
(* but not flushed at all.                                                   *)
EXTENDS EngineHook, TLC

SomeSessions ==
  { [text |-> 0, flushed |-> -1, total |-> 0],
    [text |-> 2, flushed |-> 0, total |-> 2],
    [text |-> 2, flushed |-> 1, total |-> 2],
    [text |-> 0, flushed |-> 0, total |-> 0],
    [text |-> 1, flushed |-> -1, total |-> 1] }

Symmetry == Permutations(Calls) \cup Permutations(Ids)
==============================================================================
