--------------------------- MODULE MCDeduplicator ----------------------------
(* An instance of Deduplicator for TLC: numbers from before the first token *)
(* to behind the second wrap of a ring of three.                            *)
EXTENDS Deduplicator, TLC

SomeNumbers == -1 .. 7

Symmetry == Permutations(Tokens) \cup Permutations(Ids)
==============================================================================
