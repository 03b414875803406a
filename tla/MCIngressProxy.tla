---------------------------- MODULE MCIngressProxy ---------------------------
(***************************************************************************)
(* Instances of IngressProxy for TLC.                                      *)
(***************************************************************************)
EXTENDS IngressProxy, TLC

\* Every request has an id of its own (the proxy's uuid).
OwnId == [s \in Streams |-> s]

\* Streams are interchangeable: each has an id of its own.
Symmetry == Permutations(Streams \ NonStreaming)
==============================================================================
