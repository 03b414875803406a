------------------------------ MODULE TokenLog -------------------------------
(***************************************************************************)
(* What the deduplicator promises about each request: it accepts the       *)
(* tokens 0, 1, 2, ... once each, refuses all others, and remembers the    *)
(* last Capacity of them.                                                  *)
(***************************************************************************)
EXTENDS Integers, Sequences

CONSTANTS
  Ids,                \* request ids
  Tokens,             \* what a chunk may carry
  Numbers,            \* sequence numbers a caller may use
  Capacity            \* tokens remembered of a request

VARIABLES
  count,              \* tokens accepted of each request
  recent,             \* the last of them
  answer              \* what the last call returned

vars == <<count, recent, answer>>

Says(word) == [says |-> word, tokens |-> <<>>]

Init ==
  /\ count = [r \in Ids |-> 0]
  /\ recent = [r \in Ids |-> <<>>]
  /\ answer = Says("none")

\* The queue q with t behind it, without its head if it is full.
Push(q, t) ==
  IF Len(q) < Capacity THEN Append(q, t) ELSE Append(Tail(q), t)

Accept(r, t) ==
  /\ count' = [count EXCEPT ![r] = @ + 1]
  /\ recent' = [recent EXCEPT ![r] = Push(@, t)]
  /\ answer' = Says("accepted")

\* A number below count is a duplicate, one above it leaves a gap.
Refuse(r, seq) ==
  /\ seq # count[r]
  /\ answer' = Says(IF seq < count[r] THEN "duplicate" ELSE "gap")
  /\ UNCHANGED <<count, recent>>

Forget(r) ==
  /\ count' = [count EXCEPT ![r] = 0]
  /\ recent' = [recent EXCEPT ![r] = <<>>]
  /\ answer' = Says("none")

\* The remembered tokens from first to last, none if first is forgotten.
Recall(r, first, last) ==
  LET forgotten == count[r] - Len(recent[r])
      final == IF last < count[r] THEN last ELSE count[r] - 1
  IN  /\ answer' = [says |-> "slice",
                    tokens |-> IF first < forgotten THEN <<>>
                               ELSE SubSeq(recent[r], first - forgotten + 1,
                                                      final - forgotten + 1)]
      /\ UNCHANGED <<count, recent>>

Next ==
  \E r \in Ids :
    \/ \E t \in Tokens : Accept(r, t)
    \/ \E seq \in Numbers : Refuse(r, seq)
    \/ \E first, last \in Numbers : Recall(r, first, last)
    \/ Forget(r)

Spec == Init /\ [][Next]_vars
==============================================================================
