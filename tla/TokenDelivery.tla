---------------------------- MODULE TokenDelivery ----------------------------
(***************************************************************************)
(* What the ingress proxy promises every streaming client, whatever        *)
(* happens to the engines behind it: the tokens of one answer, in order,   *)
(* each exactly once, and a [DONE] marker only behind the whole answer     *)
(* (specs/01-system-architecture.md, "Non-Negotiable System Invariants").  *)
(* Engines, preemption and handover do not appear here: IngressProxy is    *)
(* shown to implement this module.                                         *)
(***************************************************************************)
EXTENDS Integers, Sequences

CONSTANTS
  Streams,      \* the requests the proxy serves
  AnswerLen,    \* tokens in a whole answer, numbered 0 .. AnswerLen - 1
  MayTruncate   \* TRUE when a short answer may carry [DONE]

VARIABLES
  delivered,    \* [stream -> token numbers the client has received]
  status        \* [stream -> "waiting", "open", "complete" or "broken"]

vars == <<delivered, status>>

Init ==
  /\ delivered = [s \in Streams |-> <<>>]
  /\ status = [s \in Streams |-> "waiting"]

Move(s, from, to) ==
  /\ status[s] = from
  /\ status' = [status EXCEPT ![s] = to]

Open(s) ==
  /\ Move(s, "waiting", "open")
  /\ UNCHANGED delivered

\* The next token of the answer, and no other.
Deliver(s) ==
  /\ status[s] = "open"
  /\ Len(delivered[s]) < AnswerLen
  /\ delivered' = [delivered EXCEPT ![s] = Append(@, Len(@))]
  /\ UNCHANGED status

\* [DONE] reaches the client.
Complete(s) ==
  /\ Move(s, "open", "complete")
  /\ MayTruncate \/ Len(delivered[s]) = AnswerLen
  /\ UNCHANGED delivered

\* The connection ends without [DONE].
Break(s) ==
  /\ Move(s, "open", "broken")
  /\ UNCHANGED delivered

Next == \E s \in Streams : Open(s) \/ Deliver(s) \/ Complete(s) \/ Break(s)

Spec == Init /\ [][Next]_vars
==============================================================================
