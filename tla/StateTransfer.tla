---------------------------- MODULE StateTransfer ----------------------------
(***************************************************************************)
(* What the transfer of session state from the active node to the standby  *)
(* promises the active daemon: a success means that the standby has taken  *)
(* over every session.  A failure promises nothing: the standby may have   *)
(* taken over none of them, some, or all, and may still be doing so.       *)
(***************************************************************************)
EXTENDS Integers

CONSTANT Sessions     \* the sessions the active daemon sends

VARIABLES
  taken,              \* the sessions the standby announced to the proxy
  outcome             \* "pending", "success" or "failure", at the active daemon

vars == <<taken, outcome>>

Init == taken = {} /\ outcome = "pending"

TakeOver(k) ==
  /\ taken' = taken \cup {k}
  /\ UNCHANGED outcome

Succeed ==
  /\ outcome = "pending"
  /\ taken = Sessions
  /\ outcome' = "success"
  /\ UNCHANGED taken

Fail ==
  /\ outcome = "pending"
  /\ outcome' = "failure"
  /\ UNCHANGED taken

Next == Succeed \/ Fail \/ \E k \in Sessions : TakeOver(k)

Spec == Init /\ [][Next]_vars
==============================================================================
