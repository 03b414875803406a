--------------------------- MODULE NodeDaemonProofs --------------------------
(***************************************************************************)
(* Theorems about the preempted node's daemon, for any number of notices   *)
(* and of requests.                                                        *)
(***************************************************************************)
EXTENDS NodeDaemon, TLAPS

LEMMA TypeInit == Init => TypeOK
  BY DEF Init, TypeOK, Stages, Lifecycle

LEMMA TypeNext == TypeOK /\ [Next]_vars => TypeOK'
<1> SUFFICES ASSUME TypeOK, [Next]_vars PROVE TypeOK'
  OBVIOUS
<1> USE DaemonAssumption
    DEF TypeOK, Stages, Running, Lifecycle, Goto, InFlight, task, proxy, engine
<1>1. ASSUME NEW r \in Requests,
             Arrive(r) \/ Finish(r) \/ Register(r) \/ CompleteSession(r) \/ TakeOver(r)
      PROVE  TypeOK'
  BY <1>1 DEF Arrive, Finish, Register, CompleteSession, TakeOver
<1>2. ASSUME NEW t \in Notices, Begin(t) \/ IgnoreNotice(t) PROVE TypeOK'
  BY <1>2 DEF Begin, IgnoreNotice
<1>3. ASSUME NEW t \in Notices, SyncAnswered(t) \/ SyncReturns(t) \/ SyncFails(t)
      PROVE  TypeOK'
  BY <1>3 DEF SyncAnswered, SyncReturns, SyncFails
<1>4. ASSUME NEW t \in Notices, AlertReturns(t) PROVE TypeOK'
  BY <1>4 DEF AlertReturns
<1>5. ASSUME NEW t \in Notices, NEW r \in Requests, AbortReturns(t, r) PROVE TypeOK'
  BY <1>5 DEF AbortReturns
<1>6. ASSUME NEW t \in Notices, PauseReturns(t) PROVE TypeOK'
  BY <1>6 DEF PauseReturns
<1>7. ASSUME NEW t \in Notices,
             SendSucceeds(t) \/ SendFails(t) \/ FailureReturns(t) \/ TornDown(t)
      PROVE  TypeOK'
  BY <1>7 DEF SendSucceeds, SendFails, FailureReturns, TornDown
<1>8. CASE AlertHandled \/ Terminate \/ Exit \/ UNCHANGED vars
  BY <1>8 DEF AlertHandled, Terminate, Exit, vars
<1>9. QED
  BY <1>1, <1>2, <1>3, <1>4, <1>5, <1>6, <1>7, <1>8 DEF Next, Resume, Proceed, TransferEnds

\* The variables of the daemon and of its surroundings keep their types.
THEOREM TypeCorrect == Spec => []TypeOK
  BY TypeInit, TypeNext, PTL DEF Spec

------------------------------------------------------------------------------
(* The stages of the one handover and the node's state.                    *)

\* Where the task of the handover is determines the state of the node, as no
\* other task changes it.
StateOfStage ==
  \A t \in Notices :
    /\ stage[t] \in {"syncing", "answered", "alerting"} => state = "PREEMPTION_DETECTED"
    /\ stage[t] \in {"aborting", "pausing"} => state = "BUFFERING_INGRESS"
    /\ stage[t] \in {"sending", "failing", "raised"} => state = "STATE_STREAMING"
    /\ stage[t] \in {"tearing", "done"} => state = "TERMINATED"

HealthyIsIdle == state = "HEALTHY" => \A t \in Notices : stage[t] = "none"

HandoverInv == OneHandover /\ StateOfStage /\ HealthyIsIdle

LEMMA HandoverInit == Init => HandoverInv
  BY DEF Init, HandoverInv, OneHandover, StateOfStage, HealthyIsIdle

LEMMA HandoverNext == TypeOK /\ HandoverInv /\ [Next]_vars => HandoverInv'
<1> SUFFICES ASSUME TypeOK, HandoverInv, [Next]_vars PROVE HandoverInv'
  OBVIOUS
<1> USE DEF TypeOK, HandoverInv, OneHandover, StateOfStage, HealthyIsIdle, Goto,
        task, proxy, engine
<1>1. ASSUME NEW r \in Requests,
             Arrive(r) \/ Finish(r) \/ Register(r) \/ CompleteSession(r) \/ TakeOver(r)
      PROVE  HandoverInv'
  BY <1>1 DEF Arrive, Finish, Register, CompleteSession, TakeOver
<1>2. ASSUME NEW t \in Notices, Begin(t) PROVE HandoverInv'
  BY <1>2 DEF Begin
<1>3. ASSUME NEW t \in Notices, IgnoreNotice(t) PROVE HandoverInv'
  BY <1>3 DEF IgnoreNotice
<1>4. ASSUME NEW t \in Notices, SyncAnswered(t) \/ SyncReturns(t) \/ SyncFails(t)
      PROVE  HandoverInv'
  BY <1>4 DEF SyncAnswered, SyncReturns, SyncFails
<1>5. ASSUME NEW t \in Notices, AlertReturns(t) PROVE HandoverInv'
  BY <1>5 DEF AlertReturns
<1>6. ASSUME NEW t \in Notices, NEW r \in Requests, AbortReturns(t, r)
      PROVE  HandoverInv'
  BY <1>6 DEF AbortReturns
<1>7. ASSUME NEW t \in Notices, PauseReturns(t) PROVE HandoverInv'
  BY <1>7 DEF PauseReturns
<1>8. ASSUME NEW t \in Notices, SendSucceeds(t) PROVE HandoverInv'
  BY <1>8 DEF SendSucceeds
<1>9. ASSUME NEW t \in Notices, SendFails(t) \/ FailureReturns(t) \/ TornDown(t)
      PROVE  HandoverInv'
  BY <1>9 DEF SendFails, FailureReturns, TornDown
<1>10. CASE AlertHandled \/ Terminate \/ UNCHANGED vars
  BY <1>10 DEF AlertHandled, Terminate, vars
<1>11. CASE Exit
  BY <1>11 DEF Exit, Running
<1>12. QED
  BY <1>1, <1>2, <1>3, <1>4, <1>5, <1>6, <1>7, <1>8, <1>9, <1>10, <1>11
     DEF Next, Resume, Proceed, TransferEnds

\* The strengthening of the two theorems below: one task at most is past the
\* guard, and its stage tells the state.
THEOREM HandoverInvariant == Spec => [](TypeOK /\ HandoverInv)
  BY TypeInit, TypeNext, HandoverInit, HandoverNext, PTL DEF Spec

\* One handover per node, however many notices there are: nothing suspends
\* on_preemption between its guard and its first transition.
THEOREM OneHandoverAtMost == Spec => []OneHandover
  BY HandoverInvariant, PTL DEF HandoverInv

\* The lifecycle has one direction.
THEOREM LifecycleIsForward == Spec => LifecycleForward
<1> DEFINE Forward ==
      \A i, j \in 1 .. 6 : state = Lifecycle[i] /\ state' = Lifecycle[j] => i <= j
<1>1. TypeOK /\ HandoverInv /\ [Next]_vars => [Forward]_state
  <2> SUFFICES ASSUME TypeOK, HandoverInv, [Next]_vars, state' # state
               PROVE  Forward
    BY Zenon
  <2> USE DEF HandoverInv, StateOfStage, Goto, Lifecycle
  <2>1. \/ state = "HEALTHY"
        \/ state = "PREEMPTION_DETECTED" /\ state' = "BUFFERING_INGRESS"
        \/ state = "BUFFERING_INGRESS" /\ state' = "STATE_STREAMING"
        \/ state = "STATE_STREAMING" /\ state' = "TERMINATED"
    <3>1. ASSUME NEW r \in Requests,
                 Arrive(r) \/ Finish(r) \/ Register(r) \/ CompleteSession(r) \/ TakeOver(r)
          PROVE  FALSE
      BY <3>1 DEF Arrive, Finish, Register, CompleteSession, TakeOver, task
    <3>2. ASSUME NEW t \in Notices,
                 \/ IgnoreNotice(t) \/ SyncAnswered(t) \/ SyncReturns(t) \/ SyncFails(t)
                 \/ (\E r \in Requests : AbortReturns(t, r))
                 \/ SendFails(t) \/ FailureReturns(t) \/ TornDown(t)
          PROVE  FALSE
      BY <3>2 DEF IgnoreNotice, SyncAnswered, SyncReturns, SyncFails, AbortReturns,
           SendFails, FailureReturns, TornDown
    <3>3. ~(AlertHandled \/ Terminate \/ Exit \/ UNCHANGED vars)
      BY DEF AlertHandled, Terminate, Exit, vars, task
    <3>4. PICK t \in Notices :
            Begin(t) \/ AlertReturns(t) \/ PauseReturns(t) \/ SendSucceeds(t)
      BY <3>1, <3>2, <3>3 DEF Next, Resume, Proceed, TransferEnds
    <3>5. QED
      BY <3>4 DEF Begin, AlertReturns, PauseReturns, SendSucceeds
  <2>2. QED
    BY <2>1
<1>2. QED
  BY <1>1, HandoverInvariant, PTL DEF Spec, LifecycleForward

------------------------------------------------------------------------------
(* The alert and the engine.                                               *)

\* The engine is touched only behind the end of the alert, and from the handled
\* alert on every stream that reads the engine has been signaled.
AlertFirst ==
  /\ state = "HEALTHY" => alert = "none"
  /\ \A t \in Notices :
       /\ stage[t] \in {"syncing", "answered"} => alert = "none"
       /\ stage[t] = "alerting" => alert \in {"posted", "handled"}
       /\ stage[t] \in {"aborting", "pausing"} => alert \in {"handled", "lost", "late"}
  /\ alert \in {"none", "posted"} => halted = {} /\ ~paused
  /\ alert = "handled" => \A r \in Requests : stream[r] = "active" => r \in signaled

LEMMA AlertInit == Init => AlertFirst
  BY DEF Init, AlertFirst

LEMMA AlertNext ==
  ASSUME TypeOK, HandoverInv, AlertFirst, [Next]_vars
  PROVE  AlertFirst'
<1> USE DEF TypeOK, HandoverInv, OneHandover, StateOfStage, HealthyIsIdle,
        AlertFirst, Goto, task, proxy, engine
<1>1. ASSUME NEW r \in Requests,
             Arrive(r) \/ Finish(r) \/ Register(r) \/ CompleteSession(r) \/ TakeOver(r)
      PROVE  AlertFirst'
  BY <1>1 DEF Arrive, Finish, Register, CompleteSession, TakeOver
<1>2. ASSUME NEW t \in Notices, Begin(t) PROVE AlertFirst'
  BY <1>2 DEF Begin
<1>3. ASSUME NEW t \in Notices, IgnoreNotice(t) PROVE AlertFirst'
  BY <1>3 DEF IgnoreNotice
<1>4. ASSUME NEW t \in Notices, SyncAnswered(t) PROVE AlertFirst'
  BY <1>4 DEF SyncAnswered
<1>5. ASSUME NEW t \in Notices, SyncReturns(t) \/ SyncFails(t) PROVE AlertFirst'
  BY <1>5 DEF SyncReturns, SyncFails
<1>6. ASSUME NEW t \in Notices, AlertReturns(t) PROVE AlertFirst'
  BY <1>6 DEF AlertReturns
<1>7. ASSUME NEW t \in Notices, NEW r \in Requests, AbortReturns(t, r)
      PROVE  AlertFirst'
  BY <1>7 DEF AbortReturns
<1>8. ASSUME NEW t \in Notices, PauseReturns(t) PROVE AlertFirst'
  BY <1>8 DEF PauseReturns
<1>9. ASSUME NEW t \in Notices,
             SendSucceeds(t) \/ SendFails(t) \/ FailureReturns(t) \/ TornDown(t)
      PROVE  AlertFirst'
  BY <1>9 DEF SendSucceeds, SendFails, FailureReturns, TornDown
<1>10. CASE AlertHandled
  BY <1>10 DEF AlertHandled, InFlight
<1>11. CASE Terminate \/ Exit \/ UNCHANGED vars
  BY <1>11 DEF Terminate, Exit, vars
<1>12. QED
  BY <1>1, <1>2, <1>3, <1>4, <1>5, <1>6, <1>7, <1>8, <1>9, <1>10, <1>11
     DEF Next, Resume, Proceed, TransferEnds

\* Unless the daemon gave up on its alert, no generation is cut short before the
\* proxy signaled its stream: on_preemption awaits the alert before it touches
\* the engine, and the proxy routes later requests to the standby.
THEOREM HaltedIsSignaled == Spec => []HaltedWasSignaled
<1>1. TypeOK /\ HandoverInv /\ AlertFirst /\ [Next]_vars => AlertFirst'
  BY AlertNext
<1>2. TypeOK /\ AlertFirst => HaltedWasSignaled
  BY DEF TypeOK, AlertFirst, HaltedWasSignaled
<1>3. QED
  BY AlertInit, HandoverInvariant, <1>1, <1>2, PTL DEF Spec

------------------------------------------------------------------------------
(* The requests that the proxy listed.                                     *)

\* The list is in the registry once it arrived, and sent from there.
ListedInv ==
  /\ state = "HEALTHY" => snapshot = {}
  /\ state = "BUFFERING_INGRESS" \/ (\E t \in Notices : stage[t] = "alerting") =>
       snapshot \ Registered \subseteq registry
  /\ ListedMeansSent

LEMMA ListedInit == Init => ListedInv
  BY DEF Init, ListedInv, ListedMeansSent

LEMMA ListedNext ==
  ASSUME TypeOK, HandoverInv, ListedInv, [Next]_vars
  PROVE  ListedInv'
<1> USE DEF TypeOK, HandoverInv, OneHandover, StateOfStage, HealthyIsIdle, ListedInv,
        ListedMeansSent, Goto, task, proxy, engine
<1>1. ASSUME NEW r \in Requests,
             Arrive(r) \/ Finish(r) \/ Register(r) \/ CompleteSession(r) \/ TakeOver(r)
      PROVE  ListedInv'
  BY <1>1 DEF Arrive, Finish, Register, CompleteSession, TakeOver
<1>2. ASSUME NEW t \in Notices, Begin(t) \/ IgnoreNotice(t) PROVE ListedInv'
  BY <1>2 DEF Begin, IgnoreNotice
<1>3. ASSUME NEW t \in Notices, SyncAnswered(t) PROVE ListedInv'
  BY <1>3 DEF SyncAnswered
<1>4. ASSUME NEW t \in Notices, SyncReturns(t) PROVE ListedInv'
  BY <1>4 DEF SyncReturns
<1>5. ASSUME NEW t \in Notices, SyncFails(t) PROVE ListedInv'
  BY <1>5 DEF SyncFails
<1>6. ASSUME NEW t \in Notices, AlertReturns(t) PROVE ListedInv'
  BY <1>6 DEF AlertReturns
<1>7. ASSUME NEW t \in Notices, NEW r \in Requests, AbortReturns(t, r)
      PROVE  ListedInv'
  BY <1>7 DEF AbortReturns
<1>8. ASSUME NEW t \in Notices, PauseReturns(t) PROVE ListedInv'
  BY <1>8 DEF PauseReturns
<1>9. ASSUME NEW t \in Notices,
             SendSucceeds(t) \/ SendFails(t) \/ FailureReturns(t) \/ TornDown(t)
      PROVE  ListedInv'
  BY <1>9 DEF SendSucceeds, SendFails, FailureReturns, TornDown
<1>10. CASE AlertHandled \/ Terminate \/ UNCHANGED vars
  BY <1>10 DEF AlertHandled, Terminate, vars
<1>11. CASE Exit
  BY <1>11 DEF Exit, Running
<1>12. QED
  BY <1>1, <1>2, <1>3, <1>4, <1>5, <1>6, <1>7, <1>8, <1>9, <1>10, <1>11
     DEF Next, Resume, Proceed, TransferEnds

\* What the proxy's list brought the daemon is sent to the standby, whatever else
\* fails.  Left behind are the streams that arrived behind the list
\* (handle_get_active_requests), as the violated TerminatedMeansMigrated shows, or
\* were never listed, since a daemon with sessions on its registry does not ask.
\* That the standby takes what was sent is P2PHandover's to promise.
THEOREM ListedIsSent == Spec => []ListedMeansSent
<1>1. TypeOK /\ HandoverInv /\ ListedInv /\ [Next]_vars => ListedInv'
  BY ListedNext
<1>2. ListedInv => ListedMeansSent
  BY DEF ListedInv
<1>3. QED
  BY ListedInit, HandoverInvariant, <1>1, <1>2, PTL DEF Spec
==============================================================================
