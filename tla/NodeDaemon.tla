------------------------------ MODULE NodeDaemon -----------------------------
(***************************************************************************)
(* The daemon of the active node: NodeDaemon.on_preemption with the proxy, *)
(* the local engine and the standby as it meets them.                      *)
(*                                                                         *)
(* Every preemption notice (watchdog, webhook, manual) starts a task of    *)
(* its own on the daemon's event loop.  An action is what the loop runs    *)
(* between two awaits that suspend; taking the uncontended lock of         *)
(* set_state does not.  The registry keeps the ids of the sessions: their  *)
(* positions only decide the cutoff number, which IngressProxy takes to be *)
(* arbitrary.  The transfer itself is P2PHandover's; here it is what       *)
(* StateTransfer promises of it.                                           *)
(*                                                                         *)
(* An operator marked "Mutant" is a plausible bug of the one below it; no  *)
(* specification uses it.                                                  *)
(***************************************************************************)
EXTENDS Integers

CONSTANTS
  Notices,      \* preemption notices: calls of on_preemption
  Requests,     \* requests that clients may send to the proxy
  Registered,   \* those that may be registered with the daemon itself
  Faults        \* the faults that may happen

FaultKinds ==
  { "sync_lost",       \* no list of active requests from the proxy in time
    "alert_lost",      \* the alert does not reach the proxy
    "alert_late",      \* it reaches the proxy after the daemon gave up on it
    "engine_deaf",     \* an abort or pause fails; its error is swallowed
    "transfer_fails",  \* send_sessions raises
    "frame_mistaken",  \* it returns, but the standby took a frame for another
    "sigterm" }        \* the process is told to stop

ASSUME DaemonAssumption == Registered \subseteq Requests /\ Faults \subseteq FaultKinds

VARIABLES
  state,        \* NodeDaemon.state
  registry,     \* keys of NodeDaemon.active_sessions
  stage,        \* where the task of each notice is suspended
  snapshot,     \* the proxy's answer to /internal/active-requests, while not lost
  toAbort,      \* sessions still to be aborted at the local engine
  toSend,       \* sessions_to_migrate
  stream,       \* per request: "absent", read from "active" or "standby", "done"
  alert,        \* /internal/preemption-alert: "none", "posted", "handled", "lost", or
                \* "late": the daemon gave up on it and the proxy will handle it
  signaled,     \* streams the proxy signaled when it handled the alert
  halted,       \* requests whose generation was aborted
  paused,       \* the local engine was paused
  taken,        \* sessions the standby announced to the proxy
  process       \* the daemon's process: "up", "stopping" or "exited"

task    == <<state, registry, stage, snapshot, toAbort, toSend>>
proxy   == <<stream, alert, signaled>>
engine  == <<halted, paused>>
vars == <<task, proxy, engine, taken, process>>

Lifecycle ==
  <<"HEALTHY", "PREEMPTION_DETECTED", "BUFFERING_INGRESS", "STATE_STREAMING",
    "HANDOVER_COMPLETE", "TERMINATED">>

Running == {"syncing", "answered", "alerting", "aborting", "pausing", "sending",
            "failing", "tearing"}
Stages == Running \cup {"none", "ignored", "done", "raised", "cancelled"}

Init ==
  /\ state = "HEALTHY"
  /\ registry = {}
  /\ stage = [t \in Notices |-> "none"]
  /\ snapshot = {}
  /\ toAbort = {} /\ toSend = {}
  /\ stream = [r \in Requests |-> "absent"]
  /\ alert = "none" /\ signaled = {}
  /\ halted = {} /\ paused = FALSE
  /\ taken = {}
  /\ process = "up"

------------------------------------------------------------------------------
(* The proxy, as far as the daemon depends on it.                          *)

\* A new request goes to the standby once an alert was handled.
Arrive(r) ==
  /\ stream[r] = "absent"
  /\ stream' = [stream EXCEPT ![r] = IF alert = "handled" THEN "standby" ELSE "active"]
  /\ UNCHANGED <<task, alert, signaled, engine, taken, process>>

Finish(r) ==
  /\ stream[r] \in {"active", "standby"}
  /\ stream' = [stream EXCEPT ![r] = "done"]
  /\ UNCHANGED <<task, alert, signaled, engine, taken, process>>

InFlight == {r \in Requests : stream[r] \in {"active", "standby"}}

\* The alert reaches the proxy, which signals every stream in flight.
AlertHandled ==
  /\ alert \in {"posted", "late"}
  /\ alert' = "handled"
  /\ signaled' = InFlight
  /\ UNCHANGED <<task, stream, engine, taken, process>>

------------------------------------------------------------------------------
(* The control API and the registry.                                       *)

Serving == process = "up"

Register(r) ==
  /\ Serving
  /\ r \in Registered
  /\ registry' = registry \cup {r}
  /\ UNCHANGED <<state, stage, snapshot, toAbort, toSend, proxy, engine, taken, process>>

CompleteSession(r) ==
  /\ Serving
  /\ r \in registry \cap Registered
  /\ registry' = registry \ {r}
  /\ UNCHANGED <<state, stage, snapshot, toAbort, toSend, proxy, engine, taken, process>>

------------------------------------------------------------------------------
(* on_preemption.                                                          *)

Alive == process # "exited"

Goto(t, from, to) ==
  /\ Alive
  /\ stage[t] \in from
  /\ stage' = [stage EXCEPT ![t] = to]

\* Mutant: a notice in any state but the last starts a handover.
BeginAgain(t) ==
  /\ state # "TERMINATED"
  /\ Goto(t, {"none"}, IF registry = {} THEN "syncing" ELSE "alerting")
  /\ state' = "PREEMPTION_DETECTED"
  /\ alert' = IF registry = {} THEN alert ELSE "posted"
  /\ UNCHANGED <<registry, snapshot, toAbort, toSend, stream, signaled, engine, taken,
                 process>>

\* The guard and the first transition, without a suspension in between.  With
\* sessions on its registry the daemon does not ask the proxy for them.
Begin(t) ==
  /\ state = "HEALTHY"
  /\ Goto(t, {"none"}, IF registry = {} THEN "syncing" ELSE "alerting")
  /\ state' = "PREEMPTION_DETECTED"
  /\ alert' = IF registry = {} THEN alert ELSE "posted"
  /\ UNCHANGED <<registry, snapshot, toAbort, toSend, stream, signaled, engine, taken,
                 process>>

IgnoreNotice(t) ==
  /\ state # "HEALTHY"
  /\ Goto(t, {"none"}, "ignored")
  /\ UNCHANGED <<state, registry, snapshot, toAbort, toSend, proxy, engine, taken, process>>

\* The proxy lists its requests in flight.
SyncAnswered(t) ==
  /\ Goto(t, {"syncing"}, "answered")
  /\ snapshot' = InFlight
  /\ UNCHANGED <<state, registry, toAbort, toSend, proxy, engine, taken, process>>

\* Mutant: the list fills the registry only if it is still empty.
SyncFillsEmpty(t) ==
  /\ Goto(t, {"answered"}, "alerting")
  /\ registry' = IF registry = {} THEN snapshot ELSE registry
  /\ alert' = "posted"
  /\ UNCHANGED <<state, snapshot, toAbort, toSend, stream, signaled, engine, taken, process>>

\* The list arrives and the alert is posted.
SyncReturns(t) ==
  /\ Goto(t, {"answered"}, "alerting")
  /\ registry' = registry \cup snapshot
  /\ alert' = "posted"
  /\ UNCHANGED <<state, snapshot, toAbort, toSend, stream, signaled, engine, taken, process>>

\* Without a list, the alert is posted all the same.
SyncFails(t) ==
  /\ "sync_lost" \in Faults \/ process = "stopping"
  /\ Goto(t, {"syncing", "answered"}, "alerting")
  /\ snapshot' = {}
  /\ alert' = "posted"
  /\ UNCHANGED <<state, registry, toAbort, toSend, stream, signaled, engine, taken,
                 process>>

\* Mutant: the engine is paused while the alert is under way.
AlertNotAwaited(t) ==
  /\ Goto(t, {"alerting"}, IF registry = {} THEN "pausing" ELSE "aborting")
  /\ state' = "BUFFERING_INGRESS"
  /\ toAbort' = registry
  /\ UNCHANGED <<registry, snapshot, toSend, proxy, engine, taken, process>>

\* The post ends, one way or the other, and the daemon proceeds to the engine.
AlertReturns(t) ==
  /\ Goto(t, {"alerting"}, IF registry = {} THEN "pausing" ELSE "aborting")
  /\ \/ alert = "handled" /\ UNCHANGED alert
     \/ /\ "alert_lost" \in Faults \/ process = "stopping"
        /\ alert = "posted" /\ alert' = "lost"
     \/ /\ "alert_late" \in Faults
        /\ alert = "posted" /\ alert' = "late"
  /\ state' = "BUFFERING_INGRESS"
  /\ toAbort' = registry
  /\ UNCHANGED <<registry, snapshot, toSend, stream, signaled, engine, taken, process>>

\* One abort_request of the engine hook; its failure is logged.
AbortReturns(t, r) ==
  /\ r \in toAbort
  /\ Goto(t, {"aborting"}, IF toAbort = {r} THEN "pausing" ELSE "aborting")
  /\ toAbort' = toAbort \ {r}
  /\ \/ halted' = halted \cup {r}
     \/ "engine_deaf" \in Faults /\ UNCHANGED halted
  /\ UNCHANGED <<state, registry, snapshot, toSend, proxy, paused, taken, process>>

\* The pause of the engine returns, and send_sessions starts.
PauseReturns(t) ==
  /\ Goto(t, {"pausing"}, "sending")
  /\ \/ paused' = TRUE
     \/ "engine_deaf" \in Faults /\ UNCHANGED paused
  /\ state' = "STATE_STREAMING"
  /\ toSend' = registry
  /\ UNCHANGED <<registry, snapshot, toAbort, proxy, halted, taken, process>>

\* The standby takes a session over, also after the daemon gave up waiting.
TakeOver(r) ==
  /\ r \in toSend \ taken
  /\ taken' = taken \cup {r}
  /\ UNCHANGED <<task, proxy, engine, process>>

\* Whatever ACK send_sessions returns is a success, and the ids in it are only
\* logged: that they were all taken over is what StateTransfer promises, unless a
\* frame was mistaken.  HANDOVER_COMPLETE and TERMINATED follow without a suspension.
SendSucceeds(t) ==
  /\ toSend \subseteq taken \/ "frame_mistaken" \in Faults
  /\ Goto(t, {"sending"}, "tearing")
  /\ state' = "TERMINATED"
  /\ UNCHANGED <<registry, snapshot, toAbort, toSend, proxy, engine, taken, process>>

\* Mutant: a failed transfer makes the node ready for another notice.
SendFailsHealthy(t) ==
  /\ "transfer_fails" \in Faults
  /\ Goto(t, {"sending"}, "failing")
  /\ state' = "HEALTHY"
  /\ UNCHANGED <<registry, snapshot, toAbort, toSend, proxy, engine, taken, process>>

\* Mutant: a failed transfer is tried again, without a limit.
SendRetries(t) ==
  /\ "transfer_fails" \in Faults
  /\ Goto(t, {"sending"}, "pausing")
  /\ UNCHANGED <<state, registry, snapshot, toAbort, toSend, proxy, engine, taken, process>>

\* send_sessions raises: the proxy is to be told.
SendFails(t) ==
  /\ "transfer_fails" \in Faults
  /\ Goto(t, {"sending"}, "failing")
  /\ UNCHANGED <<state, registry, snapshot, toAbort, toSend, proxy, engine, taken, process>>

\* The post of the failure ends; the proxy changes nothing upon it.
FailureReturns(t) ==
  /\ Goto(t, {"failing"}, "raised")
  /\ UNCHANGED <<state, registry, snapshot, toAbort, toSend, proxy, engine, taken, process>>

TornDown(t) ==
  /\ Goto(t, {"tearing"}, "done")
  /\ UNCHANGED <<state, registry, snapshot, toAbort, toSend, proxy, engine, taken, process>>

------------------------------------------------------------------------------
(* The end of the process: main and NodeDaemon.stop.                       *)

\* A signal: the HTTP session is closed under the posts in progress.
Terminate ==
  /\ "sigterm" \in Faults
  /\ process = "up"
  /\ process' = "stopping"
  /\ UNCHANGED <<task, proxy, engine, taken>>

\* asyncio.run cancels what is still running.
Exit ==
  /\ process = "stopping"
  /\ process' = "exited"
  /\ stage' = [t \in Notices |-> IF stage[t] \in Running THEN "cancelled" ELSE stage[t]]
  /\ UNCHANGED <<state, registry, snapshot, toAbort, toSend, proxy, engine, taken>>

------------------------------------------------------------------------------
Proceed(t) ==
  \/ SyncAnswered(t) \/ SyncReturns(t) \/ SyncFails(t) \/ AlertReturns(t)
  \/ (\E r \in Requests : AbortReturns(t, r))
  \/ PauseReturns(t) \/ FailureReturns(t) \/ TornDown(t)

TransferEnds(t) == SendSucceeds(t) \/ SendFails(t)

Resume(t) == Proceed(t) \/ TransferEnds(t)

Next ==
  \/ \E r \in Requests :
       Arrive(r) \/ Finish(r) \/ Register(r) \/ CompleteSession(r) \/ TakeOver(r)
  \/ \E t \in Notices : Begin(t) \/ IgnoreNotice(t) \/ Resume(t)
  \/ AlertHandled \/ Terminate \/ Exit

Spec == Init /\ [][Next]_vars

\* The loop resumes a task whose await is over, and the proxy handles the alert.
\* Every post has a timeout, but drain has none: a standby that stops reading holds
\* the transfer, so nothing makes send_sessions return.
FairSpec ==
  /\ Spec
  /\ WF_vars(AlertHandled)
  /\ \A t \in Notices : WF_vars(Proceed(t))

------------------------------------------------------------------------------
(* Properties.                                                             *)

TypeOK ==
  /\ state \in {"HEALTHY", "PREEMPTION_DETECTED", "BUFFERING_INGRESS",
                "STATE_STREAMING", "TERMINATED"}
  /\ registry \subseteq Requests
  /\ stage \in [Notices -> Stages]
  /\ snapshot \subseteq Requests
  /\ toAbort \subseteq Requests
  /\ toSend \subseteq Requests
  /\ stream \in [Requests -> {"absent", "active", "standby", "done"}]
  /\ alert \in {"none", "posted", "handled", "lost", "late"}
  /\ signaled \subseteq Requests
  /\ halted \subseteq Requests
  /\ paused \in BOOLEAN
  /\ taken \subseteq Requests
  /\ process \in {"up", "stopping", "exited"}

\* However many notices arrive, and however they interleave with a handover in
\* progress, one of them at most gets past the guard of on_preemption.
OneHandover ==
  \A t, u \in Notices :
    {stage[t], stage[u]} \cap {"none", "ignored"} = {} => t = u

\* The node moves through its lifecycle in one direction.
LifecycleForward ==
  [][\A i, j \in 1 .. 6 : state = Lifecycle[i] /\ state' = Lifecycle[j] => i <= j]_state

\* A generation is cut short only after the proxy signaled its stream, unless the
\* daemon gave up on its alert: the stream will take what it then reads for the
\* end of the active phase and not for the end of the answer.  A late alert still
\* signals what reads the active node.
HaltedWasSignaled ==
  alert \notin {"lost", "late"} =>
    \A r \in Requests :
      stream[r] = "active" /\ (r \in halted \/ paused) => r \in signaled

\* What the proxy's list brought the daemon is handed over: every request on it that
\* is not registered with the daemon itself, and so may not be completed there, is
\* among the sessions sent to the standby, however registrations and completions
\* interleave with the list, the alert and the aborts.
ListedMeansSent ==
  state \in {"STATE_STREAMING", "TERMINATED"} => snapshot \ Registered \subseteq toSend

\* Every notice is worked off, failures of the proxy and the engine and the end of
\* the process included, unless the transfer never ends: on_preemption then stays
\* in STATE_STREAMING with it.
EveryNoticeResolves ==
  \A t \in Notices :
    stage[t] \in Running ~>
      stage[t] \in Stages \ (Running \cup {"none"}) \/ [](stage[t] = "sending")

\* The node is torn down only after every stream the proxy signaled was handed
\* over, unless its answer is complete.
TerminatedMeansMigrated ==
  state = "TERMINATED" => \A r \in signaled : stream[r] = "active" => r \in taken

==============================================================================
