------------------------------- MODULE Watchdog ------------------------------
(***************************************************************************)
(* The preemption watchdogs of daemon/watchdog: the poll loop of the base  *)
(* class with the probes of its AWS, GCP and RunPod subclasses, and the    *)
(* metadata service they ask, as simulator/cloud_metadata.py behaves.      *)
(*                                                                         *)
(* An action is what the event loop runs between two awaits: one HTTP      *)
(* answer, or the end of a sleep.  A probe that returns None and one that  *)
(* raises differ in the length of the sleep that follows, which is         *)
(* abstracted.  The class of the watchdog is chosen in Init and stays.     *)
(*                                                                         *)
(* stop cancels the task of the loop whose handle the watchdog holds and   *)
(* awaits it.  A start that comes in between stores a handle that stop     *)
(* then clears, so that loops may be alive which nothing can cancel.       *)
(*                                                                         *)
(* An operator marked "Mutant" is a plausible bug of the one below it; no  *)
(* specification uses it.                                                  *)
(***************************************************************************)
EXTENDS Integers

CONSTANTS
  Providers,     \* the watchdog classes considered
  Reachable,     \* the probes that the service answers again and again
  MaxLoops,      \* bound: loops at a time
  MaxExpiries,   \* bound: times the service drops its tokens
  MaxWebhooks    \* bound: RunPod webhooks

Probes ==
  [ aws    |-> {"token", "action", "retoken", "reaction"},
    gcp    |-> {"preempted", "preempted2", "maintenance"},
    runpod |-> {"file", "status"} ]

Loops == 1 .. MaxLoops

AllProbes == UNION {Probes[p] : p \in {"aws", "gcp", "runpod"}}

ASSUME WatchdogAssumption ==
  /\ Providers \subseteq {"aws", "gcp", "runpod"}
  /\ Reachable \subseteq AllProbes
  /\ MaxLoops \in Nat
  /\ MaxExpiries \in Nat
  /\ MaxWebhooks \in Nat

VARIABLES
  provider,      \* the class of this watchdog
  running,       \* _running
  handle,        \* the loop that _task is; 0 when it is None
  stops,         \* the loops that calls of stop await
  detected,      \* _preemption_detected
  probe,         \* per loop: the request check_once awaits, or "asleep"; or "over"
  polled,        \* times a loop created a task for notify_callbacks
  notified,      \* of these tasks, those that have run
  hooked,        \* times the webhook called notify_callbacks
  cached,        \* TRUE when _cached_token holds a token
  valid,         \* the service accepts that token
  usable,        \* per loop: it accepts the token that the loop has taken
  notice,        \* "none", "spot", or only on the second channel: "other"
  expiries,      \* times the service dropped its tokens
  overlapped     \* history: a start came while a call of stop was suspended

control == <<running, handle, stops, overlapped>>
notices == <<provider, detected, polled, notified, hooked>>
tokens  == <<cached, valid, usable>>
service == <<notice, expiries>>
vars == <<control, notices, probe, tokens, service>>

Init ==
  /\ provider \in Providers
  /\ running = FALSE /\ handle = 0 /\ stops = {} /\ overlapped = FALSE
  /\ detected = FALSE
  /\ probe = [l \in Loops |-> "over"]
  /\ polled = 0 /\ notified = 0 /\ hooked = 0
  /\ cached = FALSE /\ valid = FALSE /\ usable = [l \in Loops |-> FALSE]
  /\ notice = "none" /\ expiries = 0

------------------------------------------------------------------------------
(* start, stop and the webhook.                                            *)

\* A second start while running is a no-op, also after the loop has ended.
Start(l) ==
  /\ ~running
  /\ probe[l] = "over" /\ l \notin stops
  /\ running' = TRUE
  /\ handle' = l
  /\ probe' = [probe EXCEPT ![l] = "asleep"]
  /\ overlapped' = (overlapped \/ stops # {})
  /\ UNCHANGED <<stops, notices, tokens, service>>

\* Mutant: only a sleeping loop notices that it was stopped.
StopAsleep ==
  /\ running' = FALSE
  /\ IF handle \in Loops /\ probe[handle] # "over"
     THEN /\ probe' = [probe EXCEPT ![handle] = IF @ = "asleep" THEN "over" ELSE @]
          /\ stops' = stops \cup {handle}
          /\ UNCHANGED handle
     ELSE handle' = 0 /\ UNCHANGED <<probe, stops>>
  /\ UNCHANGED <<overlapped, notices, tokens, service>>

\* stop up to its await: the task of the held loop is cancelled wherever it is
\* suspended, and awaited.
Stop ==
  /\ running' = FALSE
  /\ IF handle \in Loops /\ probe[handle] # "over"
     THEN /\ probe' = [probe EXCEPT ![handle] = "over"]
          /\ stops' = stops \cup {handle}
          /\ UNCHANGED handle
     ELSE handle' = 0 /\ UNCHANGED <<probe, stops>>
  /\ UNCHANGED <<overlapped, notices, tokens, service>>

\* The cancelled task is over, and stop forgets the handle, whichever it is by now.
StopReturns(l) ==
  /\ l \in stops
  /\ stops' = stops \ {l}
  /\ handle' = 0
  /\ UNCHANGED <<running, overlapped, notices, probe, tokens, service>>

\* handle_webhook_payload neither asks whether the notice is new nor ends the
\* loop.
Webhook ==
  /\ provider = "runpod"
  /\ hooked < MaxWebhooks
  /\ detected' = TRUE
  /\ hooked' = hooked + 1
  /\ UNCHANGED <<control, provider, polled, notified, probe, tokens, service>>

------------------------------------------------------------------------------
(* The poll loop and the probes.                                           *)

Proceed(l, from, to) ==
  /\ probe[l] = from
  /\ probe' = [probe EXCEPT ![l] = to]
  /\ UNCHANGED <<control, notices, service>>

\* The sleep is over and check_once sends its first request; a cached token
\* older than three hours is not used.
Poll(l) ==
  /\ running
  /\ \/ provider = "aws" /\ Proceed(l, "asleep", "token") /\ UNCHANGED tokens
     \/ /\ provider = "aws" /\ cached /\ Proceed(l, "asleep", "action")
        /\ usable' = [usable EXCEPT ![l] = valid]
        /\ UNCHANGED <<cached, valid>>
     \/ provider = "gcp" /\ Proceed(l, "asleep", "preempted") /\ UNCHANGED tokens
     \/ provider = "runpod" /\ Proceed(l, "asleep", "file") /\ UNCHANGED tokens

\* A loop that was not cancelled looks at _running when it wakes.
Leave(l) == ~running /\ Proceed(l, "asleep", "over") /\ UNCHANGED tokens

\* Mutant: the loop does not look at the flag of an earlier detection.
DetectAgain(l, p) ==
  /\ probe[l] = p
  /\ detected' = TRUE
  /\ polled' = polled + 1
  /\ probe' = [probe EXCEPT ![l] = "over"]
  /\ UNCHANGED <<control, provider, notified, hooked, tokens, service>>

\* A probe returned an event.  The first one creates a task for the callbacks and
\* ends its loop, which leaves _running set; behind another detection or a webhook
\* the loop goes on.
Detect(l, p) ==
  /\ probe[l] = p
  /\ detected' = TRUE
  /\ polled' = IF detected THEN polled ELSE polled + 1
  /\ probe' = [probe EXCEPT ![l] = IF detected THEN "asleep" ELSE "over"]
  /\ UNCHANGED <<control, provider, notified, hooked, tokens, service>>

\* The task runs: the daemon's on_preemption is called, also behind a stop.
Notify ==
  /\ notified < polled
  /\ notified' = notified + 1
  /\ UNCHANGED <<control, provider, detected, polled, hooked, probe, tokens, service>>

\* PUT /latest/api/token: a new token, at first or after a 401.
TokenGranted(l, from, to) ==
  /\ Proceed(l, from, to)
  /\ cached' = TRUE /\ valid' = TRUE
  /\ usable' = [usable EXCEPT ![l] = TRUE]

\* Mutant: a 401 is an answer like 404, and the token is kept.
ActionDeniedKeeps(l) ==
  /\ ~usable[l]
  /\ Proceed(l, "action", "asleep")
  /\ UNCHANGED tokens

\* 401 to the first request: the token is replaced and the request repeated.
ActionDenied(l) ==
  /\ ~usable[l]
  /\ Proceed(l, "action", "retoken")
  /\ UNCHANGED tokens

ActionAnswered(l) ==
  \/ ActionDenied(l)
  \/ usable[l] /\ notice # "none" /\ Detect(l, "action")
  \/ usable[l] /\ notice = "none" /\ Proceed(l, "action", "asleep") /\ UNCHANGED tokens

\* The repeated request; a second 401 is taken for "not preempted".
ReactionAnswered(l) ==
  \/ usable[l] /\ notice # "none" /\ Detect(l, "reaction")
  \/ /\ ~(usable[l] /\ notice # "none")
     /\ Proceed(l, "reaction", "asleep") /\ UNCHANGED tokens

\* GET instance/preempted, or its retry.
PreemptedAnswered(l, p) ==
  \/ notice = "spot" /\ Detect(l, p)
  \/ notice # "spot" /\ Proceed(l, p, "maintenance") /\ UNCHANGED tokens

\* The simulator reports a spot preemption here too.
MaintenanceAnswered(l) ==
  \/ notice # "none" /\ Detect(l, "maintenance")
  \/ notice = "none" /\ Proceed(l, "maintenance", "asleep") /\ UNCHANGED tokens

\* The trigger file; without it, the status endpoint is asked.
FileLookedUp(l) ==
  \/ notice = "other" /\ Detect(l, "file")
  \/ notice # "other" /\ Proceed(l, "file", "status") /\ UNCHANGED tokens

StatusAnswered(l) ==
  \/ notice = "spot" /\ Detect(l, "status")
  \/ notice # "spot" /\ Proceed(l, "status", "asleep") /\ UNCHANGED tokens

\* The service answers as it is meant to.
Answered(l, p) ==
  \/ p = "token" /\ TokenGranted(l, "token", "action")
  \/ p = "retoken" /\ TokenGranted(l, "retoken", "reaction")
  \/ p = "action" /\ ActionAnswered(l)
  \/ p = "reaction" /\ ReactionAnswered(l)
  \/ p \in {"preempted", "preempted2"} /\ PreemptedAnswered(l, p)
  \/ p = "maintenance" /\ MaintenanceAnswered(l)
  \/ p = "file" /\ FileLookedUp(l)
  \/ p = "status" /\ StatusAnswered(l)

\* No answer within the timeout.  Only the first GCP request is repeated; if
\* that fails too, check_once raises and asks nothing else.
Lost(l, p) ==
  /\ p # "file"
  /\ Proceed(l, p, IF p = "preempted" THEN "preempted2" ELSE "asleep")
  /\ UNCHANGED tokens

\* Another status, or a body that does not parse.
Odd(l, p) ==
  /\ p # "file"
  /\ Proceed(l, p, IF p \in {"preempted", "preempted2"} THEN "maintenance" ELSE "asleep")
  /\ UNCHANGED tokens

------------------------------------------------------------------------------
(* The metadata service.                                                   *)

\* GCP's maintenance event and RunPod's trigger file are a channel of their own.
GiveNotice(kind) ==
  /\ notice = "none"
  /\ kind = "other" => provider # "aws"
  /\ notice' = kind
  /\ UNCHANGED <<control, notices, probe, tokens, expiries>>

\* The service forgets its tokens before the watchdog thinks them old, with the
\* notice when it is the simulator that is reset.
Forget ==
  /\ expiries < MaxExpiries
  /\ expiries' = expiries + 1
  /\ valid' = FALSE /\ usable' = [l \in Loops |-> FALSE]
  /\ notice' \in {notice, "none"}
  /\ UNCHANGED <<control, notices, probe, cached>>

------------------------------------------------------------------------------
Respond(l) == \E p \in AllProbes : Answered(l, p) \/ Lost(l, p) \/ Odd(l, p)

Next ==
  \/ \E l \in Loops : Start(l) \/ StopReturns(l) \/ Poll(l) \/ Leave(l) \/ Respond(l)
  \/ Stop \/ Notify \/ Webhook
  \/ (\E kind \in {"spot", "other"} : GiveNotice(kind))
  \/ Forget

Spec == Init /\ [][Next]_vars

\* Sleeps end, requests are answered or time out, tasks run, and a reachable probe
\* that is sent again and again is not lost every time.
FairSpec ==
  /\ Spec
  /\ WF_vars(Notify)
  /\ \A l \in Loops : WF_vars(StopReturns(l)) /\ WF_vars(Poll(l) \/ Leave(l) \/ Respond(l))
  /\ \A p \in Reachable : SF_vars(\E l \in Loops : Answered(l, p))

------------------------------------------------------------------------------
(* Properties.                                                             *)

TypeOK ==
  /\ provider \in Providers
  /\ running \in BOOLEAN
  /\ handle \in {0} \cup Loops
  /\ stops \subseteq Loops
  /\ overlapped \in BOOLEAN
  /\ detected \in BOOLEAN
  /\ probe \in [Loops -> AllProbes \cup {"asleep", "over"}]
  /\ polled \in Nat
  /\ notified \in Nat
  /\ hooked \in 0 .. MaxWebhooks
  /\ cached \in BOOLEAN
  /\ valid \in BOOLEAN
  /\ usable \in [Loops -> BOOLEAN]
  /\ notice \in {"none", "spot", "other"}
  /\ expiries \in 0 .. MaxExpiries

\* Through restarts, webhooks and loops that outlived their stop, polling notifies
\* the daemon once at most: the flag is read and set without an await in between.
PolledOnce == polled <= 1

\* A stopped watchdog detects nothing: an answer that was under way when it was
\* stopped is not acted upon, unless a start ever came in the middle of a stop, whose
\* loop then cannot be cancelled.  The callbacks of an earlier detection may still
\* run.
SilentWhenStopped == [][polled' # polled => running \/ overlapped]_vars

\* A notice that stands while the watchdog runs reaches the daemon, although
\* tokens are dropped and requests are lost in between.
NoticeReachesDaemon ==
  notice # "none" /\ running ~> notified + hooked > 0 \/ ~running \/ notice = "none"
==============================================================================
