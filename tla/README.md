# Formal models of the spot GPU migrator

This directory holds TLA+ models of the migrator's own logic, the TLC runs that
check them on small instances, and TLAPS proofs of the main results for every
value of the constants.  Every definition is read off the Python source;
`PROJECT.json` maps each one to its lines, and lists the runs, the mutants, the
hazards, the findings and the theorems.

## The system

An LLM engine on a spot instance streams tokens to clients through an ingress
proxy.  When the cloud announces that the instance will be reclaimed, a daemon
beside the engine moves the requests in flight to a standby node, and the
clients' streams continue from there.

| Component | State it keeps | Operations | Talks to |
|---|---|---|---|
| Watchdog (`daemon/watchdog`) | running flag, detection flag, cached AWS token | `start`, `stop`, the poll loop, `check_once` (AWS, GCP, RunPod), `handle_webhook_payload` | metadata service by HTTP; daemon by callback |
| Node daemon (`daemon/core/node_daemon.py`) | lifecycle state, session registry | `on_preemption`, registry updates, `start`, `stop` | proxy and engine by HTTP; standby by the P2P client |
| P2P client and server (`daemon/transport`, `daemon/protocol`) | one connection: frames written and read, sessions in flight | `send_sessions`, `_handle_client`, frame reader and writer | each other by TCP; the standby's daemon by callback |
| State serializer (`daemon/memory`, `daemon/serializer`) | one call of `receive_handover`: sessions, error, event | `send_handover`, `receive_handover` | each other by TCP |
| Ingress proxy (`proxy/ingress.py`) | preemption flag, in-flight table | chat completions (both kinds), preemption alert, handover ready, active requests | clients, both engines, the daemons |
| Multiplexer (`proxy/upstream.py`) | per stream: signaled, ready, cutoff, switched | `stream_with_handover`, `signal_preemption`, `signal_handover_ready` | the proxy's handlers, on one loop |
| Deduplicator and ring buffer (`proxy/buffer.py`) | last flushed sequence per request; recent tokens | `filter_chunk`, `record_flushed`, `reset_request`; put, get, slice, clear | the multiplexer |
| Engine hooks (`daemon/integrations`) | the streams they opened, TGI's stop filter | `stream_resumed`, `abort_request`, `pause_request`, `close`, payloads | the engines by HTTP |
| Hook factory (`integrations/factory.py`) | a probe under way, an HTTP session | `create`, `create_sync`, `auto_detect` | the engine by HTTP; the daemon at its start |
| Dashboard (`ui/dashboard.py`) | the monitor's picture of the cluster | `poll_once`, `_apply_telemetry`, rendering | proxy and daemons by HTTP |
| Simulators (`simulator`) | notices, tokens; a mock engine | metadata endpoints, chaos API, token stream | watchdogs, proxy, tests |
| Command line (`cli.py`) | child processes | start, stop, demos | everything, from outside |

Everything concurrent here is asyncio: a process is one event loop, and steps
interleave only where a coroutine really suspends.  All models take the code
between two suspension points as one action.  Between processes, messages are
HTTP posts whose answers may be late or lost, and one FIFO TCP connection.

### What is hard, and what makes each part correct

* **Proxy and multiplexer.**  An alert may arrive at any suspension point of
  any stream: before its session exists, between a read and a write, at the
  cutoff, after the last token.  The standby may replay tokens, refuse, or break
  off; lines may be skipped; clients vanish and leave abandoned generators.
  Correct means: every client receives the answer's tokens in order, each once;
  the mark a standby resumes from is the client's position; nobody is left on
  the dying node unsignaled; `[DONE]` stands behind whole answers; every request
  ends; the tables keep nothing of dead streams.
* **Deduplicator.**  Numbers wrap around the ring, ids are used again, and a slot
  still holds a token of an earlier round.  Correct means: it accepts, refuses
  and recalls what the sequence of accepted tokens gives.
* **Transfer.**  Frames may be damaged, in their payload, in their header or in
  the type byte no checksum covers; either end may vanish, stop reading or time
  out.  Correct means: a positive acknowledgement implies that the standby took
  every session over; none is taken over before the whole transfer was sent; both
  ends finish.
* **Serializer.**  One call of `receive_handover` serves any number of
  connections, which share its list, its error and its event.  Correct means: an
  acknowledgement covers what its sender sent, a returned list was answered for,
  and the call ends.
* **Daemon.**  Notices come from several sources at once; the proxy, the engine
  and the transfer may fail at any step; the process may be told to stop.
  Correct means: one handover at most, a lifecycle in one direction, an engine
  stopped only behind the alert, a node torn down only behind the takeover.
* **Engine hooks.**  Tokens may be generated but not flushed, an abort may meet a
  stream anywhere, generators are dropped and finalized later, stop words
  straddle the pieces of a reply.  Correct means: a resumed session continues
  without a seam and within its budget, an aborted stream is silent, no handle
  outlives its stream, and the stop filter loses, moves and leaks nothing.
* **Hook factory.**  The engine boots, dies and answers late while it is probed.
  Correct means: what is detected is the engine, or vLLM as the documented
  default; the probes' session is released; the daemon starts.
* **Watchdog.**  Probes are lost or malformed, tokens are dropped, the loop is
  stopped and restarted under a probe.  Correct means: a standing notice reaches
  the daemon, once, and not after a stop.
* **Dashboard.**  A poll is put together from four answers of different times,
  and daemons come back under other ids.  Correct means: one node per role, and
  the truth once the cluster stands still.

## The modules

| Module | Models | Notes |
|---|---|---|
| `TokenDelivery` | nothing of the code: what the proxy promises a client | abstract |
| `IngressProxy` | `proxy/ingress.py`, `proxy/upstream.py`, the deduplicator's marks, the engines as far as a stream sees them | implements `TokenDelivery` |
| `TokenLog` | nothing of the code: what the deduplicator promises the multiplexer | abstract |
| `Deduplicator` | `proxy/buffer.py`: `TokenDeduplicator` and `RingBuffer` | implements `TokenLog` |
| `StateTransfer` | nothing of the code: what a transfer promises the daemon | abstract |
| `P2PHandover` | `p2p_client.py`, `p2p_server.py`, `framing.py`, the standby's callback | implements `StateTransfer` |
| `SessionReceiver` | `memory/session.py` | several connections |
| `NodeDaemon` | `on_preemption`, the registry, the end of the process; proxy, engine and transfer as it meets them | uses the transfer as `StateTransfer` promises it |
| `EngineHook` | `integrations/vllm.py`, `sglang.py`, `tensorrt_llm.py`, `tgi.py`, `mock.py`, the mock engine | TGI's filter reduced to tokens withheld |
| `StopFilter` | `SlidingWindowStopFilter` of `tgi.py` | texts, letter by letter |
| `EngineDetect` | `integrations/factory.py`, the daemon's use of it in `__init__` and `start` | |
| `Watchdog` | the poll loop, the three providers' probes, the webhook, the metadata service | |
| `ClusterMonitor` | `ClusterMonitor` of `ui/dashboard.py` | proxy and daemons reduced to their answers |
| `*Proofs` | the theorems of the module named | TLAPS |
| `IntegrationProofs` | the theorems of `StopFilter` and of `EngineDetect` | TLAPS |
| `PollingProofs` | the theorems of `Watchdog` and of `ClusterMonitor` | TLAPS; the two poll loops |
| `MC*` | instances for TLC | |

`StopFilter` and `ClusterMonitor` have their own names for the specification
(`FilterSpec`, `MonitorSpec`, ...), so that a module of proofs can extend each
together with another component.

### IngressProxy

A request is a member of `Streams`; `IdOf` gives its `request_id`, under which
the three tables `inFlight`, `sessions` and `lastFlushed` are indexed, so two
requests may share an entry.  `pc` is the `await` at which a handler is
suspended: `preparing` (`response.prepare`), `forwarding` (the non-streaming
path), `reading` (the upstream), `writing` (a token to the client), `buffering`
(the wait for the standby), `pinging` (a keep-alive written in it), `finishing`
(`[DONE]`), and `abandoned` for a
generator whose client is gone and whose `finally` block is still to run.  A
session object is named by the stream that created it: `held[s]` is the object
a generator works on, `sessions[i]` the one a handler finds under an id.  They
may differ, and an alert reaches only the second.

A token is its place in the answer.  `pos` and `end` are the window of the reply
being read; the standby starts it at 0 or behind the last flushed token, because
some engines honour `start_seq_id` and others replay the prompt, and `max_tokens`
counts from that start.  The number the proxy gives a line is the engine's own or,
of the engines in `Unnumbered` (vLLM sends neither `seq` nor `id:`), a count of the
lines that parsed: `lag` is how far a skipped line has put this count behind, and
below `intact` a request's numbers are the tokens' places.  `[DONE]` of an upstream
and the end of its connection look the same to the generator, and `UpstreamEnds` is
both.

`Faults` names what the environment may do: `early_stop` (the engine stops
without an alert), `silent_stop` (it stops and keeps its connections open),
`standby_outage`, `garbled_line`, `client_gone`.

### Deduplicator

Each request has a ring: `slots` and `seqIds` are the two lists of `RingBuffer`,
and a token's place is its number modulo `Capacity`.  Callers may pass any
number, negative ones too.  `answer` is what the last call returned, so that the
refinement of `TokenLog` compares answers and not only states; there the ring is
a queue of the last `Capacity` tokens.

### P2PHandover and SessionReceiver

The frames of a transfer are numbered: 0 the INIT, 1 to `N` the sessions, `N + 1`
the FIN.  `sent` and `got` count frames written and read, which is all there is to
know of a FIFO stream.  `sender` is where `send_sessions` is suspended,
`receiver` where `_handle_client` is; `reply` is the first frame sent back, for
the client reads one.  Damage is found where the code finds it: a payload by its
CRC (NACK, and the reader goes on), a header by the reader (the connection is
dropped), a type byte not at all: `FrameMistaken` takes a frame for any other.  It
may be lost, end the transfer, fail its validation and close the connection, be
echoed as a heartbeat, or pass for a session, since every field of one has a
default; such phantom sessions are the frames 0 and `N + 1` among `inFlight`.

`link` tells a connection whose end both sides are told of (`down`) from one that
fell silent, because a VM was reclaimed or packets are dropped, without FIN or RST
(`silent`): reads on it never return.

`SessionReceiver` has the same frames on a connection per call.  The handlers
share `handed` (the list), `clientError` and `done` (the event), and the call of
`receive_handover` goes through `listening`, `raising` or `returning` and the
wait for the server to close.  Whether that wait lasts until the handlers end
depends on the version of Python: it does from 3.12 on, which the images use,
and does not in 3.11, which the documents allow.  `waits` is either.  `send_handover` may
fail with its connection open, on a session too large for a frame (`oversized`).

### NodeDaemon

Each notice is a task of its own; `stage[t]` is where it is suspended.
`SyncAnswered` and `SyncReturns` are apart because the proxy's list is computed
before the daemon reads it, and requests arrive in between; so are the alert's
arrival at the proxy and the return of its post, which may give up first
(`alert = "late"`).  `HANDOVER_COMPLETE` is never seen from outside:
`SendSucceeds` passes through it without a suspension.  The transfer is
`StateTransfer`: success only when all sessions are taken over, while a failure
may be followed by takeovers.  The code takes any ACK for a success, whatever ids
it lists, and behind a mistaken frame (`frame_mistaken`) the promise is void.

### EngineHook

A call is one generator of `stream_resumed`; `kind` is the hook it belongs to.
A session is reduced to three numbers: tokens known as text, the last sequence
number flushed, and the count of generated tokens.  A token is its position in
the answer, so `Seamless` can say that the chunks of a resumed call carry the
tokens behind the last flushed one.  `registry` is `_active_streams` of the
hooks that keep one; `severed` marks a connection closed from this side, `cut` a
generation the engine aborted, `halted` a call that an abort met with success.
What TGI's filter holds back is a number of tokens, `withheld`: with a token it
releases any part of the text it holds, and a token counts as withheld until its end
is released.

### StopFilter

A filter is fed pieces of text until it matches or is flushed.  `fed` and `out`
are histories, which the properties compare.  A text is a sequence of letters:
what a stop filter does is about letters.

### EngineDetect

`entry` says who is called: the daemon, `create` or `auto_detect`.  Each probe
is one request, in the order of the code, `attempt` the round.  An engine answers
the paths its own hook's health check and the tests ask of it.  `missed` records
that it failed to answer a path it serves.

### Watchdog

`stop` cancels the task it finds in `_task` and suspends until that task is over; a
`start` in between puts its own there, which `stop` then clears.  So there are
several loops: `handle` is the one in `_task`, `stops` those whose cancellation is
awaited, `overlapped` that such a start ever came.  `probe` is per loop the request
`check_once` awaits, `"asleep"` between polls, `"over"` without a loop.  A detection
creates a task for the callbacks (`polled`), which runs later (`notified`).
`usable` is whether the service accepts the token a loop took with it.  `Answered`
is the service's truthful answer, `Lost` a timeout, `Odd` another status or an
unreadable body.  `notice = "other"` stands for a notice that only the second
channel of a provider carries: GCP's maintenance event, RunPod's trigger file.

### ClusterMonitor

`at` is the request of `poll_once` that is under way, `seen` what this poll has
gathered, `nodes` the monitor's table.  The proxy raises its preemption flag and
never clears it; it starts with it cleared.  `layout` is where the engines and
daemons are, and so whom the urls that `_infer_daemon_urls` guesses lead to: the
right daemon, nobody or, when both engines share a host that is not the proxy's,
the active daemon twice.  A daemon answers with its id, role and state, which the
monitor takes over whatever role the url was meant for.  A daemon may have the id of its
role's demo node, as the command line's default cluster does, and no id of the
other role (`MonitorAssumption`).

## The runs

| Run | Shows | Instance |
|---|---|---|
| `MCIngressFaults` | delivery in order and once up to an unnumbered skip, ledger = client, no stranded stream, tables reclaimed | two streams and a forwarded request, two tokens, an active engine without numbers, all faults but the silent stop; 3.8 million states, symmetric streams |
| `MCIngressAnnounced` | whole answers, every request ends, refinement of `TokenDelivery` | two streams, two tokens, clients may vanish and the engine fall silent, fair event loop; 299 thousand states |
| `MCHandover` | acknowledged means resumed and undamaged, no early takeover, both ends finish, refinement of `StateTransfer` | three sessions, two damaged frames of every kind, connections that break noticed or not, a dying standby, stalls; 23 thousand states |
| `MCReceiver` | acknowledged means complete, returned means answered, the call ends | two calls of one session, one damaged frame of every kind, connections that break noticed or not, an oversized session, hanging senders; 775 thousand states |
| `MCDaemonFaults` | one handover, forward lifecycle, engine stopped only behind the signals, all that was listed is sent, every notice worked off | two notices, two requests, all faults; 348 thousand states |
| `MCWatchdogPolls` | one notification, silence after stop, a notice reaches the daemon | three providers, two loops, two token drops, one webhook; 13 thousand states |
| `MCDeduplicator` | the ring is the window of the last tokens, refinement of `TokenLog` | two requests, two token values, capacity 3, numbers -1 to 7; 8 thousand states |
| `MCStopFilter` | nothing lost or moved, nothing leaks, cut at the stop word, only its beginning withheld | every text of up to 8 letters over two, in pieces of up to 3, four lists of stop words; 4 thousand states |
| `MCEngineHook` | no seam, within budget, live registry, silence after an abort | two calls, own or shared ids, four hooks, five sessions, two chunks; 2.0 million states |
| `MCEngineDetect` | what is detected, the session released, the daemon serves | every engine, entry, type, override, fallback and strictness, two rounds; 35 thousand states |
| `MCMonitor` | one node per role, settles on the truth | two ids per role, four layouts, three events of the cluster, two missed requests; 959 thousand states; with the two of the proxy the longest run, about two minutes each |
| `MCDaemonMissed` | (violated) a terminated node's signaled streams were all handed over | two notices, two requests, no fault at all |

### Where the code and its documents disagree

`MCDaemonMissed` finds a violation of what the documents say of `TERMINATED`
("State verified transferred", `specs/01-system-architecture.md:170`): a request
that arrives between the proxy's list and the alert is signaled and then in no
transfer when the node terminates.  `PROJECT.json` has it as a finding.

Further disagreements show in the models and have no run of their own.  Proxy:

* An engine that stops before its alert ends answers short, with `[DONE]`
  (`early_stop` breaks `WholeAnswer`), although the comment at `upstream.py:139`
  says "OR the active node cut off early".
* A standby that refuses or breaks off ends the answer short, with `[DONE]`
  (`standby_outage`); acceptance criterion TC-09 asks for a fallback node or a
  503 (`specs/03-acceptance-criteria.md:331`).
* The standby is asked with the client's `max_tokens`, so an answer may exceed
  it; `specs/04-production-deployment-and-vllm.md:198` subtracts what was
  generated.
* From an engine that sends no numbers a line that does not parse takes a token
  with it without a gap, since the next line is given its number
  (`ingress.py:238`): the exception `ExactlyOnce` makes.
  `NumberedDeliveryInOrder` says that numbered replies have none.
* Neither `response.write` nor the POST of a forwarded request has a timeout, so a
  client that reads no more and an engine that never answers hold their handlers
  (the exception `EveryRequestEnds` makes).
* Signaled streams stay on an engine that falls silent without closing its
  connections (the exception `EveryRequestEnds` makes); the protocol closes the
  upstream (`specs/02-preemption-and-migration-protocol.md:291`).
* A forwarded request, and one whose response cannot be prepared, never leave
  the in-flight table (the exception `StateReclaimed` makes), so a daemon
  migrates them.
* Requests that share an id, which clients choose, share a ledger and lose tokens
  to each other; `specs/01-system-architecture.md:98` calls it a unique UUIDv4.

Transfer and serializer:

* The CRC covers the payload only: a transfer that lost a session to a changed
  type byte is acknowledged, and a frame taken for the FIN ends one early.
* `send_sessions` and `send_handover` raise on the first NACK; docstrings say
  "automatic retries on CRC32 NACK" (`p2p_client.py:70`) and "up to 2 retries"
  (`session.py:118`).  The receiver meanwhile goes on and may answer the FIN.
* `drain` has no timeout, against `specs/03-acceptance-criteria.md:186`; a peer
  that stops reading holds the sender, and so may `writer.wait_closed` in the client's
  `finally` block (`p2p_client.py:156`), which is not modelled apart.
* The receivers' reads have no timeout (`p2p_server.py:99`, `session.py:219`): a sender
  whose VM is reclaimed without FIN or RST leaves its handler reading for ever, and
  from Python 3.12 on `receive_handover` with it (the exceptions the two
  `ReceiverEnds` make).
* The sessions a changed type byte lets pass (an INIT or FIN read as a state) are
  phantoms that the standby takes over and announces.
* In `receive_handover`, sessions of a sender that broke off stay in the list and
  in the next sender's ACK; the error of one connection makes the call raise
  although another's handover was acknowledged; a timeout may race the answer to
  a FIN, so that one end succeeded and the other raised; and, from Python 3.12 on, a
  silent connection keeps the call from ending past its own timeout, while
  before, the returned list may still grow.

Daemon:

* Any ACK is a success: the ids in it are logged and not compared with what was sent
  (`node_daemon.py:214`), so a node terminates behind a mistaken frame too.
* A standby that stops reading holds `on_preemption` in `STATE_STREAMING` for good, as
  `drain` has no timeout (the exception `EveryNoticeResolves` makes).
* A failed transfer leaves the node in `STATE_STREAMING` for good, behind a guard
  that accepts only `HEALTHY`.
* SIGTERM during a handover cancels it; the log line says "Draining resources...".
* While GCP's first endpoint fails, the maintenance event is not asked for, which
  `specs/02-preemption-and-migration-protocol.md:84` has "Simultaneous or
  alternate tick".
* A `start` while `stop` awaits its task leaves a loop that no later `stop` can cancel,
  since `stop` clears the new handle (`base.py:80`); a notice it receives after
  that `stop` is acted upon (the exception `SilentWhenStopped` makes).  The task
  that runs the callbacks may first run behind a `stop` in any case.

Engine hooks and their factory:

* An abort that meets a call between its post and its registration finds nothing,
  reports success, and the stream then starts.
* Calls that share an id share a handle: the `finally` block of one, also of an
  abandoned one that is finalized after a retry, unregisters the other's.
* A session known from the proxy's list only has no text but a last flushed
  number: its prompt has no prefix and its numbers go on behind that number.  With
  the cutoff at -1 the whole text becomes the prefix while numbers start at 0.
  Both are outside `Tracked`.
* A skipped line shifts the numbers of what follows; a blank one takes a number
  of its own in the hooks of vLLM and Triton; vLLM's hook takes the engine's
  own number unchecked.
* The budget of a resumed request is at least 1, which allows one token too many.
* With several stop words the first of the list that occurs wins, so an
  earlier one may reach the client; the docstring at `tgi.py:33` excludes it.
* The hooks' `ClientTimeout(total=...)`, 5 s by default, covers the whole reply and
  not its start.
* An engine that misses its own probe and answers `/health` is taken for vLLM.
  An explicit type with a fallback, or strict detection that succeeds, raises a
  `TypeError` from the hook's constructor.  `SGM_ENGINE_TYPE` is ignored by a
  daemon that was given a type; an unknown one makes `create` raise, and the
  daemon falls back to vLLM.

Dashboard:

* The fall of the preemption flag is announced as a verified migration ("Zero-Loss
  Verified", `dashboard.py:1093`), but the proxy never clears its flag
  (`ingress.py:264`): it falls when the proxy restarted or a `/status` was missed.
* The daemons' urls are guessed once and for good.  A first poll without `/status`
  takes the proxy's host, so remote daemons stay unseen; upstreams of 127.0.0.1 or
  the names of `deploy/docker-compose.yml` mean another host, or none, to a monitor
  elsewhere; and with both engines on one host other than the proxy's both urls are
  the active daemon's (`dashboard.py:873`).  Then a missed answer leaves two ACTIVE
  nodes in the table and no STANDBY, and otherwise a dead demo STANDBY stays (the
  exception `OneNodePerRole` makes).  A proxy alone counts as a GPU node.
* The countdown starts again at 30 s when a flag is seen again, `RESUMED` sticks,
  and `is_preempting` is never cleared.

### Bounds, and why they are enough

* Two streams are the least number at which an alert meets streams at different
  stages and tables hold several entries; per-stream actions touch two streams
  only through a shared id.  Two tokens put the cutoff before, at and behind the
  end, and allow a replay to start behind, at and before the client's position.
* Three sessions distinguish none, some and all, and a middle one; one damaged
  frame before another distinguishes a NACK from what follows it.  `MaxDamage`
  bounds the damaged frames.  No session is oversized in the run.
* Two calls are the least that share a receiver; what a third would do to one of
  them, the second does.  One session each tells a complete handover from an
  incomplete one; with two the liveness check takes many times as long, and
  the safety theorems hold for any number.
* The two runs of the proxy divide the faults: the safety properties are checked under
  all that may lose or repeat tokens, with an active engine without numbers and a
  standby with them; `silent_stop` only keeps actions from happening and is in the run
  with liveness.  There all requests stream, as a forwarded one may wait for ever for
  its engine.
* Two notices are enough to race; two requests, one of which may be registered
  with the daemon itself, distinguish the two sources of the registry.
* `MaxLoops = 2` is a loop that outlived its stop beside one that is held.
* `MaxExpiries = 2` lets the service drop a token before and after its renewal
  in one poll.  `MaxWebhooks = 1` puts a webhook before or behind a detection.
* Numbers up to 7 go twice around a ring of three; -1 is what callers use before
  the first token.
* Eight letters hold a stop word of four twice over; the lists have a word that
  overlaps itself, one inside another, several and none.
* The five sessions are: new, partly flushed, used up, known to the proxy only,
  and generated but not flushed.  `MaxTokens = 2` has budgets of zero, one and
  two left; `MaxChunks = 2` has a first and a later chunk.
* Two rounds of probes are a first and a repeated one.
* Three events take a daemon away and bring it back under another id, and let the
  proxy restart or a daemon be preempted; two missed requests can strike in one poll or in
  two.
* The theorems do not depend on these bounds.

`CHECK_DEADLOCK FALSE` is set where the system stops: the daemon when its notices
are worked off and its process has exited, a transfer and a receiver when their calls
ended, the hook calls, the stop filter and the detection at their end.

### Fairness

* `IngressProxy`: weak fairness of what the event loop does by itself (`Turn`): it
  resumes a coroutine whose await is over, and an engine that runs sends its next
  line.  Writes and forwarded posts owe nothing (`OthersAct`), nor do clients and
  alerts.  Strong fairness of `Switch`: the wait looks at its limit on every turn,
  between the keep-alives that it may write.  A standby that accepts a request
  and never answers is not modelled; it would hold the stream as a silent engine
  does.
* `P2PHandover`: weak fairness of each end.  The connect and the read of the reply
  have timeouts; `drain` and the receiver's read have none, so nothing makes a stalled
  write or a read from a silent link return.
* `SessionReceiver`: weak fairness of each call, of each handler, and of the
  receiver with its timeout.  A hanging sender and a silent link owe nothing.
* `NodeDaemon`: weak fairness of each task (`Proceed`) and of the proxy's handling of a
  posted alert.  Every post has a timeout; the transfer has none and is not fair.
* `EngineDetect`: weak fairness of the call.  Every probe has a timeout.
* `Watchdog`: weak fairness of each loop, of a `stop` that waits for one, and of the
  task that runs the callbacks; strong fairness of the truthful answer to each
  probe in `Reachable`, for a service that answers again and again.  Requests may be
  lost in between as often as the loop likes.
* `ClusterMonitor`: weak fairness of the poll loop.  The cluster owes nothing;
  that it settles is the premise of the property.

## What is proved

Each component has an inductive invariant, proved by one step per action.

* **Proxy.**  `DeliveryInv` says that table entries and live generators
  correspond one to one, that the ledger is the client's position, and that what
  the client has is an initial segment of the answer, up to the first line
  skipped in an unnumbered reply: exactly-once delivery alone is not inductive,
  since a switch reads its resume point from the ledger through the table.  From it
  follow `ExactlyOnceDelivery`, `NumberedDeliveryInOrder` (all of it, where every
  line has its number or none is skipped: `LinesAreNamed`) and
  `LedgerIsClientPosition`, and with `OccupancyInv` (who has an entry in flight)
  `StateIsReclaimed`.  `StrandingInv` adds that an alert reaches every stream
  that reads the active node (`NoStreamStranded`).  `WholeInv` adds, for an
  engine that stops only behind its alert and a standby that serves, where
  replies end (`AnswersAreWhole`).  With `KindInv` they give
  `ProxyImplementsDelivery`, step by step, for `LinesAreNamed` and an answer that
  fits `max_tokens`.  Assumption of all: `UniqueIds`, which the proxy's own uuids
  meet and clients' ids need not.  `DeliveryPromise` closes the
  circle: `TokenDelivery` entails exactly-once delivery and whole answers, so the
  refinement says no less of a client than the invariants do.
* **Deduplicator.**  `RingIsWindow` is inductive with the types (`WindowKept`): each
  place has the newest number that belongs there.  Lemmas on `%` carry it over a
  put.  `RingImplementsLog` then maps the ring to the queue of `TokenLog`: a put
  behind a full ring drops the queue's head, and a slice of the ring is a slice
  of the queue.
* **Transfer.**  `BaseInv` ties the counters to the stages of both ends
  (`TypeCorrect`, `AckEndsHandover`).  Unless a frame was mistaken, `TransferInv`
  adds that until something is answered nothing is missing, and that
  announcements come behind the FIN: `AckedIsResumed`, `TakeoverAfterFin`,
  `AckedIsUndamaged`, and the refinement `HandoverImplementsTransfer`.
  `TransferPromise` says what the daemon gets from `StateTransfer`: a success
  means that all is taken over, and the verdict stands.
* **Serializer.**  `IInv` has a part per connection (what its handler keeps, and
  that an ACK lists it) and parts for what they share: `TypeCorrect`,
  `AckedIsComplete`, `ReturnedIsAnswered`, for any number of calls.
* **Daemon.**  `HandoverInv` fixes the lifecycle state that goes with each stage
  and that a healthy node has no task past the guard: `OneHandoverAtMost`,
  `LifecycleIsForward`, and `HaltedIsSignaled`.  `ListedInv` follows the proxy's list
  into the registry and the transfer: `ListedIsSent` bounds the finding of
  `MCDaemonMissed`: what the list brought the daemon is sent.  Missed are requests
  that arrive behind the list, and those the proxy never lists because the daemon,
  with sessions of its own, does not ask.  That the standby takes what was sent is
  `AckedIsResumed`, unless a frame was mistaken.
* **Engine hooks.**  `HeldBack` says that only TGI's filter withholds, and no more
  than the engine sent.  `RegistryInv` is inductive with the types
  (`HandlesAreLive`).  `BudgetInv` puts the engine's end between its place and
  `max_tokens` (`ResumedWithinBudget`); lemma `ResumeFits` has what the four
  payloads share.  `Seamless` compares chunks with each other and is not inductive:
  `SeamInv` adds that the engine stands at the token that is due, but for those
  withheld, and `next_seq` at the number of chunks (`ResumedSeamlessly`).  Both are
  about sessions in `Tracked`, whose flushed tokens are known as text, and not about
  those known from the proxy's list only.  `SilenceInv` says that a reading call is
  registered or severed, and a halted one severed (`AbortedIsSilent`, an action
  property).  The session table is whatever `HookAssumption` allows.
* **Stop filter.**  `FilterInv` says that the buffer is the longest end of the
  whole text that may still become a stop word, for every alphabet, text and
  list.  `FeedConserves`, `BufferIsLongest`, `NoLeakBeforeStop` (no whole stop word
  stands in released text), `StreamIsCutAtStop` and `FlushWithholdsStop` follow.
* **Detection.**  `DetectInv` says which probes an engine passed over;
  `HttpInv` who owns the HTTP session: `DetectionErrsToVllm`,
  `ProbesReleaseSession`.
* **Watchdog.**  `LoopInv`: a notification leaves the flag, and unless a start came in
  the middle of a stop the one loop alive is the one held, and none is when stopped
  (`OneLoop`): `PollsNotifyOnce`, `StoppedIsSilent`.
* **Dashboard.**  `TableInv` says that, as long as no url leads to the other role's
  daemon (`Straight`), the table holds one node of each role at all times, and what a
  poll has gathered are answers of the right role; a daemon that is
  found replaces its role's node or updates it (`EnterKeepsProper`):
  `NodesAreReplaced`, which rests on `MonitorAssumption`.

Every safety invariant and action property of the passing runs is a theorem, and
so are the three refinements.  Type correctness (of `EngineHook` also checked by
a run), `NumberedDeliveryInOrder`, `AckEndsHandover`, `BufferIsLongest` and
`DeliveryPromise` are theorems and no properties of runs: nothing of theirs
depends on an instance.

Only model-checked: the liveness properties (`EveryRequestEnds`, `SenderEnds`,
`ReceiverEnds`, `EveryNoticeResolves`, `NoticeReachesDaemon`, `DaemonServes`,
`MonitorSettles`), which rest on fairness and need `ENABLED`, which TLAPS does not
reason about here.

## Mutants

Operators marked "Mutant" are plausible bugs of the operator below them, and no
specification uses them.  Each property of a passing run has one that it
catches, listed in `PROJECT.json`.

## Not modelled, and the plan

Time is not modelled: a timeout may fire at any moment, and latency targets
(250 ms polling, 2.5 s handover) are out of scope.  Contents of prompts and
texts, JSON and UTF-8, log lines and the byte layout of frames are abstracted.  A
malformed cutoff, behind which the alert's handler raises with its flag set
(`ingress.py:264`), is left out: the daemon, its one caller, posts an integer.
Of the dashboard, the layout, the logs, the countdown, the cost figures and the
scripted demo are left out: they compute what is drawn.  The command line writes
deployment files and starts and stops the parts above, the chaos clients post to
the metadata service at times they draw; neither has state of its own.  The
entry points parse arguments.

What is left is `Migration`: notice, daemon, transfer and proxy composed, with the
standby's ready posts lost or late, refining an end-to-end promise to the client.
Today the daemon meets the transfer as `StateTransfer`, which `P2PHandover`
implements, and the proxy meets the daemon as alerts at any time.
