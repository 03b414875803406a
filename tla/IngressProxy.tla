---------------------------- MODULE IngressProxy -----------------------------
(***************************************************************************)
(* The ingress proxy: the HTTP handlers of proxy/ingress.py, the stream    *)
(* multiplexer of proxy/upstream.py and the token deduplicator of          *)
(* proxy/buffer.py, which share one asyncio event loop.                    *)
(*                                                                         *)
(* One action is what the loop runs between two suspension points: a read  *)
(* of the upstream, a write to the client, the handover wait, or a whole   *)
(* internal handler.  A request is a member of Streams; its request_id is  *)
(* IdOf[s] and keys the three tables (in-flight requests, multiplexer      *)
(* sessions, last flushed sequence), so two requests may share an entry.   *)
(* A token is its place in the answer.  The proxy knows it by the number   *)
(* of its line: the engine's own, or, from an engine that sends none, a    *)
(* count of the lines that parsed.  Time is abstracted: the 2.5 s          *)
(* buffering limit may expire at any moment.                               *)
(*                                                                         *)
(* An operator marked "Mutant" is a plausible bug of the one below it; no  *)
(* specification uses it.                                                  *)
(***************************************************************************)
EXTENDS Integers, Sequences

CONSTANTS
  Streams,        \* the chat completion requests
  NonStreaming,   \* those of them with "stream": false
  Ids, IdOf,      \* request ids, and the id of each request
  NoStream,       \* stands for the absence of a session
  OutputLen,      \* tokens the model would generate for a prompt
  MaxTokens,      \* the request's max_tokens
  Unnumbered,     \* the engines whose lines carry no number ("seq" or "id:")
  Faults          \* the faults of the environment that may happen

FaultKinds ==
  { "early_stop",      \* the active engine stops though no alert reached the proxy
    "silent_stop",     \* it stops without closing its connections
    "standby_outage",  \* the standby refuses, answers non-200, or breaks off
    "garbled_line",    \* an SSE data line does not parse and is skipped
    "client_gone" }    \* a write to the client raises

ASSUME IngressAssumption ==
  /\ IdOf \in [Streams -> Ids]
  /\ NonStreaming \subseteq Streams
  /\ NoStream \notin Streams
  /\ OutputLen \in Nat
  /\ MaxTokens \in Nat \ {0}
  /\ Unnumbered \subseteq {"active", "standby"}
  /\ Faults \subseteq FaultKinds

VARIABLES
  preemptionActive,  \* IngressProxy.is_preemption_active
  inFlight,          \* keys of IngressProxy.in_flight_requests
  sessions,          \* StreamMultiplexer.active_sessions: id -> its creator
  lastFlushed,       \* TokenDeduplicator._last_flushed, -1 when absent
  signaled,          \* per session object: preemption_signaled
  ready,             \*   handover_ready
  cutoff,            \*   cutoff_sequence_id
  pc,                \* where each request's handler is suspended
  held,              \* the session object its generator holds
  switched,          \* its switched_to_standby
  upstream,          \* the engine it reads: "active" or "standby"
  pos,               \* the token on the next line of that reply
  end,               \* where that reply ends: its [DONE] stands for token end
  lag,               \* how far the proxy's count of its lines is behind pos
  intact,            \* the request's numbers below this one are the tokens' own
  client,            \* token numbers written to its client
  done,              \* TRUE once [DONE] was written
  activeEngine       \* "up", "closed" or "silent"

tables   == <<inFlight, sessions, lastFlushed>>
objects  == <<signaled, ready, cutoff>>
reply    == <<upstream, pos, end, lag, intact>>
delivery == <<client, done>>
vars == <<preemptionActive, tables, objects, pc, held, switched, reply,
          delivery, activeEngine>>

\* Generator frames that have entered stream_with_handover and not left it.
Live == {"reading", "writing", "buffering", "pinging", "finishing", "abandoned"}
Stages == Live \cup {"idle", "preparing", "forwarding", "ended"}

------------------------------------------------------------------------------
(* Arrival.                                                                *)

Init ==
  /\ preemptionActive = FALSE
  /\ inFlight = {}
  /\ sessions = [i \in Ids |-> NoStream]
  /\ lastFlushed = [i \in Ids |-> -1]
  /\ signaled = [s \in Streams |-> FALSE]
  /\ ready = [s \in Streams |-> FALSE]
  /\ cutoff = [s \in Streams |-> -1]
  /\ pc = [s \in Streams |-> "idle"]
  /\ held = [s \in Streams |-> NoStream]
  /\ switched = [s \in Streams |-> FALSE]
  /\ upstream = [s \in Streams |-> "active"]
  /\ pos = [s \in Streams |-> 0]
  /\ end = [s \in Streams |-> 0]
  /\ lag = [s \in Streams |-> 0]
  /\ intact = [s \in Streams |-> OutputLen]
  /\ client = [s \in Streams |-> <<>>]
  /\ done = [s \in Streams |-> FALSE]
  /\ activeEngine = "up"

Goto(s, from, to) ==
  /\ pc[s] = from
  /\ pc' = [pc EXCEPT ![s] = to]

\* The body has been read: the request is recorded, then either forwarded as
\* a whole or its SSE response is prepared.
Arrive(s) ==
  /\ Goto(s, "idle", IF s \in NonStreaming THEN "forwarding" ELSE "preparing")
  /\ inFlight' = inFlight \cup {IdOf[s]}
  /\ UNCHANGED <<preemptionActive, sessions, lastFlushed, objects, held,
                 switched, reply, delivery, activeEngine>>

\* The engine's answer (or a 503) is returned; nothing is taken off inFlight.
Forwarded(s) ==
  /\ Goto(s, "forwarding", "ended")
  /\ UNCHANGED <<preemptionActive, tables, objects, held, switched, reply,
                 delivery, activeEngine>>

\* response.prepare raises outside the try block that would clear inFlight.
PrepareFails(s) ==
  /\ "client_gone" \in Faults
  /\ Goto(s, "preparing", "ended")
  /\ UNCHANGED <<preemptionActive, tables, objects, held, switched, reply,
                 delivery, activeEngine>>

\* The exclusive end of the reply to a request for tokens from start on: the
\* engine generates up to max_tokens tokens, counted from start.
EngineEnd(start) ==
  IF start + MaxTokens < OutputLen THEN start + MaxTokens ELSE OutputLen

OpenUpstream(s, engine, start) ==
  /\ upstream' = [upstream EXCEPT ![s] = engine]
  /\ pos' = [pos EXCEPT ![s] = start]
  /\ end' = [end EXCEPT ![s] = EngineEnd(start)]
  /\ lag' = [lag EXCEPT ![s] = 0]
  /\ intact' = intact

\* Mutant: the upstream was chosen before response.prepare was awaited.
StartStale(s) ==
  /\ Goto(s, "preparing", "reading")
  /\ OpenUpstream(s, "active", 0)
  /\ sessions' = [sessions EXCEPT ![IdOf[s]] = s]
  /\ held' = [held EXCEPT ![s] = s]
  /\ UNCHANGED <<preemptionActive, inFlight, lastFlushed, objects, switched,
                 delivery, activeEngine>>

\* From the return of response.prepare to the first read: choice of the
\* upstream, get_or_create_session and the POST, without a suspension.
Start(s) ==
  /\ Goto(s, "preparing", "reading")
  /\ OpenUpstream(s, IF preemptionActive THEN "standby" ELSE "active", 0)
  /\ LET mine == IF sessions[IdOf[s]] = NoStream THEN s ELSE sessions[IdOf[s]]
     IN  /\ sessions' = [sessions EXCEPT ![IdOf[s]] = mine]
         /\ held' = [held EXCEPT ![s] = mine]
  /\ UNCHANGED <<preemptionActive, inFlight, lastFlushed, objects, switched,
                 delivery, activeEngine>>

------------------------------------------------------------------------------
(* Reading an upstream and writing to the client.                          *)

\* A stopped engine that left its connection open never produces a line.
Hanging(s) == upstream[s] = "active" /\ activeEngine = "silent"

Readable(s) == pc[s] = "reading" /\ pos[s] < end[s] /\ ~Hanging(s)

\* The sequence_id the next line of the reply is given.
Number(s) == pos[s] - lag[s]

\* The test after each chunk of Phase 1: signaled, and the chunk with sequence
\* number q has reached the cutoff.
CutoffReached(s, q) ==
  /\ ~switched[s]
  /\ signaled[held[s]]
  /\ cutoff[held[s]] >= 0
  /\ q >= cutoff[held[s]]

\* Phase 1 ends in the buffering loop when q reached the cutoff; otherwise
\* the next chunk is read.
NextChunk(s, q) ==
  /\ pc' = [pc EXCEPT ![s] = IF CutoffReached(s, q) THEN "buffering" ELSE "reading"]
  /\ switched' = [switched EXCEPT ![s] = @ \/ CutoffReached(s, q)]

\* Mutant: filter_chunk passes replayed tokens.
TakeTokenAgain(s) ==
  /\ Readable(s)
  /\ Number(s) <= lastFlushed[IdOf[s]] + 1
  /\ lastFlushed' = [lastFlushed EXCEPT ![IdOf[s]] = Number(s)]
  /\ pos' = [pos EXCEPT ![s] = @ + 1]
  /\ pc' = [pc EXCEPT ![s] = "writing"]
  /\ UNCHANGED <<preemptionActive, inFlight, sessions, objects, held, switched,
                 upstream, end, lag, intact, delivery, activeEngine>>

\* filter_chunk passes the next token: it is recorded as flushed, then the
\* write to the client begins.
TakeToken(s) ==
  /\ Readable(s)
  /\ Number(s) = lastFlushed[IdOf[s]] + 1
  /\ lastFlushed' = [lastFlushed EXCEPT ![IdOf[s]] = Number(s)]
  /\ pos' = [pos EXCEPT ![s] = @ + 1]
  /\ pc' = [pc EXCEPT ![s] = "writing"]
  /\ UNCHANGED <<preemptionActive, inFlight, sessions, objects, held, switched,
                 upstream, end, lag, intact, delivery, activeEngine>>

\* Mutant: a dropped duplicate moves the flushed mark back.
DropDuplicateRewinds(s) ==
  /\ Readable(s)
  /\ Number(s) <= lastFlushed[IdOf[s]]
  /\ lastFlushed' = [lastFlushed EXCEPT ![IdOf[s]] = Number(s)]
  /\ pos' = [pos EXCEPT ![s] = @ + 1]
  /\ NextChunk(s, Number(s))
  /\ UNCHANGED <<preemptionActive, inFlight, sessions, objects, held, upstream,
                 end, lag, intact, delivery, activeEngine>>

\* filter_chunk drops a token that was flushed before.
DropDuplicate(s) ==
  /\ Readable(s)
  /\ Number(s) <= lastFlushed[IdOf[s]]
  /\ pos' = [pos EXCEPT ![s] = @ + 1]
  /\ NextChunk(s, Number(s))
  /\ UNCHANGED <<preemptionActive, tables, objects, held, upstream, end, lag,
                 intact, delivery, activeEngine>>

\* A data line that does not parse is logged and skipped.  The count of lines
\* stays, so the next line of an unnumbered reply is given the skipped number.
SkipLine(s) ==
  /\ "garbled_line" \in Faults
  /\ Readable(s)
  /\ pos' = [pos EXCEPT ![s] = @ + 1]
  /\ IF upstream[s] \in Unnumbered
     THEN /\ lag' = [lag EXCEPT ![s] = @ + 1]
          /\ intact' = [intact EXCEPT ![s] = IF Number(s) < @ THEN Number(s) ELSE @]
     ELSE UNCHANGED <<lag, intact>>
  /\ UNCHANGED <<preemptionActive, tables, objects, pc, held, switched,
                 upstream, end, delivery, activeEngine>>

\* The finally block of stream_with_handover.
ReleaseSession(s) ==
  /\ sessions' = [sessions EXCEPT ![IdOf[s]] = NoStream]
  /\ lastFlushed' = [lastFlushed EXCEPT ![IdOf[s]] = -1]

\* The finally block of handle_chat_completions.
LeaveInFlight(s) == inFlight' = inFlight \ {IdOf[s]}

\* filter_chunk raises TokenSequenceGapError: the response ends, no [DONE].
GapDetected(s) ==
  /\ Readable(s)
  /\ Number(s) > lastFlushed[IdOf[s]] + 1
  /\ Goto(s, "reading", "ended")
  /\ ReleaseSession(s)
  /\ LeaveInFlight(s)
  /\ UNCHANGED <<preemptionActive, objects, held, switched, reply, delivery,
                 activeEngine>>

\* Mutant: the loop is left at the cutoff before the chunk is yielded.
WriteReturnsShort(s) ==
  /\ pc[s] = "writing"
  /\ client' = [client EXCEPT
       ![s] = IF CutoffReached(s, Number(s) - 1) THEN @ ELSE Append(@, pos[s] - 1)]
  /\ NextChunk(s, Number(s) - 1)
  /\ UNCHANGED <<preemptionActive, tables, objects, held, reply, done,
                 activeEngine>>

\* The write of the chunk just read, token pos - 1, returns.
WriteReturns(s) ==
  /\ pc[s] = "writing"
  /\ client' = [client EXCEPT ![s] = Append(@, pos[s] - 1)]
  /\ NextChunk(s, Number(s) - 1)
  /\ UNCHANGED <<preemptionActive, tables, objects, held, reply, done,
                 activeEngine>>

\* The upstream iterator is exhausted: at [DONE], or because the engine closed
\* the connection, refused it or answered with an error.
AtEof(s) ==
  /\ pc[s] = "reading"
  /\ ~Hanging(s)
  /\ \/ pos[s] = end[s]
     \/ upstream[s] = "active" /\ activeEngine = "closed"
     \/ upstream[s] = "standby" /\ "standby_outage" \in Faults

\* Mutant: only a stream whose cutoff is known is handed over at the end.
UpstreamEndsUnlessCutoff(s) ==
  /\ AtEof(s)
  /\ LET handover == ~switched[s] /\ signaled[held[s]] /\ cutoff[held[s]] >= 0
     IN  /\ pc' = [pc EXCEPT ![s] = IF handover THEN "buffering" ELSE "finishing"]
         /\ switched' = [switched EXCEPT ![s] = @ \/ handover]
  /\ UNCHANGED <<preemptionActive, tables, objects, held, reply, delivery,
                 activeEngine>>

\* A signaled stream goes to the standby once; any other is closed with [DONE].
UpstreamEnds(s) ==
  /\ AtEof(s)
  /\ LET handover == ~switched[s] /\ signaled[held[s]]
     IN  /\ pc' = [pc EXCEPT ![s] = IF handover THEN "buffering" ELSE "finishing"]
         /\ switched' = [switched EXCEPT ![s] = @ \/ handover]
  /\ UNCHANGED <<preemptionActive, tables, objects, held, reply, delivery,
                 activeEngine>>

\* [DONE] is written, the generator and the handler return.
DoneReturns(s) ==
  /\ Goto(s, "finishing", "ended")
  /\ done' = [done EXCEPT ![s] = TRUE]
  /\ ReleaseSession(s)
  /\ LeaveInFlight(s)
  /\ UNCHANGED <<preemptionActive, objects, held, switched, reply, client,
                 activeEngine>>

\* A write (token, keep-alive or [DONE]) raises: the handler returns at once
\* and drops the generator, which still owns its session.
ClientGone(s) ==
  /\ "client_gone" \in Faults
  /\ pc[s] \in {"writing", "pinging", "finishing"}
  /\ pc' = [pc EXCEPT ![s] = "abandoned"]
  /\ LeaveInFlight(s)
  /\ UNCHANGED <<preemptionActive, sessions, lastFlushed, objects, held,
                 switched, reply, delivery, activeEngine>>

\* Mutant: the cleanup is not in a finally block.
FinalizeLeaks(s) ==
  /\ Goto(s, "abandoned", "ended")
  /\ UNCHANGED <<preemptionActive, tables, objects, held, switched, reply,
                 delivery, activeEngine>>

\* The event loop closes the dropped generator and its finally block runs.
Finalize(s) ==
  /\ Goto(s, "abandoned", "ended")
  /\ ReleaseSession(s)
  /\ UNCHANGED <<preemptionActive, inFlight, objects, held, switched, reply,
                 delivery, activeEngine>>

------------------------------------------------------------------------------
(* The handover wait and the standby.                                      *)

\* Every 0.8 s of the wait a keep-alive comment is written to the client.
KeepAlive(s) ==
  /\ Goto(s, "buffering", "pinging")
  /\ ~ready[held[s]]
  /\ UNCHANGED <<preemptionActive, tables, objects, held, switched, reply,
                 delivery, activeEngine>>

PingReturns(s) ==
  /\ Goto(s, "pinging", "buffering")
  /\ UNCHANGED <<preemptionActive, tables, objects, held, switched, reply,
                 delivery, activeEngine>>

\* standby_factory asks for the tokens after the last flushed one.  An engine
\* that knows start_seq_id, and then numbers its lines, resumes there; any other
\* replays from token 0.
ResumePoints(s) ==
  {0} \cup {q \in {lastFlushed[IdOf[s]] + 1} : "standby" \notin Unnumbered}

ConnectStandby(s) ==
  /\ Goto(s, "buffering", "reading")
  /\ \E start \in ResumePoints(s) : OpenUpstream(s, "standby", start)

SwitchToStandby(s) ==
  /\ ConnectStandby(s)
  /\ ready[held[s]]
  /\ UNCHANGED <<preemptionActive, tables, objects, held, switched, delivery,
                 activeEngine>>

\* Mutant: the buffering limit is only watched when the cutoff is known.
ForceStandbyAtCutoff(s) ==
  /\ ConnectStandby(s)
  /\ ~ready[held[s]]
  /\ cutoff[held[s]] >= 0
  /\ ready' = [ready EXCEPT ![held[s]] = TRUE]
  /\ UNCHANGED <<preemptionActive, tables, signaled, cutoff, held, switched,
                 delivery, activeEngine>>

\* After 2.5 s without a ready signal the session marks itself ready.
ForceStandby(s) ==
  /\ ConnectStandby(s)
  /\ ~ready[held[s]]
  /\ ready' = [ready EXCEPT ![held[s]] = TRUE]
  /\ UNCHANGED <<preemptionActive, tables, signaled, cutoff, held, switched,
                 delivery, activeEngine>>

\* POST /internal/preemption-alert with one cutoff for every request.  The flag
\* is set before the cutoff is parsed; the daemon, its one caller, posts an integer.
PreemptionAlert(k) ==
  LET hit == {sessions[i] : i \in inFlight} \ {NoStream}
  IN  /\ preemptionActive' = TRUE
      /\ signaled' = [s \in Streams |-> signaled[s] \/ s \in hit]
      /\ cutoff' = [s \in Streams |-> IF s \in hit THEN k ELSE cutoff[s]]
      /\ UNCHANGED <<tables, ready, pc, held, switched, reply, delivery,
                     activeEngine>>

\* POST /internal/handover-ready for one request id.
HandoverReady(i) ==
  /\ sessions[i] # NoStream
  /\ ready' = [ready EXCEPT ![sessions[i]] = TRUE]
  /\ UNCHANGED <<preemptionActive, tables, signaled, cutoff, pc, held,
                 switched, reply, delivery, activeEngine>>

\* The active engine stops: the daemon pauses it once it has alerted the proxy,
\* or the instance is reclaimed.
StopActive(how) ==
  /\ activeEngine = "up"
  /\ preemptionActive \/ "early_stop" \in Faults
  /\ how = "silent" => "silent_stop" \in Faults
  /\ activeEngine' = how
  /\ UNCHANGED <<preemptionActive, tables, objects, pc, held, switched, reply,
                 delivery>>

------------------------------------------------------------------------------
\* What the event loop does by itself once the engine's bytes are there.
Turn(s) ==
  \/ Start(s)
  \/ TakeToken(s) \/ DropDuplicate(s) \/ SkipLine(s) \/ GapDetected(s)
  \/ UpstreamEnds(s) \/ Finalize(s)

\* A write returns once the client has read enough of what was written before,
\* a forwarded request once the engine has the whole answer.
OthersAct(s) == Forwarded(s) \/ WriteReturns(s) \/ PingReturns(s) \/ DoneReturns(s)

Switch(s) == SwitchToStandby(s) \/ ForceStandby(s)

Step(s) == Turn(s) \/ OthersAct(s) \/ KeepAlive(s) \/ Switch(s)

Next ==
  \/ \E s \in Streams : Arrive(s) \/ PrepareFails(s) \/ ClientGone(s) \/ Step(s)
  \/ \E k \in -1 .. OutputLen - 1 : PreemptionAlert(k)
  \/ \E i \in Ids : HandoverReady(i)
  \/ \E how \in {"closed", "silent"} : StopActive(how)

Spec == Init /\ [][Next]_vars

\* The event loop resumes every handler whose awaited event has happened, and a
\* running engine sends its next line.  OthersAct is not fair: response.write and
\* the forwarding POST have no timeout.  The limit of the handover wait is looked
\* at on every turn of its loop, keep-alives or not.
FairSpec ==
  Spec /\ \A s \in Streams : WF_vars(Turn(s)) /\ SF_vars(Switch(s))

------------------------------------------------------------------------------
(* Properties.                                                             *)

Tokens == 0 .. OutputLen - 1

TypeOK ==
  /\ preemptionActive \in BOOLEAN
  /\ inFlight \subseteq Ids
  /\ sessions \in [Ids -> Streams \cup {NoStream}]
  /\ lastFlushed \in [Ids -> Tokens \cup {-1}]
  /\ signaled \in [Streams -> BOOLEAN]
  /\ ready \in [Streams -> BOOLEAN]
  /\ cutoff \in [Streams -> Tokens \cup {-1}]
  /\ pc \in [Streams -> Stages]
  /\ held \in [Streams -> Streams \cup {NoStream}]
  /\ switched \in [Streams -> BOOLEAN]
  /\ upstream \in [Streams -> {"active", "standby"}]
  /\ pos \in [Streams -> 0 .. OutputLen]
  /\ end \in [Streams -> 0 .. OutputLen]
  /\ lag \in [Streams -> 0 .. OutputLen]
  /\ intact \in [Streams -> 0 .. OutputLen]
  /\ client \in [Streams -> Seq(Tokens)]
  /\ done \in [Streams -> BOOLEAN]
  /\ activeEngine \in {"up", "closed", "silent"}

\* The handler of s has an entry in flight: it is under way, or ended without
\* a stream, on the two paths that never reach the finally block.
Occupies(s) ==
  \/ pc[s] \in Stages \ {"idle", "abandoned", "ended"}
  \/ pc[s] = "ended" /\ held[s] = NoStream

\* No two requests use the same request_id.
UniqueIds == \A s, t \in Streams : IdOf[s] = IdOf[t] => s = t

\* Exactly once: what a client received is an initial segment of the answer,
\* each token once and in order, through any number of alerts, switches,
\* replays, skipped lines and outages (TokenDeduplicator.filter_chunk with the
\* resumption point of standby_factory), up to the first line that was skipped
\* in a reply without numbers.
ExactlyOnce ==
  \A s \in Streams : \A i \in 1 .. Len(client[s]) :
    i <= intact[s] => client[s][i] = i - 1

\* No line is skipped, or every line carries its number: intact never moves.
LinesAreNamed == "garbled_line" \notin Faults \/ Unnumbered = {}

\* The deduplicator's mark is the client's position: while a generator runs,
\* the last flushed number is the last token written, or the one whose write
\* is under way.  The mark is what the daemon and the standby are told.
LedgerMatchesClient ==
  \A s \in Streams :
    /\ pc[s] \in {"reading", "buffering", "pinging", "finishing"} =>
         Len(client[s]) = lastFlushed[IdOf[s]] + 1
    /\ pc[s] = "writing" =>
         /\ Len(client[s]) = lastFlushed[IdOf[s]]
         /\ Number(s) = lastFlushed[IdOf[s]] + 1

\* No stream is left behind: once an alert was handled, every stream that still
\* depends on the active engine has been told, also one that was between its
\* arrival and its first read when the alert came.
NoStrandedStream ==
  preemptionActive =>
    \A s \in Streams :
      pc[s] \in {"reading", "writing"} /\ upstream[s] = "active" /\ ~switched[s] =>
        signaled[held[s]]

\* A session or a flushed mark exists only while a generator owns it, also
\* when the client disappears and the generator is finalised later; an entry in
\* flight only while its handler runs, or behind one that never streamed.
StateReclaimed ==
  \A i \in Ids :
    /\ sessions[i] # NoStream => pc[sessions[i]] \in Live /\ IdOf[sessions[i]] = i
    /\ lastFlushed[i] >= 0 => \E s \in Streams : IdOf[s] = i /\ pc[s] \in Live
    /\ i \in inFlight => \E s \in Streams : IdOf[s] = i /\ Occupies(s)

AnswerLen == EngineEnd(0)

\* A response closed with [DONE] is the whole answer, wherever the alert, the
\* engine's stop and the switch fell in it.
WholeAnswer == \A s \in Streams : done[s] => Len(client[s]) = AnswerLen

\* The handler awaits a write to its client, or an answer to forward.
AwaitsOther(s) == pc[s] \in {"writing", "pinging", "finishing", "forwarding"}

\* Every request that arrived is answered or its connection is closed, but for the
\* ways to wait without a limit: reading an engine that fell silent (the alert is
\* looked at between chunks only), writing to a client that never reads again, and
\* forwarding to an engine that never answers.  The handover wait is none of them,
\* whether or not a ready signal comes.
EveryRequestEnds ==
  \A s \in Streams :
    pc[s] # "idle" ~>
      \/ pc[s] = "ended"
      \/ pc[s] = "reading" /\ Hanging(s)
      \/ []AwaitsOther(s)

\* The client's view of the stages above.
ClientStatus ==
  [s \in Streams |->
     IF done[s] THEN "complete"
     ELSE IF s \in NonStreaming \/ pc[s] = "idle" THEN "waiting"
     ELSE IF pc[s] \in {"ended", "abandoned"} THEN "broken"
     ELSE "open"]

\* Faults after which the code closes a short answer with [DONE].
Truncating == {"early_stop", "standby_outage", "garbled_line"}

Delivery == INSTANCE TokenDelivery WITH
  delivered <- client, status <- ClientStatus,
  MayTruncate <- Faults \cap Truncating # {}

\* The proxy implements the delivery it promises.
ImplementsDelivery == Delivery!Spec

==============================================================================
