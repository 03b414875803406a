------------------------------ MODULE EngineHook -----------------------------
(***************************************************************************)
(* The hook through which a node drives its inference engine: resuming a   *)
(* migrated session (stream_resumed), halting one (abort_request,          *)
(* pause_request) and close, for the hooks of vLLM (SGLang's differs from  *)
(* it in hints only), the mock engine, Triton and TGI.                     *)
(*                                                                         *)
(* A call is one generator of stream_resumed; its consumer takes chunk     *)
(* after chunk and may drop it.  An action is what runs between two        *)
(* awaits; a chunk is yielded in the action that read its line.  A token   *)
(* is its position in the answer.  The text inside the TGI stream is       *)
(* StopFilter's; here the filter releases and withholds what it likes.     *)
(*                                                                         *)
(* An operator marked "Mutant" is a plausible bug of the one below it; no  *)
(* specification uses it.                                                  *)
(***************************************************************************)
EXTENDS Integers, Sequences

CONSTANTS
  Kinds,        \* hooks to consider
  Calls,        \* calls of stream_resumed
  Ids,          \* request ids
  NoCall,       \* no call
  Sessions,     \* sessions to resume
  MaxTokens,    \* sampling_params.max_tokens
  MaxChunks,    \* bound on the chunks of one call
  Faults        \* the faults that may happen

HookKinds == {"vllm", "mock", "triton", "tgi"}
FaultKinds ==
  { "unreadable",   \* a line of the reply cannot be parsed
    "blank" }       \* a line carries no text: a role, the usage figures

\* A session knows how many tokens have been generated, as texts and as a count,
\* and the last sequence number flushed to the client.
Session == [text : Nat, flushed : Nat \cup {-1}, total : Nat]

ASSUME HookAssumption ==
  /\ Kinds \subseteq HookKinds
  /\ NoCall \notin Calls
  /\ Sessions \subseteq Session
  /\ MaxTokens \in Nat \ {0}
  /\ MaxChunks \in Nat
  /\ Faults \subseteq FaultKinds

VARIABLES
  kind,         \* which hook this is
  shared,       \* its HTTP session was given to it and may serve others
  registry,     \* _active_streams: the call registered under each id
  paused,       \* the mock engine's is_paused
  stage,        \* where each call is
  request,      \* the id each call resumes
  session,      \* the session each call resumes
  severed,      \* the call's connection was closed on this side
  cut,          \* the engine aborted the call's generation
  at,           \* the token the engine sends next
  end,          \* where the engine's budget ends
  withheld,     \* tokens the stop filter holds back
  next,         \* next_seq
  chunks,       \* chunks an open call yielded: number, first and last token
  lost,         \* a line was skipped
  halted        \* an abort that returned success met the call reading

engine == <<paused, cut>>
reply  == <<at, end, withheld, next, chunks, lost>>
ids    == <<request, session>>
vars == <<kind, shared, registry, stage, severed, halted, engine, reply, ids>>

Stages == {"idle", "posting", "reading", "last", "abandoned", "ended"}
Open == {"posting", "reading", "last", "abandoned"}

\* Hooks that keep the connections of their streams to close them.
Registers == kind \in {"triton", "tgi"}

Larger(m, n) == IF m > n THEN m ELSE n
Smaller(m, n) == IF m < n THEN m ELSE n

None == [text |-> 0, flushed |-> -1, total |-> 0]

Init ==
  /\ kind \in Kinds
  /\ shared \in BOOLEAN
  /\ registry = [r \in Ids |-> NoCall]
  /\ paused = FALSE
  /\ stage = [c \in Calls |-> "idle"]
  /\ request \in [Calls -> Ids]
  /\ session = [c \in Calls |-> None]
  /\ severed = [c \in Calls |-> FALSE]
  /\ cut = [c \in Calls |-> FALSE]
  /\ at = [c \in Calls |-> 0] /\ end = [c \in Calls |-> 0]
  /\ withheld = [c \in Calls |-> 0]
  /\ next = [c \in Calls |-> 0]
  /\ chunks = [c \in Calls |-> <<>>]
  /\ lost = [c \in Calls |-> FALSE]
  /\ halted = [c \in Calls |-> FALSE]

------------------------------------------------------------------------------
(* What a session is resumed with.                                         *)

\* Mutant: everything generated becomes the prefix, flushed or not.
PrefixAll(s) == s.text

\* Generated tokens that are part of the prompt: those up to the cutoff, or all
\* when nothing was flushed.
Prefix(s) == IF s.flushed >= 0 THEN Smaller(s.text, s.flushed + 1) ELSE s.text

\* Mutant: the budget is counted afresh.
RemainingAfresh(spent) == MaxTokens

\* The budget that is left, which is never none.
Remaining(spent) == Larger(1, MaxTokens - spent)

VllmPayload(s) ==
  [prefix |-> Prefix(s), start |-> s.flushed + 1,
   budget |-> Remaining(IF Prefix(s) > 0 THEN Prefix(s) ELSE s.total)]

TritonPayload(s) ==
  [prefix |-> Prefix(s), start |-> Prefix(s), budget |-> Remaining(Prefix(s))]

TgiPayload(s) ==
  [prefix |-> Prefix(s), start |-> Prefix(s), budget |-> Remaining(Prefix(s))]

Payload(s) ==
  CASE kind \in {"vllm", "mock"} -> VllmPayload(s)
    [] kind = "triton" -> TritonPayload(s)
    [] kind = "tgi" -> TgiPayload(s)

\* starting_sequence_id of the descriptor that resume_request returns.
StartingSequenceId(s) == s.flushed + 1

\* An engine goes on behind the prefix; the mock engine asks start_seq_id only.
ReplyStart(s) == IF kind = "mock" THEN Payload(s).start ELSE Payload(s).prefix

------------------------------------------------------------------------------
(* stream_resumed.                                                         *)

\* Mutant: a call that ends leaves its entry.
UnregisterNot(c) == UNCHANGED registry

\* The finally block drops whatever is registered under the id.
Unregister(c) ==
  registry' = IF Registers THEN [registry EXCEPT ![request[c]] = NoCall] ELSE registry

\* Mutant: the first number is the last one flushed.
ResumeBehind(c, s) ==
  /\ stage[c] = "idle"
  /\ stage' = [stage EXCEPT ![c] = "posting"]
  /\ session' = [session EXCEPT ![c] = s]
  /\ at' = [at EXCEPT ![c] = ReplyStart(s)]
  /\ end' = [end EXCEPT ![c] = ReplyStart(s) + Payload(s).budget]
  /\ next' = [next EXCEPT ![c] = s.flushed]
  /\ UNCHANGED <<kind, shared, registry, severed, halted, engine, request, withheld,
                 chunks, lost>>

Resume(c, s) ==
  /\ stage[c] = "idle"
  /\ stage' = [stage EXCEPT ![c] = "posting"]
  /\ session' = [session EXCEPT ![c] = s]
  /\ at' = [at EXCEPT ![c] = ReplyStart(s)]
  /\ end' = [end EXCEPT ![c] = ReplyStart(s) + Payload(s).budget]
  /\ next' = [next EXCEPT ![c] = s.flushed + 1]
  /\ UNCHANGED <<kind, shared, registry, severed, halted, engine, request, withheld,
                 chunks, lost>>

\* The engine's answer to the post starts.
Opened(c) ==
  /\ stage[c] = "posting" /\ ~severed[c]
  /\ stage' = [stage EXCEPT ![c] = "reading"]
  /\ registry' = IF Registers THEN [registry EXCEPT ![request[c]] = c] ELSE registry
  /\ UNCHANGED <<kind, shared, severed, halted, engine, reply, ids>>

\* The generator ends by a break, a return, an exception or its finalizer, and
\* its state goes with it.
Leave(c, from) ==
  /\ stage[c] \in from
  /\ stage' = [stage EXCEPT ![c] = "ended"]
  /\ Unregister(c)
  /\ session' = [session EXCEPT ![c] = None]
  /\ severed' = [severed EXCEPT ![c] = FALSE]
  /\ cut' = [cut EXCEPT ![c] = FALSE]
  /\ at' = [at EXCEPT ![c] = 0] /\ end' = [end EXCEPT ![c] = 0]
  /\ withheld' = [withheld EXCEPT ![c] = 0]
  /\ next' = [next EXCEPT ![c] = 0]
  /\ chunks' = [chunks EXCEPT ![c] = <<>>]
  /\ lost' = [lost EXCEPT ![c] = FALSE]
  /\ halted' = [halted EXCEPT ![c] = FALSE]
  /\ UNCHANGED <<kind, shared, paused, request>>

\* Another status than 200.
Refused(c) == ~severed[c] /\ Leave(c, {"posting"})

\* The session's total timeout runs from the post to the end of the reply, so
\* that one may end anywhere; so does a lost or closed connection.
Breaks(c) == Leave(c, {"posting", "reading"})

Reads(c) == stage[c] = "reading" /\ ~severed[c] /\ Len(chunks[c]) < MaxChunks

Yield(c, seq, first, last) ==
  /\ chunks' = [chunks EXCEPT ![c] = Append(@, [seq |-> seq, first |-> first, last |-> last])]
  /\ next' = [next EXCEPT ![c] = seq + 1]

\* A token of a vLLM or mock engine; only the latter sends its number.
VllmLine(c) ==
  /\ kind \in {"vllm", "mock"}
  /\ Reads(c) /\ at[c] < end[c]
  /\ Yield(c, IF kind = "mock" THEN at[c] ELSE next[c], at[c], at[c])
  /\ at' = [at EXCEPT ![c] = @ + 1]
  /\ UNCHANGED <<kind, shared, registry, stage, severed, halted, engine, ids, end,
                 withheld, lost>>

\* A token of Triton, which may be marked as the last.
TritonLine(c) ==
  /\ kind = "triton"
  /\ Reads(c) /\ at[c] < end[c]
  /\ Yield(c, next[c], at[c], at[c])
  /\ at' = [at EXCEPT ![c] = @ + 1]
  /\ stage' = [stage EXCEPT ![c] = IF at[c] + 1 = end[c] THEN "last" ELSE @]
  /\ UNCHANGED <<kind, shared, registry, severed, halted, engine, ids, end, withheld, lost>>

\* A token of TGI: of the text withheld and the token's the stop filter releases as
\* much as it likes; a token counts as withheld until its end is released.  A stop
\* word or the final token ends the reply.
TgiLine(c) ==
  /\ kind = "tgi"
  /\ Reads(c) /\ at[c] < end[c]
  /\ at' = [at EXCEPT ![c] = @ + 1]
  /\ \E held \in 0..withheld[c] + 1 :
       /\ withheld' = [withheld EXCEPT ![c] = held]
       /\ \/ held = withheld[c] + 1 /\ UNCHANGED <<chunks, next, stage>>
          \/ /\ Yield(c, next[c], at[c] - withheld[c], at[c] - held)
             /\ UNCHANGED stage \/ stage' = [stage EXCEPT ![c] = "last"]
  /\ UNCHANGED <<kind, shared, registry, severed, halted, engine, ids, end, lost>>

\* A line without text takes a number, except behind the stop filter.
BlankLine(c) ==
  /\ "blank" \in Faults
  /\ kind \in {"vllm", "triton"}
  /\ Reads(c)
  /\ Yield(c, next[c], at[c], at[c] - 1)
  /\ UNCHANGED <<kind, shared, registry, stage, severed, halted, engine, ids, at, end,
                 withheld, lost>>

\* A line that cannot be read is skipped and takes no number.
SkipLine(c) ==
  /\ "unreadable" \in Faults
  /\ Reads(c) /\ at[c] < end[c]
  /\ at' = [at EXCEPT ![c] = @ + 1]
  /\ lost' = [lost EXCEPT ![c] = TRUE]
  /\ UNCHANGED <<kind, shared, registry, stage, severed, halted, engine, ids, end,
                 withheld, next, chunks>>

\* The reply is over: its budget is used up, or the engine was told to stop.  What
\* the stop filter holds may be dropped as the beginning of a stop word.
ReplyEnds(c) ==
  /\ ~severed[c]
  /\ at[c] = end[c] \/ cut[c] \/ (kind = "mock" /\ paused)
  /\ Leave(c, {"reading"})

\* Behind the end of the reply TGI's stop filter releases what it still holds.
TgiFlush(c) ==
  /\ kind = "tgi"
  /\ Reads(c) /\ at[c] = end[c] /\ withheld[c] > 0
  /\ Yield(c, next[c], at[c] - withheld[c], at[c] - 1)
  /\ withheld' = [withheld EXCEPT ![c] = 0]
  /\ stage' = [stage EXCEPT ![c] = "last"]
  /\ UNCHANGED <<kind, shared, registry, severed, halted, engine, ids, at, end, lost>>

\* The consumer asks for another chunk behind the last one.
LastReturns(c) == Leave(c, {"last"})

\* The consumer drops the generator, whose finally block runs some time later.
Dropped(c) ==
  /\ stage[c] \in {"reading", "last"}
  /\ stage' = [stage EXCEPT ![c] = "abandoned"]
  /\ UNCHANGED <<kind, shared, registry, severed, halted, engine, reply, ids>>

Finalize(c) == Leave(c, {"abandoned"})

------------------------------------------------------------------------------
(* abort_request, pause_request and close.                                 *)

CallsOf(r) == {c \in Calls : request[c] = r /\ stage[c] \in Open}

\* A successful answer to an abort of r, as history.
Succeeds(r) ==
  halted' = [c \in Calls |-> halted[c] \/ (c \in CallsOf(r) /\ stage[c] = "reading")]

\* The connection registered under r is closed and forgotten.
CloseSocket(r) ==
  /\ registry[r] # NoCall
  /\ severed' = [severed EXCEPT ![registry[r]] = TRUE]
  /\ registry' = [registry EXCEPT ![r] = NoCall]

\* Without a registered stream Triton is sent an empty request instead, whose
\* failure counts as success unless it is a timeout or an odd status.
TritonAbort(r) ==
  /\ kind = "triton"
  /\ \/ CloseSocket(r) /\ Succeeds(r)
     \/ /\ registry[r] = NoCall
        /\ Succeeds(r) \/ UNCHANGED halted
        /\ UNCHANGED <<severed, registry>>
  /\ UNCHANGED <<kind, shared, stage, engine, reply, ids>>

\* Mutant: the handle is forgotten but not closed.
TgiAbortForgets(r) ==
  /\ kind = "tgi"
  /\ registry' = [registry EXCEPT ![r] = NoCall]
  /\ Succeeds(r)
  /\ UNCHANGED <<kind, shared, stage, severed, engine, reply, ids>>

\* Without a registered stream there is nothing to do, which counts as success.
TgiAbort(r) ==
  /\ kind = "tgi"
  /\ \/ CloseSocket(r)
     \/ registry[r] = NoCall /\ UNCHANGED <<severed, registry>>
  /\ Succeeds(r)
  /\ UNCHANGED <<kind, shared, stage, engine, reply, ids>>

\* The mock engine stops all streams, vLLM those of the request; the answer may
\* be lost, and so may the post.
EngineTold(r) ==
  \/ UNCHANGED engine
  \/ kind = "mock" /\ paused' = TRUE /\ UNCHANGED cut
  \/ /\ kind = "vllm" /\ UNCHANGED paused
     /\ cut' = [c \in Calls |-> cut[c] \/ c \in CallsOf(r)]

VllmAbort(r) ==
  /\ kind \in {"vllm", "mock"}
  /\ EngineTold(r)
  /\ UNCHANGED <<kind, shared, registry, stage, severed, halted, reply, ids>>

\* Only the mock engine knows /pause; the others are aborted.
VllmPause(r) ==
  \/ /\ kind = "mock" /\ paused' = TRUE
     /\ UNCHANGED <<kind, shared, registry, stage, severed, halted, cut, reply, ids>>
  \/ VllmAbort(r)

EngineResumed ==
  /\ kind = "mock" /\ paused
  /\ paused' = FALSE
  /\ UNCHANGED <<kind, shared, registry, stage, severed, halted, cut, reply, ids>>

\* Closing an HTTP session closes the connections of all its calls.
CallsSevered == [c \in Calls |-> severed[c] \/ stage[c] \in Open]

\* The connections registered are closed, and the HTTP session if it is owned.
Close ==
  /\ Registers
  /\ severed' = IF shared
                  THEN [c \in Calls |-> severed[c] \/ \E r \in Ids : registry[r] = c]
                  ELSE CallsSevered
  /\ registry' = [r \in Ids |-> NoCall]
  /\ UNCHANGED <<kind, shared, stage, halted, engine, reply, ids>>

\* The vLLM hook closes its HTTP session whoever it belongs to.
VllmClose ==
  /\ ~Registers
  /\ severed' = CallsSevered
  /\ UNCHANGED <<kind, shared, registry, stage, halted, engine, reply, ids>>

------------------------------------------------------------------------------
Line(c) ==
  \/ VllmLine(c) \/ TritonLine(c) \/ TgiLine(c) \/ TgiFlush(c)
  \/ BlankLine(c) \/ SkipLine(c)

Ends(c) == Refused(c) \/ Breaks(c) \/ ReplyEnds(c) \/ LastReturns(c) \/ Finalize(c)

Halt(r) == TritonAbort(r) \/ TgiAbort(r) \/ VllmAbort(r) \/ VllmPause(r)

Next ==
  \/ \E c \in Calls, s \in Sessions : Resume(c, s)
  \/ \E c \in Calls : Opened(c) \/ Line(c) \/ Ends(c) \/ Dropped(c)
  \/ \E r \in Ids : Halt(r)
  \/ EngineResumed \/ Close \/ VllmClose

Spec == Init /\ [][Next]_vars

------------------------------------------------------------------------------
(* Properties.                                                             *)

\* The tables and generators of a hook keep their types.
TypeOK ==
  /\ kind \in Kinds /\ shared \in BOOLEAN /\ paused \in BOOLEAN
  /\ registry \in [Ids -> Calls \cup {NoCall}]
  /\ stage \in [Calls -> Stages]
  /\ request \in [Calls -> Ids]
  /\ session \in [Calls -> Sessions \cup {None}]
  /\ severed \in [Calls -> BOOLEAN] /\ cut \in [Calls -> BOOLEAN]
  /\ lost \in [Calls -> BOOLEAN] /\ halted \in [Calls -> BOOLEAN]
  /\ at \in [Calls -> Nat] /\ end \in [Calls -> Nat]
  /\ withheld \in [Calls -> Nat] /\ next \in [Calls -> Nat]
  /\ chunks \in [Calls -> Seq([seq : Nat, first : Nat, last : Nat \cup {-1}])]

\* What was flushed of the session is known as text, and something was flushed
\* if anything was generated.
Tracked(s) ==
  /\ s.flushed + 1 <= s.text
  /\ s.flushed = -1 => s.text = 0
  /\ s.total = s.text

\* A tracked session continues without a seam: its chunks are numbered from the
\* starting_sequence_id announced for it, one by one, and carry the tokens right
\* behind the last one flushed, none twice and, while every line of the reply is
\* read, none missing.
Seamless ==
  \A c \in Calls : Tracked(session[c]) /\ ~lost[c] =>
    \A i \in 1..Len(chunks[c]) :
      /\ chunks[c][i].seq = StartingSequenceId(session[c]) + i - 1
      /\ chunks[c][i].first =
           IF i = 1 THEN session[c].flushed + 1 ELSE chunks[c][i - 1].last + 1

\* A resumed answer of a tracked session stays within max_tokens, flushed part
\* included, but for the one token that is asked for when nothing is left.
WithinBudget ==
  \A c \in Calls : Tracked(session[c]) =>
    at[c] <= Larger(MaxTokens, session[c].flushed + 2)

\* An entry of the registry is a call of that id whose generator is not over: no
\* handle outlives its stream, shared ids, dropped generators and close included.
RegistryIsLive ==
  \A r \in Ids : registry[r] # NoCall =>
    /\ request[registry[r]] = r
    /\ stage[registry[r]] \in {"reading", "last", "abandoned"}

\* No other call has the id.
NeverShared(c) == \A d \in Calls \ {c} : request[d] # request[c]

\* After an abort that reported success a stream that was reading yields nothing
\* more (hooks that sever the connection, ids of one call).
AbortSilences ==
  [][\A c \in Calls : Registers /\ NeverShared(c) /\ halted[c] =>
        Len(chunks'[c]) <= Len(chunks[c])]_vars
==============================================================================
