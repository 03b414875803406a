--------------------------- MODULE EngineHookProofs --------------------------
(***************************************************************************)
(* Theorems about the hook that drives the engine of a node, for any       *)
(* number of calls, any sessions and any budget of tokens.                 *)
(***************************************************************************)
EXTENDS EngineHook, TLAPS

------------------------------------------------------------------------------
(* The invariant of the hook.                                              *)

\* What the stop filter holds back was sent by the engine; other hooks hold nothing
\* back, nor does a call that has not begun.
HeldBack ==
  \A c \in Calls :
    /\ withheld[c] <= at[c]
    /\ kind # "tgi" => withheld[c] = 0
    /\ stage[c] = "idle" => withheld[c] = 0 /\ chunks[c] = <<>>

\* An entry belongs to a call of its id whose generator is not over; the hooks that
\* keep no streams have none.
RegistryInv == RegistryIsLive /\ (~Registers => \A r \in Ids : registry[r] = NoCall)

\* The engine keeps to the budget, which ends within max_tokens.
BudgetInv ==
  \A c \in Calls :
    /\ at[c] <= end[c]
    /\ Tracked(session[c]) => end[c] <= Larger(MaxTokens, session[c].flushed + 2)

\* The token that the next chunk begins with.
Due(c) ==
  IF chunks[c] = <<>> THEN session[c].flushed + 1 ELSE chunks[c][Len(chunks[c])].last + 1

\* next_seq counts the chunks, the engine is at the token that is due, but for those
\* held back, and the mock engine's numbers agree with next_seq.
InStep(c) ==
  /\ next[c] = StartingSequenceId(session[c]) + Len(chunks[c])
  /\ kind = "mock" => at[c] = next[c]
  /\ at[c] - withheld[c] = Due(c)
  /\ \A i \in 1..Len(chunks[c]) :
       /\ chunks[c][i].seq = StartingSequenceId(session[c]) + i - 1
       /\ chunks[c][i].first =
            IF i = 1 THEN session[c].flushed + 1 ELSE chunks[c][i - 1].last + 1

SeamInv == \A c \in Calls : Tracked(session[c]) /\ ~lost[c] => InStep(c)

\* A reading call with an id of its own is either registered or cut off, and once
\* halted it is cut off.
SilenceInv ==
  /\ \A c \in Calls : halted[c] => stage[c] \in {"reading", "last", "abandoned"}
  /\ \A c \in Calls : Registers /\ NeverShared(c) /\ stage[c] = "reading" =>
       /\ registry[request[c]] = c \/ severed[c]
       /\ halted[c] => severed[c]

HookInv == TypeOK /\ HeldBack /\ RegistryInv /\ BudgetInv /\ SeamInv /\ SilenceInv

------------------------------------------------------------------------------
(* What a session is resumed with, and what a step changes.                *)

LEMMA RemainingFits ==
  ASSUME NEW spent \in Nat
  PROVE  /\ Remaining(spent) \in Nat
         /\ spent + Remaining(spent) <= Larger(MaxTokens, spent + 1)
  BY HookAssumption DEF Remaining, Larger

LEMMA PrefixFits ==
  ASSUME NEW s \in Session
  PROVE  Prefix(s) \in Nat /\ (Tracked(s) => Prefix(s) = s.flushed + 1)
  BY DEF Session, Prefix, Smaller, Tracked

\* A tracked session is resumed behind the last token flushed, whichever the hook,
\* and is asked for no more than max_tokens in all.
LEMMA ResumeFits ==
  ASSUME kind \in HookKinds, NEW s \in Session
  PROVE  /\ ReplyStart(s) \in Nat /\ Payload(s).budget \in Nat /\ s.flushed + 1 \in Nat
         /\ Tracked(s) => /\ ReplyStart(s) = s.flushed + 1
                          /\ ReplyStart(s) + Payload(s).budget
                               <= Larger(MaxTokens, s.flushed + 2)
<1>1. /\ s.flushed + 1 \in Nat /\ s.total \in Nat /\ Prefix(s) \in Nat
      /\ Tracked(s) => Prefix(s) = s.flushed + 1
  BY PrefixFits DEF Session
<1>2. PICK spent \in Nat : /\ Payload(s).budget = Remaining(spent)
                           /\ Tracked(s) => spent = s.flushed + 1
  <2>1. CASE kind \in {"vllm", "mock"}
    <3> DEFINE n == IF Prefix(s) > 0 THEN Prefix(s) ELSE s.total
    <3>1. Payload(s).budget = Remaining(n)
      BY <2>1 DEF Payload, VllmPayload
    <3>2. n \in Nat /\ (Tracked(s) => n = s.flushed + 1)
      BY <1>1 DEF Tracked, Session
    <3>3. QED
      BY <3>1, <3>2
  <2>2. CASE kind \in {"triton", "tgi"}
    <3>1. Payload(s).budget = Remaining(Prefix(s))
      BY <2>2 DEF Payload, TritonPayload, TgiPayload
    <3>2. QED
      BY <1>1, <3>1
  <2>3. QED
    BY <2>1, <2>2 DEF HookKinds
<1>3. ReplyStart(s) \in {Prefix(s), s.flushed + 1}
  <2>1. kind = "mock" => ReplyStart(s) = s.flushed + 1
    BY DEF ReplyStart, Payload, VllmPayload
  <2>2. kind # "mock" => ReplyStart(s) = Prefix(s)
    BY DEF ReplyStart, Payload, VllmPayload, TritonPayload, TgiPayload, HookKinds
  <2>3. QED
    BY <2>1, <2>2
<1>4. Remaining(spent) \in Nat /\ spent + Remaining(spent) <= Larger(MaxTokens, spent + 1)
  BY RemainingFits
<1>5. s.flushed + 1 + 1 = s.flushed + 2
  BY DEF Session
<1>6. QED
  BY <1>1, <1>2, <1>3, <1>4, <1>5

LEMMA EndsLeave ==
  ASSUME NEW c \in Calls, Ends(c)
  PROVE  Leave(c, Open)
  BY DEF Ends, Refused, Breaks, ReplyEnds, LastReturns, Finalize, Leave, Open

\* A line yields what was held back and what the engine sends with it, but for what
\* the stop filter goes on to hold, ...
Speaks(c) ==
  /\ at' = at \/ (at[c] < end[c] /\ at' = [at EXCEPT ![c] = @ + 1])
  /\ kind = "mock" => at' # at
  /\ \E held \in Nat :
       /\ held <= at'[c] /\ (kind # "tgi" => held = 0)
       /\ withheld' = [withheld EXCEPT ![c] = held]
       /\ Yield(c, IF kind = "mock" THEN at[c] ELSE next[c],
                at[c] - withheld[c], (at'[c] - 1) - held)
  /\ stage' = stage \/ stage' = [stage EXCEPT ![c] = "last"]
  /\ lost' = lost

\* ... or is held back, ...
Withholds(c) ==
  /\ kind = "tgi" /\ at[c] < end[c]
  /\ at' = [at EXCEPT ![c] = @ + 1]
  /\ withheld' = [withheld EXCEPT ![c] = @ + 1]
  /\ UNCHANGED <<chunks, next, stage, lost>>

\* ... or is lost.
Skips(c) ==
  /\ at[c] < end[c]
  /\ at' = [at EXCEPT ![c] = @ + 1]
  /\ lost' = [lost EXCEPT ![c] = TRUE]
  /\ UNCHANGED <<chunks, next, stage, withheld>>

\* A line that leaves nothing held back is one that speaks.
LEMMA SpeaksOut ==
  ASSUME TypeOK, NEW c \in Calls, at'[c] \in Nat,
         at' = at \/ (at[c] < end[c] /\ at' = [at EXCEPT ![c] = @ + 1]),
         kind = "mock" => at' # at,
         withheld' = [withheld EXCEPT ![c] = 0],
         Yield(c, IF kind = "mock" THEN at[c] ELSE next[c],
               at[c] - withheld[c], at'[c] - 1),
         stage' = stage \/ stage' = [stage EXCEPT ![c] = "last"],
         lost' = lost
  PROVE  Speaks(c)
<1>1. (at'[c] - 1) - 0 = at'[c] - 1 /\ 0 \in Nat /\ 0 <= at'[c]
  OBVIOUS
<1>2. Yield(c, IF kind = "mock" THEN at[c] ELSE next[c],
            at[c] - withheld[c], (at'[c] - 1) - 0)
  BY <1>1
<1>3. \E held \in Nat :
        /\ held <= at'[c] /\ (kind # "tgi" => held = 0)
        /\ withheld' = [withheld EXCEPT ![c] = held]
        /\ Yield(c, IF kind = "mock" THEN at[c] ELSE next[c],
                 at[c] - withheld[c], (at'[c] - 1) - held)
  BY <1>1, <1>2
<1>4. QED
  BY <1>3 DEF Speaks

LEMMA LineKinds ==
  ASSUME TypeOK, HeldBack, NEW c \in Calls, Line(c)
  PROVE  /\ Reads(c)
         /\ UNCHANGED <<kind, shared, registry, severed, halted, engine, ids, end>>
         /\ Speaks(c) \/ Withholds(c) \/ Skips(c)
<1>1. /\ at[c] \in Nat /\ at \in [Calls -> Nat] /\ (at[c] + 1) - 1 = at[c]
      /\ withheld[c] \in Nat /\ withheld[c] <= at[c]
  BY DEF TypeOK, HeldBack
<1>2. kind # "tgi" => /\ at[c] - withheld[c] = at[c]
                      /\ withheld = [withheld EXCEPT ![c] = 0]
  BY DEF TypeOK, HeldBack
<1>3. [at EXCEPT ![c] = @ + 1][c] = at[c] + 1 /\ [at EXCEPT ![c] = @ + 1] # at
  BY <1>1
<1>4. CASE VllmLine(c)
  <2>1. /\ withheld' = [withheld EXCEPT ![c] = 0] /\ at'[c] = at[c] + 1
        /\ Yield(c, IF kind = "mock" THEN at[c] ELSE next[c],
                 at[c] - withheld[c], at'[c] - 1)
    BY <1>1, <1>2, <1>3, <1>4 DEF VllmLine
  <2>2. /\ at' = [at EXCEPT ![c] = @ + 1] /\ at[c] < end[c] /\ UNCHANGED <<stage, lost>>
        /\ Reads(c)
        /\ UNCHANGED <<kind, shared, registry, severed, halted, engine, ids, end>>
    BY <1>4 DEF VllmLine
  <2>3. at'[c] \in Nat /\ at' # at /\ stage' = stage /\ lost' = lost
    BY <1>1, <1>3, <2>1, <2>2
  <2>4. Speaks(c)
    BY <2>1, <2>2, <2>3, SpeaksOut
  <2>5. QED
    BY <2>2, <2>4
<1>5. CASE TritonLine(c)
  <2>1. stage' = stage \/ stage' = [stage EXCEPT ![c] = "last"]
    BY <1>5 DEF TritonLine, TypeOK
  <2>2. /\ withheld' = [withheld EXCEPT ![c] = 0] /\ at'[c] = at[c] + 1
        /\ Yield(c, IF kind = "mock" THEN at[c] ELSE next[c],
                 at[c] - withheld[c], at'[c] - 1)
    BY <1>1, <1>2, <1>3, <1>5 DEF TritonLine
  <2>3. /\ at' = [at EXCEPT ![c] = @ + 1] /\ at[c] < end[c] /\ UNCHANGED lost
        /\ Reads(c)
        /\ UNCHANGED <<kind, shared, registry, severed, halted, engine, ids, end>>
    BY <1>5 DEF TritonLine
  <2>4. at'[c] \in Nat /\ at' # at /\ lost' = lost
    BY <1>1, <1>3, <2>2, <2>3
  <2>5. Speaks(c)
    BY <2>1, <2>2, <2>3, <2>4, SpeaksOut
  <2>6. QED
    BY <2>3, <2>5
<1>6. CASE TgiLine(c)
  <2>1. PICK held \in 0..withheld[c] + 1 :
          /\ withheld' = [withheld EXCEPT ![c] = held]
          /\ \/ held = withheld[c] + 1 /\ UNCHANGED <<chunks, next, stage>>
             \/ /\ Yield(c, next[c], at[c] - withheld[c], at[c] - held)
                /\ UNCHANGED stage \/ stage' = [stage EXCEPT ![c] = "last"]
    BY <1>6 DEF TgiLine
  <2>2. /\ kind = "tgi" /\ at[c] < end[c] /\ at' = [at EXCEPT ![c] = @ + 1] /\ lost' = lost
        /\ Reads(c)
        /\ UNCHANGED <<kind, shared, registry, severed, halted, engine, ids, end>>
    BY <1>6 DEF TgiLine
  <2>3. held \in Nat /\ held <= at'[c] /\ (at'[c] - 1) - held = at[c] - held
    BY <1>1, <1>3, <2>2
  <2>4. CASE held = withheld[c] + 1 /\ UNCHANGED <<chunks, next, stage>>
    BY <2>1, <2>2, <2>4 DEF Withholds
  <2>5. CASE /\ Yield(c, next[c], at[c] - withheld[c], at[c] - held)
             /\ UNCHANGED stage \/ stage' = [stage EXCEPT ![c] = "last"]
    <3>1. Yield(c, IF kind = "mock" THEN at[c] ELSE next[c],
                at[c] - withheld[c], (at'[c] - 1) - held)
      BY <2>2, <2>3, <2>5
    <3>2. Speaks(c)
      BY <2>1, <2>2, <2>3, <2>5, <3>1 DEF Speaks
    <3>3. QED
      BY <2>2, <3>2
  <2>6. QED
    BY <2>1, <2>4, <2>5
<1>7. CASE BlankLine(c)
  <2>1. /\ withheld' = [withheld EXCEPT ![c] = 0] /\ at' = at
        /\ Yield(c, IF kind = "mock" THEN at[c] ELSE next[c],
                 at[c] - withheld[c], at'[c] - 1)
    BY <1>1, <1>2, <1>7 DEF BlankLine
  <2>2. QED
    BY <1>1, <1>7, <2>1, SpeaksOut DEF BlankLine
<1>8. CASE SkipLine(c)
  BY <1>8 DEF SkipLine, Skips
<1>9. CASE TgiFlush(c)
  <2>1. /\ withheld' = [withheld EXCEPT ![c] = 0] /\ at' = at
        /\ Yield(c, IF kind = "mock" THEN at[c] ELSE next[c],
                 at[c] - withheld[c], at'[c] - 1)
    BY <1>1, <1>9 DEF TgiFlush
  <2>2. QED
    BY <1>1, <1>9, <2>1, SpeaksOut DEF TgiFlush
<1>10. QED
  BY <1>4, <1>5, <1>6, <1>7, <1>8, <1>9 DEF Line

\* An abort of r closes the stream registered for it, if there is one.
Severs(r) ==
  /\ CloseSocket(r) \/ (registry[r] = NoCall /\ UNCHANGED <<severed, registry>>)
  /\ Succeeds(r) \/ UNCHANGED halted
  /\ UNCHANGED <<paused, cut>>

\* A call to the engine is of no concern to the hook's own tables.
Tells == UNCHANGED <<registry, severed, halted>>

\* Steps beside the calls: they leave their generators alone.
Beside ==
  (\E r \in Ids : Halt(r)) \/ EngineResumed \/ Close \/ VllmClose

LEMMA BesideKinds ==
  ASSUME TypeOK, Beside
  PROVE  /\ UNCHANGED <<kind, shared, stage, reply, ids>>
         /\ \/ \E r \in Ids : Severs(r)
            \/ Tells /\ paused' \in BOOLEAN /\ cut' \in [Calls -> BOOLEAN]
            \/ Close \/ VllmClose
<1>1. ASSUME NEW r \in Ids, TritonAbort(r) \/ TgiAbort(r)
      PROVE  UNCHANGED <<kind, shared, stage, reply, ids>> /\ Severs(r)
  BY <1>1 DEF TritonAbort, TgiAbort, Severs, engine
<1>2. ASSUME NEW r \in Ids, VllmAbort(r) \/ VllmPause(r)
      PROVE  /\ UNCHANGED <<kind, shared, stage, reply, ids>>
             /\ Tells /\ paused' \in BOOLEAN /\ cut' \in [Calls -> BOOLEAN]
  <2>1. ASSUME EngineTold(r) PROVE paused' \in BOOLEAN /\ cut' \in [Calls -> BOOLEAN]
    BY <2>1 DEF EngineTold, engine, TypeOK
  <2>2. QED
    BY <1>2, <2>1 DEF VllmAbort, VllmPause, Tells, TypeOK
<1>3. CASE EngineResumed
  BY <1>3 DEF EngineResumed, Tells, TypeOK
<1>4. CASE Close \/ VllmClose
  BY <1>4 DEF Close, VllmClose
<1>5. QED
  BY <1>1, <1>2, <1>3, <1>4 DEF Beside, Halt

LEMMA Steps ==
  ASSUME [Next]_vars
  PROVE  \/ \E c \in Calls, s \in Sessions : Resume(c, s)
         \/ \E c \in Calls : Opened(c) \/ Line(c) \/ Leave(c, Open) \/ Dropped(c)
         \/ Beside
         \/ UNCHANGED vars
  BY EndsLeave DEF Next, Beside

------------------------------------------------------------------------------
(* Types.                                                                  *)

LEMMA TypeInit == Init => TypeOK /\ HeldBack
<1> SUFFICES ASSUME Init PROVE TypeOK /\ HeldBack
  OBVIOUS
<1>1. HeldBack
  BY DEF Init, HeldBack
<1>2. None \in Sessions \cup {None}
  OBVIOUS
<1>3. /\ session \in [Calls -> Sessions \cup {None}]
      /\ registry \in [Ids -> Calls \cup {NoCall}]
      /\ stage \in [Calls -> Stages]
  BY DEF Init, Stages
<1>4. chunks \in [Calls -> Seq([seq : Nat, first : Nat, last : Nat \cup {-1}])]
  BY DEF Init
<1>5. QED
  BY <1>1, <1>3, <1>4 DEF Init, TypeOK

LEMMA TypeNext ==
  ASSUME TypeOK, HeldBack, [Next]_vars
  PROVE  TypeOK' /\ HeldBack'
<1>1. ASSUME NEW c \in Calls, NEW s \in Sessions, Resume(c, s)
      PROVE  TypeOK' /\ HeldBack'
  <2>1. ReplyStart(s) \in Nat /\ Payload(s).budget \in Nat /\ s.flushed + 1 \in Nat
    BY HookAssumption, ResumeFits DEF TypeOK
  <2>2. UNCHANGED <<kind, shared, registry, severed, halted, paused, cut, request, withheld,
                    chunks, lost>>
    BY <1>1 DEF Resume, engine
  <2>3. /\ stage' \in [Calls -> Stages] /\ session' \in [Calls -> Sessions \cup {None}]
        /\ at' \in [Calls -> Nat] /\ end' \in [Calls -> Nat] /\ next' \in [Calls -> Nat]
    BY <1>1, <2>1 DEF Resume, TypeOK, Stages
  <2>4. TypeOK'
    BY <2>2, <2>3 DEF TypeOK
  <2>5. withheld[c] = 0
    BY <1>1 DEF Resume, HeldBack
  <2>6. \A d \in Calls : /\ withheld'[d] <= at'[d]
                         /\ stage'[d] = "idle" => stage[d] = "idle"
    BY <1>1, <2>1, <2>2, <2>5 DEF Resume, HeldBack, TypeOK
  <2>7. HeldBack'
    BY <2>2, <2>6 DEF HeldBack
  <2>8. QED
    BY <2>4, <2>7
<1>2. ASSUME NEW c \in Calls, Opened(c) \/ Dropped(c)
      PROVE  TypeOK' /\ HeldBack'
  <2>1. UNCHANGED <<kind, shared, severed, halted, paused, cut, at, end, withheld, next,
                    chunks, lost, request, session>>
    BY <1>2 DEF Opened, Dropped, engine, reply, ids
  <2>2. registry' \in [Ids -> Calls \cup {NoCall}]
    <3>1. registry' = registry \/ registry' = [registry EXCEPT ![request[c]] = c]
      BY <1>2 DEF Opened, Dropped
    <3>2. registry \in [Ids -> Calls \cup {NoCall}] /\ request[c] \in Ids
      BY DEF TypeOK
    <3>3. QED
      BY <3>1, <3>2
  <2>3. /\ stage' \in [Calls -> Stages]
        /\ \A d \in Calls : stage'[d] = "idle" => stage[d] = "idle"
    <3>1. \/ stage' = [stage EXCEPT ![c] = "reading"]
          \/ stage' = [stage EXCEPT ![c] = "abandoned"]
      BY <1>2 DEF Opened, Dropped
    <3>2. QED
      BY <3>1 DEF TypeOK, Stages
  <2>4. QED
    BY <2>1, <2>2, <2>3 DEF TypeOK, HeldBack
<1>3. ASSUME NEW c \in Calls, Leave(c, Open)
      PROVE  TypeOK' /\ HeldBack'
  <2>1. UNCHANGED <<kind, shared, paused, request>>
    BY <1>3 DEF Leave
  <2>2. /\ stage' \in [Calls -> Stages] /\ session' \in [Calls -> Sessions \cup {None}]
        /\ severed' \in [Calls -> BOOLEAN] /\ cut' \in [Calls -> BOOLEAN]
        /\ lost' \in [Calls -> BOOLEAN] /\ halted' \in [Calls -> BOOLEAN]
    BY <1>3 DEF Leave, TypeOK, Stages
  <2>3. /\ at' \in [Calls -> Nat] /\ end' \in [Calls -> Nat]
        /\ withheld' \in [Calls -> Nat] /\ next' \in [Calls -> Nat]
    BY <1>3 DEF Leave, TypeOK
  <2>4. /\ registry' \in [Ids -> Calls \cup {NoCall}]
        /\ chunks' \in [Calls -> Seq([seq : Nat, first : Nat, last : Nat \cup {-1}])]
    BY <1>3 DEF Leave, Unregister, TypeOK
  <2>5. \A d \in Calls : \/ withheld'[d] = 0 /\ at'[d] = 0 /\ stage'[d] = "ended"
                         \/ /\ withheld'[d] = withheld[d] /\ at'[d] = at[d]
                            /\ stage'[d] = stage[d] /\ chunks'[d] = chunks[d]
    BY <1>3 DEF Leave, TypeOK
  <2>6. HeldBack'
    BY <2>1, <2>5 DEF HeldBack
  <2>7. QED
    BY <2>1, <2>2, <2>3, <2>4, <2>6 DEF TypeOK
<1>4. ASSUME NEW c \in Calls, Line(c)
      PROVE  TypeOK' /\ HeldBack'
  <2>1. /\ UNCHANGED <<kind, shared, registry, severed, halted, paused, cut, request,
                       session, end>>
        /\ stage[c] = "reading"
        /\ Speaks(c) \/ Withholds(c) \/ Skips(c)
    BY <1>4, LineKinds DEF Reads, engine, ids
  <2>2. at[c] \in Nat /\ withheld[c] \in Nat /\ withheld[c] <= at[c] /\ next[c] \in Nat
    BY DEF TypeOK, HeldBack
  <2>3. CASE Speaks(c)
    <3>0. PICK held \in Nat :
            /\ held <= at'[c] /\ (kind # "tgi" => held = 0)
            /\ withheld' = [withheld EXCEPT ![c] = held]
            /\ Yield(c, IF kind = "mock" THEN at[c] ELSE next[c],
                     at[c] - withheld[c], (at'[c] - 1) - held)
      BY <2>3 DEF Speaks
    <3>1. at' \in [Calls -> Nat] /\ withheld' \in [Calls -> Nat]
      <4>1. at' = at \/ at' = [at EXCEPT ![c] = @ + 1]
        BY <2>3 DEF Speaks
      <4>2. at \in [Calls -> Nat] /\ withheld \in [Calls -> Nat]
        BY DEF TypeOK
      <4>3. QED
        BY <3>0, <4>1, <4>2
    <3>2. stage' \in [Calls -> Stages] /\ lost' \in [Calls -> BOOLEAN]
      BY <2>3 DEF Speaks, TypeOK, Stages
    <3>3. PICK seq \in Nat, first \in Nat, last \in Nat \cup {-1} : Yield(c, seq, first, last)
      <4>1. /\ (IF kind = "mock" THEN at[c] ELSE next[c]) \in Nat
            /\ at[c] - withheld[c] \in Nat /\ (at'[c] - 1) - held \in Nat \cup {-1}
        BY <2>2, <3>0, <3>1
      <4>2. QED
        BY <3>0, <4>1
    <3>4. next' \in [Calls -> Nat]
      BY <3>3 DEF Yield, TypeOK
    <3>5. chunks' \in [Calls -> Seq([seq : Nat, first : Nat, last : Nat \cup {-1}])]
      BY <3>3 DEF Yield, TypeOK
    <3>6. TypeOK'
      BY <2>1, <3>1, <3>2, <3>4, <3>5 DEF TypeOK
    <3>7. \A d \in Calls : /\ d # c => withheld'[d] = withheld[d] /\ at'[d] = at[d]
                           /\ stage'[d] = "idle" => d # c /\ stage[d] = "idle"
      BY <2>1, <2>3, <3>0 DEF Speaks, TypeOK
    <3>11. withheld'[c] = held
      BY <3>0 DEF TypeOK
    <3>8. \A d \in Calls : d # c => chunks'[d] = chunks[d]
      BY <3>3 DEF Yield, TypeOK
    <3>9. ASSUME NEW d \in Calls PROVE withheld'[d] <= at'[d]
      <4>1. at[d] \in Nat /\ at'[d] \in Nat /\ withheld[d] \in Nat /\ withheld[d] <= at[d]
        BY <3>1 DEF HeldBack, TypeOK
      <4>2. QED
        BY <3>0, <3>7, <3>11, <4>1
    <3>10. QED
      BY <2>1, <3>0, <3>6, <3>7, <3>8, <3>9, <3>11 DEF HeldBack
  <2>4. CASE Withholds(c)
    BY <2>1, <2>2, <2>4 DEF Withholds, TypeOK, HeldBack
  <2>5. CASE Skips(c)
    BY <2>1, <2>2, <2>5 DEF Skips, TypeOK, HeldBack
  <2>6. QED
    BY <2>1, <2>3, <2>4, <2>5
<1>5. CASE Beside
  <2>1. UNCHANGED <<kind, shared, stage, at, end, withheld, next, chunks, lost, request,
                    session>>
    BY <1>5, BesideKinds DEF reply, ids
  <2>2. /\ registry' \in [Ids -> Calls \cup {NoCall}]
        /\ severed' \in [Calls -> BOOLEAN] /\ halted' \in [Calls -> BOOLEAN]
        /\ paused' \in BOOLEAN /\ cut' \in [Calls -> BOOLEAN]
    <3>1. ASSUME NEW r \in Ids, Severs(r)
          PROVE  /\ registry' \in [Ids -> Calls \cup {NoCall}]
                 /\ severed' \in [Calls -> BOOLEAN] /\ halted' \in [Calls -> BOOLEAN]
                 /\ UNCHANGED <<paused, cut>>
      BY <3>1 DEF Severs, CloseSocket, Succeeds, TypeOK
    <3>2. ASSUME Close \/ VllmClose
          PROVE  /\ registry' \in [Ids -> Calls \cup {NoCall}]
                 /\ severed' \in [Calls -> BOOLEAN] /\ UNCHANGED <<halted, paused, cut>>
      BY <3>2 DEF Close, VllmClose, CallsSevered, engine, TypeOK
    <3>3. QED
      BY <1>5, <3>1, <3>2, BesideKinds DEF Tells, TypeOK
  <2>3. QED
    BY <2>1, <2>2 DEF TypeOK, HeldBack
<1>6. CASE UNCHANGED vars
  BY <1>6 DEF vars, engine, reply, ids, TypeOK, HeldBack
<1>7. QED
  BY <1>1, <1>2, <1>3, <1>4, <1>5, <1>6, Steps

\* The tables and generators of a hook keep their types.
THEOREM TypeCorrect == Spec => []TypeOK
  BY TypeInit, TypeNext, PTL DEF Spec

------------------------------------------------------------------------------
(* The registry.                                                           *)

LEMMA RegistryInit == Init => RegistryInv
  BY DEF Init, RegistryInv, RegistryIsLive

\* A step that neither touches the registry nor moves a live call keeps it live.
LEMMA RegistryKept ==
  ASSUME RegistryInv, UNCHANGED <<kind, registry, request>>,
         \A d \in Calls : stage[d] \in {"reading", "last", "abandoned"} =>
                            stage'[d] \in {"reading", "last", "abandoned"},
         registry \in [Ids -> Calls \cup {NoCall}]
  PROVE  RegistryInv'
  BY DEF RegistryInv, RegistryIsLive, Registers

LEMMA RegistryNext ==
  ASSUME TypeOK, HeldBack, RegistryInv, [Next]_vars
  PROVE  RegistryInv'
<1>0. /\ registry \in [Ids -> Calls \cup {NoCall}] /\ request \in [Calls -> Ids]
      /\ stage \in [Calls -> Stages]
  BY DEF TypeOK
<1>1. ASSUME NEW c \in Calls, NEW s \in Sessions, Resume(c, s)
      PROVE  RegistryInv'
  <2>1. /\ UNCHANGED <<kind, registry, request>>
        /\ stage[c] = "idle" /\ stage' = [stage EXCEPT ![c] = "posting"]
    BY <1>1 DEF Resume
  <2>2. QED
    BY <1>0, <2>1, RegistryKept
<1>2. ASSUME NEW c \in Calls, Opened(c)
      PROVE  RegistryInv'
  <2>1. /\ UNCHANGED <<kind, request>>
        /\ stage' = [stage EXCEPT ![c] = "reading"]
        /\ registry' = IF Registers THEN [registry EXCEPT ![request[c]] = c] ELSE registry
    BY <1>2 DEF Opened, ids
  <2>2. QED
    BY <1>0, <2>1 DEF RegistryInv, RegistryIsLive, Registers
<1>3. ASSUME NEW c \in Calls, Leave(c, Open)
      PROVE  RegistryInv'
  <2>1. /\ UNCHANGED <<kind, request>>
        /\ stage' = [stage EXCEPT ![c] = "ended"]
        /\ registry' = IF Registers THEN [registry EXCEPT ![request[c]] = NoCall]
                                    ELSE registry
    BY <1>3 DEF Leave, Unregister
  <2>2. QED
    BY <1>0, <2>1 DEF RegistryInv, RegistryIsLive, Registers
<1>4. ASSUME NEW c \in Calls, Line(c)
      PROVE  RegistryInv'
  <2>1. /\ UNCHANGED <<kind, registry, request>>
        /\ stage' = stage \/ stage' = [stage EXCEPT ![c] = "last"]
    BY <1>4, LineKinds DEF Speaks, Withholds, Skips, ids
  <2>2. QED
    BY <1>0, <2>1, RegistryKept
<1>5. ASSUME NEW c \in Calls, Dropped(c)
      PROVE  RegistryInv'
  <2>1. /\ UNCHANGED <<kind, registry, request>>
        /\ stage' = [stage EXCEPT ![c] = "abandoned"]
    BY <1>5 DEF Dropped, ids
  <2>2. QED
    BY <1>0, <2>1, RegistryKept
<1>6. CASE Beside
  <2>1. UNCHANGED <<kind, stage, request>>
    BY <1>6, BesideKinds DEF ids
  <2>2. \A r \in Ids : registry'[r] \in {registry[r], NoCall}
    <3>1. ASSUME NEW q \in Ids, Severs(q)
          PROVE  registry' = registry \/ registry' = [registry EXCEPT ![q] = NoCall]
      BY <3>1 DEF Severs, CloseSocket
    <3>2. ASSUME Close \/ VllmClose
          PROVE  registry' = registry \/ registry' = [r \in Ids |-> NoCall]
      BY <3>2 DEF Close, VllmClose
    <3>3. QED
      BY <1>0, <1>6, <3>1, <3>2, BesideKinds DEF Tells
  <2>3. QED
    BY <1>0, <2>1, <2>2 DEF RegistryInv, RegistryIsLive, Registers
<1>7. CASE UNCHANGED vars
  BY <1>0, <1>7, RegistryKept DEF vars, ids
<1>8. QED
  BY <1>1, <1>2, <1>3, <1>4, <1>5, <1>6, <1>7, Steps

\* An entry of _active_streams is a call of its id whose generator is not over: no
\* handle outlives its stream, shared ids, dropped generators and close included.
THEOREM HandlesAreLive == Spec => []RegistryIsLive
<1>1. RegistryInv => RegistryIsLive
  BY DEF RegistryInv
<1>2. QED
  BY TypeInit, TypeNext, RegistryInit, RegistryNext, <1>1, PTL DEF Spec

------------------------------------------------------------------------------
(* The budget.                                                             *)

LEMMA BudgetInit == Init => BudgetInv
<1> SUFFICES ASSUME Init, NEW c \in Calls
             PROVE  /\ at[c] <= end[c]
                    /\ end[c] <= Larger(MaxTokens, session[c].flushed + 2)
  BY DEF BudgetInv
<1>1. at[c] = 0 /\ end[c] = 0 /\ session[c].flushed = -1
  BY DEF Init, None
<1>2. QED
  BY <1>1, HookAssumption DEF Larger

LEMMA BudgetNext ==
  ASSUME TypeOK, HeldBack, BudgetInv, [Next]_vars
  PROVE  BudgetInv'
<1>0. /\ at \in [Calls -> Nat] /\ end \in [Calls -> Nat]
      /\ session \in [Calls -> Sessions \cup {None}]
  BY DEF TypeOK
<1>1. ASSUME NEW c \in Calls, NEW s \in Sessions, Resume(c, s)
      PROVE  BudgetInv'
  <2>1. /\ ReplyStart(s) \in Nat /\ Payload(s).budget \in Nat
        /\ Tracked(s) => ReplyStart(s) + Payload(s).budget <= Larger(MaxTokens, s.flushed + 2)
    BY HookAssumption, ResumeFits DEF TypeOK
  <2>2. /\ at' = [at EXCEPT ![c] = ReplyStart(s)]
        /\ end' = [end EXCEPT ![c] = ReplyStart(s) + Payload(s).budget]
        /\ session' = [session EXCEPT ![c] = s]
    BY <1>1 DEF Resume
  <2>3. ReplyStart(s) <= ReplyStart(s) + Payload(s).budget
    BY <2>1
  <2>4. QED
    BY <1>0, <2>1, <2>2, <2>3 DEF BudgetInv
<1>2. ASSUME NEW c \in Calls, Leave(c, Open)
      PROVE  BudgetInv'
  <2>1. /\ at' = [at EXCEPT ![c] = 0] /\ end' = [end EXCEPT ![c] = 0]
        /\ session' = [session EXCEPT ![c] = None]
    BY <1>2 DEF Leave
  <2>2. 0 <= Larger(MaxTokens, None.flushed + 2)
    BY HookAssumption DEF None, Larger
  <2>3. QED
    BY <1>0, <2>1, <2>2 DEF BudgetInv
<1>3. ASSUME NEW c \in Calls, Line(c)
      PROVE  BudgetInv'
  <2>1. /\ at' = at \/ (at[c] < end[c] /\ at' = [at EXCEPT ![c] = @ + 1])
        /\ UNCHANGED <<end, session>>
    BY <1>3, LineKinds DEF Speaks, Withholds, Skips, ids
  <2>2. QED
    BY <1>0, <2>1 DEF BudgetInv
<1>4. CASE UNCHANGED <<at, end, session>>
  BY <1>4 DEF BudgetInv
<1>5. ASSUME NEW c \in Calls, Opened(c) \/ Dropped(c)
      PROVE  BudgetInv'
  BY <1>4, <1>5 DEF Opened, Dropped, reply, ids
<1>6. CASE Beside
  BY <1>4, <1>6, BesideKinds DEF reply, ids
<1>7. CASE UNCHANGED vars
  BY <1>4, <1>7 DEF vars, reply, ids
<1>8. QED
  BY <1>1, <1>2, <1>3, <1>5, <1>6, <1>7, Steps

\* A resumed answer of a tracked session stays within max_tokens, the part that was
\* flushed included, but for one token that is asked for when nothing is left
\* (prepare_resumed_request).  A session known from the proxy's list only, with
\* numbers and no text, is not tracked, and its budget is not cut.
THEOREM ResumedWithinBudget == Spec => []WithinBudget
<1>1. TypeOK /\ BudgetInv => WithinBudget
  <2> SUFFICES ASSUME TypeOK, BudgetInv, NEW c \in Calls, Tracked(session[c])
               PROVE  at[c] <= Larger(MaxTokens, session[c].flushed + 2)
    BY DEF WithinBudget
  <2>1. session[c].flushed \in Nat \cup {-1}
    BY HookAssumption DEF TypeOK, Session, None
  <2>2. /\ at[c] \in Nat /\ end[c] \in Nat /\ at[c] <= end[c]
        /\ Larger(MaxTokens, session[c].flushed + 2) \in Nat
        /\ end[c] <= Larger(MaxTokens, session[c].flushed + 2)
    BY <2>1, HookAssumption DEF TypeOK, BudgetInv, Larger
  <2>3. QED
    BY <2>2
<1>2. QED
  BY TypeInit, TypeNext, BudgetInit, BudgetNext, <1>1, PTL DEF Spec

------------------------------------------------------------------------------
(* The seam.                                                               *)

LEMMA SeamInit == Init => SeamInv
<1> SUFFICES ASSUME Init, NEW c \in Calls PROVE InStep(c)
  BY DEF SeamInv
<1>1. /\ chunks[c] = <<>> /\ next[c] = 0 /\ at[c] = 0 /\ withheld[c] = 0
      /\ session[c].flushed = -1
  BY DEF Init, None
<1>2. QED
  BY <1>1 DEF InStep, Due, StartingSequenceId

\* What Append adds.
LEMMA Appended ==
  ASSUME NEW S, NEW q \in Seq(S), NEW e \in S
  PROVE  /\ Len(Append(q, e)) = Len(q) + 1 /\ Append(q, e) # <<>>
         /\ Append(q, e)[Len(q) + 1] = e
         /\ \A i \in 1..Len(q) : Append(q, e)[i] = q[i]
  OBVIOUS

\* What a line yields keeps the call in step: its number is the next one, and its
\* tokens begin with the one that is due.
LEMMA SpeakingInStep ==
  ASSUME TypeOK, HeldBack, NEW c \in Calls, Speaks(c), InStep(c), session' = session,
         kind' = kind
  PROVE  InStep(c)'
<1> DEFINE Chunk == [seq : Nat, first : Nat, last : Nat \cup {-1}]
           n == Len(chunks[c])
           start == session[c].flushed + 1
<1>1. /\ at[c] \in Nat /\ withheld[c] \in Nat /\ next[c] \in Nat /\ chunks[c] \in Seq(Chunk)
      /\ n \in Nat /\ withheld[c] <= at[c] /\ start \in Nat
  <2>1. session[c].flushed \in Nat \cup {-1}
    BY HookAssumption DEF TypeOK, Session, None
  <2>2. start \in Nat
    BY <2>1
  <2>3. /\ at[c] \in Nat /\ withheld[c] \in Nat /\ next[c] \in Nat /\ chunks[c] \in Seq(Chunk)
        /\ withheld[c] <= at[c]
    BY DEF TypeOK, HeldBack
  <2>4. QED
    BY <2>2, <2>3
<1>0. PICK held \in Nat :
        /\ held <= at'[c] /\ (kind # "tgi" => held = 0)
        /\ withheld' = [withheld EXCEPT ![c] = held]
        /\ Yield(c, IF kind = "mock" THEN at[c] ELSE next[c],
                 at[c] - withheld[c], (at'[c] - 1) - held)
  BY DEF Speaks
<1>2. /\ at'[c] \in {at[c], at[c] + 1} /\ (kind = "mock" => at'[c] = at[c] + 1)
      /\ withheld'[c] = held
  <2>1. /\ at' = at \/ at' = [at EXCEPT ![c] = @ + 1]
        /\ kind = "mock" => at' # at
        /\ withheld' = [withheld EXCEPT ![c] = held]
    BY <1>0 DEF Speaks
  <2>2. at \in [Calls -> Nat] /\ withheld \in [Calls -> Nat]
    BY DEF TypeOK
  <2>3. QED
    BY <2>1, <2>2
<1>3. PICK seq \in Nat, first \in Nat, last \in Nat \cup {-1} :
        /\ Yield(c, seq, first, last)
        /\ seq = next[c] /\ first = at[c] - withheld[c] /\ last = (at'[c] - 1) - held
  <2>1. (IF kind = "mock" THEN at[c] ELSE next[c]) = next[c]
    BY DEF InStep
  <2>2. at[c] - withheld[c] \in Nat
    BY <1>1
  <2>3. (at'[c] - 1) - held \in Nat \cup {-1}
    <3>1. at'[c] \in Nat /\ held \in Nat /\ held <= at'[c]
      BY <1>0, <1>1, <1>2
    <3>2. QED
      BY <3>1
  <2>4. Yield(c, next[c], at[c] - withheld[c], (at'[c] - 1) - held)
    BY <1>0, <2>1
  <2>5. QED
    BY <1>1, <2>2, <2>3, <2>4
<1> DEFINE new == [seq |-> seq, first |-> first, last |-> last]
<1>4. chunks'[c] = Append(chunks[c], new) /\ next'[c] = seq + 1
  BY <1>3 DEF Yield, TypeOK
<1>5. new \in Chunk
  OBVIOUS
<1>6. /\ Len(chunks'[c]) = n + 1 /\ chunks'[c][n + 1] = new /\ chunks'[c] # <<>>
      /\ \A i \in 1..n : chunks'[c][i] = chunks[c][i]
  <2> HIDE DEF Chunk, new
  <2>1. chunks[c] \in Seq(Chunk) /\ new \in Chunk /\ chunks'[c] = Append(chunks[c], new)
    BY <1>1, <1>4, <1>5
  <2>2. QED
    BY <2>1, Appended
<1>7. next'[c] = start + Len(chunks'[c])
  <2>1. next[c] = start + n
    BY DEF InStep, StartingSequenceId
  <2>2. next'[c] = next[c] + 1 /\ Len(chunks'[c]) = n + 1
    BY <1>3, <1>4, <1>6
  <2>3. start \in Nat /\ n \in Nat
    BY <1>1
  <2> HIDE DEF start, n
  <2>4. QED
    BY <2>1, <2>2, <2>3
<1>8. kind = "mock" => at'[c] = next'[c]
  BY <1>1, <1>2, <1>3, <1>4 DEF InStep
<1>9. at'[c] - withheld'[c] = Due(c)'
  <2>1. Due(c)' = new.last + 1
    BY <1>6 DEF Due
  <2>2. QED
    BY <1>1, <1>2, <1>3, <2>1
<1>10. ASSUME NEW i \in 1..Len(chunks'[c])
       PROVE  /\ chunks'[c][i].seq = start + i - 1
              /\ chunks'[c][i].first = IF i = 1 THEN start ELSE chunks'[c][i - 1].last + 1
  <2>1. CASE i \in 1..n
    <3>1. i # 1 => i - 1 \in 1..n
      BY <1>1, <2>1
    <3>2. QED
      BY <1>6, <2>1, <3>1 DEF InStep, StartingSequenceId
  <2>2. CASE i = n + 1
    <3>1. chunks'[c][i].seq = start + i - 1
      BY <1>1, <1>3, <1>6, <2>2 DEF InStep, StartingSequenceId
    <3>2. chunks'[c][i].first = Due(c)
      BY <1>3, <1>6, <2>2 DEF InStep
    <3>3. Due(c) = IF n = 0 THEN start ELSE chunks[c][n].last + 1
      BY <1>1 DEF Due
    <3>4. n # 0 => chunks'[c][i - 1] = chunks[c][n]
      <4>1. i - 1 = n /\ (n # 0 => n \in 1..n)
        BY <1>1, <2>2
      <4>2. QED
        BY <1>6, <4>1
    <3>5. QED
      BY <1>1, <2>2, <3>1, <3>2, <3>3, <3>4
  <2>3. QED
    BY <1>1, <1>6, <2>1, <2>2
<1>11. session'[c].flushed + 1 = start
  OBVIOUS
<1>12. QED
  BY <1>7, <1>8, <1>9, <1>10, <1>11 DEF InStep, StartingSequenceId

LEMMA SeamNext ==
  ASSUME TypeOK, HeldBack, SeamInv, [Next]_vars
  PROVE  SeamInv'
<1>0. /\ session \in [Calls -> Sessions \cup {None}] /\ lost \in [Calls -> BOOLEAN]
      /\ at \in [Calls -> Nat] /\ next \in [Calls -> Nat] /\ withheld \in [Calls -> Nat]
      /\ DOMAIN chunks = Calls
      /\ chunks = [d \in Calls |-> chunks[d]]
  BY DEF TypeOK
<1>1. ASSUME NEW d \in Calls, InStep(d), kind' = kind, session'[d] = session[d],
             at'[d] = at[d], withheld'[d] = withheld[d], next'[d] = next[d],
             chunks'[d] = chunks[d]
      PROVE  InStep(d)'
  BY <1>1 DEF InStep, Due, StartingSequenceId
<1>2. ASSUME NEW c \in Calls, NEW s \in Sessions, Resume(c, s)
      PROVE  SeamInv'
  <2> SUFFICES ASSUME NEW d \in Calls, Tracked(session'[d]), ~lost'[d]
               PROVE  InStep(d)'
    BY DEF SeamInv
  <2>1. /\ stage[c] = "idle" /\ UNCHANGED <<kind, withheld, chunks, lost>>
        /\ session' = [session EXCEPT ![c] = s]
        /\ at' = [at EXCEPT ![c] = ReplyStart(s)]
        /\ next' = [next EXCEPT ![c] = s.flushed + 1]
    BY <1>2 DEF Resume
  <2>2. CASE d = c
    <3>1. /\ session'[c] = s /\ at'[c] = ReplyStart(s) /\ next'[c] = s.flushed + 1
          /\ withheld'[c] = 0 /\ chunks'[c] = <<>>
      BY <1>0, <2>1 DEF HeldBack
    <3>2. ReplyStart(s) = s.flushed + 1 /\ s.flushed + 1 \in Nat
      BY <2>2, <3>1, HookAssumption, ResumeFits DEF TypeOK
    <3>3. QED
      BY <2>2, <3>1, <3>2 DEF InStep, Due, StartingSequenceId
  <2>3. CASE d # c
    BY <1>0, <1>1, <2>1, <2>3 DEF SeamInv
  <2>4. QED
    BY <2>2, <2>3
<1>3. ASSUME NEW c \in Calls, Leave(c, Open)
      PROVE  SeamInv'
  <2> SUFFICES ASSUME NEW d \in Calls, Tracked(session'[d]), ~lost'[d]
               PROVE  InStep(d)'
    BY DEF SeamInv
  <2>1. /\ UNCHANGED kind
        /\ session' = [session EXCEPT ![c] = None]
        /\ at' = [at EXCEPT ![c] = 0] /\ withheld' = [withheld EXCEPT ![c] = 0]
        /\ next' = [next EXCEPT ![c] = 0] /\ chunks' = [chunks EXCEPT ![c] = <<>>]
        /\ lost' = [lost EXCEPT ![c] = FALSE]
    BY <1>3 DEF Leave
  <2>2. CASE d = c
    <3>1. /\ session'[c].flushed = -1 /\ at'[c] = 0 /\ next'[c] = 0
          /\ withheld'[c] = 0 /\ chunks'[c] = <<>>
      BY <1>0, <2>1 DEF None
    <3>2. QED
      BY <2>2, <3>1 DEF InStep, Due, StartingSequenceId
  <2>3. CASE d # c
    BY <1>0, <1>1, <2>1, <2>3 DEF SeamInv
  <2>4. QED
    BY <2>2, <2>3
<1>4. ASSUME NEW c \in Calls, Line(c)
      PROVE  SeamInv'
  <2> SUFFICES ASSUME NEW d \in Calls, Tracked(session'[d]), ~lost'[d]
               PROVE  InStep(d)'
    BY DEF SeamInv
  <2>1. /\ UNCHANGED <<kind, session>>
        /\ Speaks(c) \/ Withholds(c) \/ Skips(c)
    BY <1>4, LineKinds DEF ids
  <2>2. lost' = lost \/ (Skips(c) /\ lost' = [lost EXCEPT ![c] = TRUE])
    BY <2>1 DEF Speaks, Withholds, Skips
  <2>3. InStep(d) /\ ~(d = c /\ Skips(c))
    <3>1. ~lost[d] /\ Tracked(session[d])
      BY <1>0, <2>1, <2>2
    <3>2. Skips(c) => lost'[c]
      BY <1>0 DEF Skips
    <3>3. QED
      BY <3>1, <3>2 DEF SeamInv
  <2>4. CASE d # c
    <3>1. /\ at' = at \/ at' = [at EXCEPT ![c] = @ + 1]
          /\ \/ withheld' = withheld
             \/ \E held \in Nat : withheld' = [withheld EXCEPT ![c] = held]
             \/ withheld' = [withheld EXCEPT ![c] = @ + 1]
      BY <2>1 DEF Speaks, Withholds, Skips
    <3>2. next'[d] = next[d] /\ chunks'[d] = chunks[d]
      BY <1>0, <2>1, <2>4 DEF Speaks, Withholds, Skips, Yield
    <3>3. at'[d] = at[d] /\ withheld'[d] = withheld[d]
      BY <1>0, <2>4, <3>1
    <3>4. QED
      BY <1>1, <2>1, <2>3, <3>2, <3>3
  <2>5. CASE d = c /\ Speaks(c)
    BY <2>1, <2>3, <2>5, SpeakingInStep
  <2>6. CASE d = c /\ Withholds(c)
    <3>1. /\ kind # "mock" /\ UNCHANGED <<chunks, next>>
          /\ at'[c] = at[c] + 1 /\ withheld'[c] = withheld[c] + 1
      BY <1>0, <2>6 DEF Withholds
    <3>2. at'[c] - withheld'[c] = at[c] - withheld[c]
      BY <1>0, <3>1
    <3>3. QED
      BY <2>1, <2>3, <2>6, <3>1, <3>2 DEF InStep, Due, StartingSequenceId
  <2>7. QED
    BY <2>1, <2>3, <2>4, <2>5, <2>6
<1>5. CASE UNCHANGED <<kind, session, at, withheld, next, chunks, lost>>
  BY <1>5 DEF SeamInv, InStep, Due
<1>6. ASSUME NEW c \in Calls, Opened(c) \/ Dropped(c)
      PROVE  SeamInv'
  BY <1>5, <1>6 DEF Opened, Dropped, reply, ids
<1>7. CASE Beside
  BY <1>5, <1>7, BesideKinds DEF reply, ids
<1>8. CASE UNCHANGED vars
  BY <1>5, <1>8 DEF vars, reply, ids
<1>9. QED
  BY <1>2, <1>3, <1>4, <1>6, <1>7, <1>8, Steps

\* A tracked session, whose flushed tokens are known as text, is continued without a
\* seam by every hook: its chunks are numbered from starting_sequence_id on and carry
\* the tokens behind the last one flushed, none twice and, while every line can be
\* read, none missing (stream_resumed).
THEOREM ResumedSeamlessly == Spec => []Seamless
<1>1. SeamInv => Seamless
  BY DEF SeamInv, Seamless, InStep
<1>2. QED
  BY TypeInit, TypeNext, SeamInit, SeamNext, <1>1, PTL DEF Spec

------------------------------------------------------------------------------
(* Aborts.                                                                 *)

LEMMA SilenceInit == Init => SilenceInv
  BY DEF Init, SilenceInv

LEMMA SilenceNext ==
  ASSUME TypeOK, HeldBack, RegistryInv, SilenceInv, [Next]_vars
  PROVE  SilenceInv'
<1>0. /\ registry \in [Ids -> Calls \cup {NoCall}] /\ request \in [Calls -> Ids]
      /\ stage \in [Calls -> Stages] /\ severed \in [Calls -> BOOLEAN]
      /\ halted \in [Calls -> BOOLEAN]
  BY DEF TypeOK
<1> USE DEF SilenceInv, Registers, NeverShared
<1>1. ASSUME NEW c \in Calls, NEW s \in Sessions, Resume(c, s)
      PROVE  SilenceInv'
  <2>1. /\ UNCHANGED <<kind, registry, severed, halted, request>>
        /\ stage[c] = "idle" /\ stage' = [stage EXCEPT ![c] = "posting"]
    BY <1>1 DEF Resume
  <2>2. QED
    BY <1>0, <2>1
<1>2. ASSUME NEW c \in Calls, Opened(c)
      PROVE  SilenceInv'
  <2>1. /\ UNCHANGED <<kind, severed, halted, request>>
        /\ stage[c] = "posting" /\ stage' = [stage EXCEPT ![c] = "reading"]
        /\ registry' = IF Registers THEN [registry EXCEPT ![request[c]] = c] ELSE registry
    BY <1>2 DEF Opened, ids
  <2>2. ~halted[c]
    BY <2>1
  <2>3. QED
    BY <1>0, <2>1, <2>2
<1>3. ASSUME NEW c \in Calls, Leave(c, Open)
      PROVE  SilenceInv'
  <2>1. /\ UNCHANGED <<kind, request>>
        /\ stage' = [stage EXCEPT ![c] = "ended"]
        /\ severed' = [severed EXCEPT ![c] = FALSE]
        /\ halted' = [halted EXCEPT ![c] = FALSE]
        /\ registry' = IF Registers THEN [registry EXCEPT ![request[c]] = NoCall]
                                    ELSE registry
    BY <1>3 DEF Leave, Unregister
  <2>2. QED
    BY <1>0, <2>1
<1>4. ASSUME NEW c \in Calls, Line(c)
      PROVE  SilenceInv'
  <2>1. /\ UNCHANGED <<kind, registry, severed, halted, request>>
        /\ stage' = stage \/ stage' = [stage EXCEPT ![c] = "last"]
        /\ stage[c] = "reading"
    BY <1>4, LineKinds DEF Speaks, Withholds, Skips, ids, Reads
  <2>2. QED
    BY <1>0, <2>1
<1>5. ASSUME NEW c \in Calls, Dropped(c)
      PROVE  SilenceInv'
  <2>1. /\ UNCHANGED <<kind, registry, severed, halted, request>>
        /\ stage' = [stage EXCEPT ![c] = "abandoned"]
    BY <1>5 DEF Dropped, ids, reply
  <2>2. QED
    BY <1>0, <2>1
<1>6. CASE Beside
  <2>1. UNCHANGED <<kind, stage, request>>
    BY <1>6, BesideKinds DEF ids
  <2>2. ASSUME NEW r \in Ids, Severs(r)
        PROVE  SilenceInv'
    <3>1. \A c \in Calls : halted'[c] =>
            halted[c] \/ (request[c] = r /\ stage[c] = "reading")
      BY <2>2 DEF Severs, Succeeds, CallsOf
    <3>2. CASE CloseSocket(r)
      <4>1. /\ registry[r] \in Calls /\ request[registry[r]] = r
            /\ severed' = [severed EXCEPT ![registry[r]] = TRUE]
            /\ registry' = [registry EXCEPT ![r] = NoCall]
        BY <1>0, <3>2 DEF CloseSocket, RegistryInv, RegistryIsLive
      <4>2. ASSUME NEW c \in Calls, Registers, NeverShared(c), stage[c] = "reading"
            PROVE  /\ registry'[request[c]] = c \/ severed'[c]
                   /\ halted'[c] => severed'[c]
        <5>1. CASE request[c] = r
          <6>1. registry[r] = c
            BY <4>1, <4>2, <5>1
          <6>2. QED
            BY <1>0, <4>1, <6>1
        <5>2. CASE request[c] # r
          BY <1>0, <3>1, <4>1, <4>2, <5>2
        <5>3. QED
          BY <5>1, <5>2
      <4>3. QED
        BY <2>1, <3>1, <4>2
    <3>3. CASE registry[r] = NoCall /\ UNCHANGED <<severed, registry>>
      <4>1. ASSUME NEW c \in Calls, Registers, NeverShared(c), stage[c] = "reading"
            PROVE  /\ registry[request[c]] = c \/ severed[c]
                   /\ halted'[c] => severed[c]
        BY <3>1, <3>3, <4>1, HookAssumption
      <4>2. QED
        BY <2>1, <3>1, <3>3, <4>1
    <3>4. QED
      BY <2>2, <3>2, <3>3 DEF Severs
  <2>3. CASE Close \/ VllmClose
    <3>1. halted' = halted /\ (Registers => Close)
      BY <2>3 DEF Close, VllmClose
    <3>2. ASSUME NEW c \in Calls, Close, NeverShared(c), stage[c] = "reading", Registers
          PROVE  severed'[c]
      <4>1. registry[request[c]] = c \/ severed[c]
        BY <3>2
      <4>2. \/ severed' = [d \in Calls |-> severed[d] \/ \E r \in Ids : registry[r] = d]
            \/ severed' = [d \in Calls |-> severed[d] \/ stage[d] \in Open]
        BY <3>2 DEF Close, CallsSevered
      <4>3. request[c] \in Ids /\ stage[c] \in Open
        BY <1>0, <3>2 DEF Open
      <4>4. ASSUME severed' = [d \in Calls |-> severed[d] \/ \E r \in Ids : registry[r] = d]
            PROVE  severed'[c]
        BY <4>1, <4>3, <4>4
      <4>5. ASSUME severed' = [d \in Calls |-> severed[d] \/ stage[d] \in Open]
            PROVE  severed'[c]
        BY <4>3, <4>5
      <4>6. QED
        BY <4>2, <4>4, <4>5
    <3>3. QED
      BY <2>1, <3>1, <3>2
  <2>4. CASE Tells
    BY <2>1, <2>4 DEF Tells
  <2>5. QED
    BY <1>6, <2>2, <2>3, <2>4, BesideKinds
<1>7. CASE UNCHANGED vars
  BY <1>7 DEF vars, ids
<1>8. QED
  BY <1>1, <1>2, <1>3, <1>4, <1>5, <1>6, <1>7, Steps

\* After an abort_request that reported success a stream that was reading yields
\* nothing more, for the hooks that sever its connection and an id of one call.
THEOREM AbortedIsSilent == Spec => AbortSilences
<1>1. TypeOK /\ HeldBack /\ SilenceInv /\ [Next]_vars =>
        [\A c \in Calls : Registers /\ NeverShared(c) /\ halted[c] =>
           Len(chunks'[c]) <= Len(chunks[c])]_vars
  <2> SUFFICES ASSUME TypeOK, HeldBack, SilenceInv, [Next]_vars, NEW c \in Calls,
                      Registers, NeverShared(c), halted[c]
               PROVE  Len(chunks'[c]) <= Len(chunks[c])
    OBVIOUS
  <2>1. /\ DOMAIN chunks = Calls /\ chunks = [d \in Calls |-> chunks[d]]
        /\ Len(chunks[c]) \in Nat /\ Len(<<>>) = 0
    BY DEF TypeOK
  <2>2. ASSUME NEW d \in Calls, Line(d) PROVE chunks'[c] = chunks[c]
    <3>1. stage[d] = "reading" /\ ~severed[d] /\ (Speaks(d) \/ chunks' = chunks)
      BY <2>2, LineKinds DEF Reads, Withholds, Skips
    <3>2. d # c
      BY <3>1 DEF SilenceInv
    <3>3. QED
      BY <2>1, <3>1, <3>2 DEF Speaks, Yield
  <2>3. ASSUME NEW d \in Calls, Leave(d, Open) PROVE chunks'[c] \in {chunks[c], <<>>}
    BY <2>1, <2>3 DEF Leave
  <2>4. chunks'[c] \in {chunks[c], <<>>}
    <3>1. ASSUME NEW d \in Calls, Opened(d) \/ Dropped(d) PROVE chunks' = chunks
      BY <3>1 DEF Opened, Dropped, reply
    <3>2. ASSUME NEW d \in Calls, NEW s \in Sessions, Resume(d, s) PROVE chunks' = chunks
      BY <3>2 DEF Resume
    <3>3. CASE Beside
      BY <3>3, BesideKinds DEF reply
    <3>4. CASE UNCHANGED vars
      BY <3>4 DEF vars, reply
    <3>5. QED
      BY <2>2, <2>3, <3>1, <3>2, <3>3, <3>4, Steps
  <2>5. QED
    BY <2>1, <2>4
<1>2. QED
  BY TypeInit, TypeNext, RegistryInit, RegistryNext, SilenceInit, SilenceNext, <1>1, PTL
     DEF Spec, AbortSilences
==============================================================================
