------------------------- MODULE IngressProxyProofs --------------------------
(***************************************************************************)
(* Theorems about the ingress proxy, for any number of requests and any    *)
(* length of answer.  TypeOK needs no assumption beyond those on the       *)
(* constants; the delivery theorems assume UniqueIds, for requests that    *)
(* share an id drop each other's tokens as duplicates.                     *)
(***************************************************************************)
EXTENDS IngressProxy, TLAPS

\* A reply's numbers are not ahead of its tokens, and a write is under way only
\* after a token was read.
TypeInv ==
  /\ TypeOK
  /\ \A s \in Streams : lag[s] <= pos[s]
  /\ \A s \in Streams : pc[s] = "writing" => lag[s] < pos[s]

LEMMA EngineEndType ==
  ASSUME NEW start \in 0 .. OutputLen
  PROVE  EngineEnd(start) \in 0 .. OutputLen
  BY IngressAssumption DEF EngineEnd

LEMMA TypeInit == Init => TypeInv
<1> SUFFICES ASSUME Init PROVE TypeInv
  OBVIOUS
<1> USE IngressAssumption DEF Init
<1>1. /\ lastFlushed \in [Ids -> Tokens \cup {-1}]
      /\ cutoff \in [Streams -> Tokens \cup {-1}]
      /\ pos \in [Streams -> 0 .. OutputLen]
      /\ end \in [Streams -> 0 .. OutputLen]
      /\ lag \in [Streams -> 0 .. OutputLen]
      /\ intact \in [Streams -> 0 .. OutputLen]
  OBVIOUS
<1>2. /\ client \in [Streams -> Seq(Tokens)]
      /\ \A s \in Streams : pc[s] # "writing" /\ lag[s] <= pos[s]
  OBVIOUS
<1>3. QED
  BY <1>1, <1>2 DEF TypeInv, TypeOK, Stages, Live

LEMMA TypeNext == TypeInv /\ [Next]_vars => TypeInv'
<1> SUFFICES ASSUME TypeInv, [Next]_vars
             PROVE  TypeInv'
  OBVIOUS
<1> USE IngressAssumption DEF TypeInv, TypeOK, Stages, Live, Tokens, Goto,
        tables, objects, reply, delivery, Number
<1>1. ASSUME NEW s \in Streams, Arrive(s) PROVE TypeInv'
  BY <1>1 DEF Arrive
<1>2. ASSUME NEW s \in Streams, PrepareFails(s) PROVE TypeInv'
  BY <1>2 DEF PrepareFails
<1>3. ASSUME NEW s \in Streams, ClientGone(s) PROVE TypeInv'
  BY <1>3 DEF ClientGone, LeaveInFlight
<1>4. ASSUME NEW s \in Streams, Forwarded(s) PROVE TypeInv'
  BY <1>4 DEF Forwarded
<1>5. ASSUME NEW s \in Streams, Start(s) PROVE TypeInv'
  <2>1. EngineEnd(0) \in 0 .. OutputLen
    BY EngineEndType
  <2>2. /\ pos' = [pos EXCEPT ![s] = 0]
        /\ end' = [end EXCEPT ![s] = EngineEnd(0)]
        /\ lag' = [lag EXCEPT ![s] = 0]
        /\ intact' = intact
        /\ pc' = [pc EXCEPT ![s] = "reading"]
        /\ upstream' \in [Streams -> {"active", "standby"}]
    BY <1>5 DEF Start, OpenUpstream
  <2>3. /\ sessions' \in [Ids -> Streams \cup {NoStream}]
        /\ held' \in [Streams -> Streams \cup {NoStream}]
        /\ UNCHANGED <<preemptionActive, inFlight, lastFlushed, signaled, ready, cutoff,
                       switched, client, done, activeEngine>>
    BY <1>5 DEF Start
  <2>4. /\ pos' \in [Streams -> 0 .. OutputLen]
        /\ end' \in [Streams -> 0 .. OutputLen]
        /\ lag' \in [Streams -> 0 .. OutputLen]
        /\ \A t \in Streams : lag'[t] <= pos'[t]
        /\ \A t \in Streams : pc'[t] = "writing" => lag'[t] < pos'[t]
    BY <2>1, <2>2
  <2>5. QED
    BY <2>2, <2>3, <2>4
<1>6. ASSUME NEW s \in Streams, TakeToken(s) PROVE TypeInv'
  BY <1>6, SMTT(30) DEF TakeToken, Readable
<1>7. ASSUME NEW s \in Streams, DropDuplicate(s) PROVE TypeInv'
  <2>1. CutoffReached(s, Number(s)) \in BOOLEAN
    BY DEF CutoffReached
  <2>2. QED
    BY <1>7, <2>1 DEF DropDuplicate, Readable, NextChunk
<1>8. ASSUME NEW s \in Streams, SkipLine(s) PROVE TypeInv'
  <2>1. Number(s) \in 0 .. OutputLen
    OBVIOUS
  <2>2. intact' \in [Streams -> 0 .. OutputLen]
    <3>1. \/ intact' = intact
          \/ intact' = [intact EXCEPT ![s] = IF Number(s) < intact[s] THEN Number(s)
                                             ELSE intact[s]]
      BY <1>8 DEF SkipLine
    <3>2. intact \in [Streams -> 0 .. OutputLen]
      OBVIOUS
    <3> HIDE DEF Number, TypeInv, TypeOK
    <3>3. QED
      BY <2>1, <3>1, <3>2
  <2>3. /\ pc[s] = "reading" /\ pos[s] < OutputLen /\ lag[s] <= pos[s]
        /\ pos' = [pos EXCEPT ![s] = pos[s] + 1]
        /\ \/ lag' = [lag EXCEPT ![s] = lag[s] + 1]
           \/ lag' = lag
    BY <1>8 DEF SkipLine, Readable
  <2>4. /\ pos' \in [Streams -> 0 .. OutputLen]
        /\ \A t \in Streams : t # s => pos'[t] = pos[t]
        /\ pos'[s] = pos[s] + 1
    BY <2>3
  <2>5. CASE lag' = lag
    <3>1. \A t \in Streams : lag[t] <= pos'[t] /\ (pc[t] = "writing" => lag[t] < pos'[t])
      BY <2>3, <2>4
    <3>2. QED
      BY <1>8, <2>2, <2>4, <2>5, <3>1 DEF SkipLine
  <2>6. CASE lag' = [lag EXCEPT ![s] = lag[s] + 1]
    <3>1. lag' \in [Streams -> 0 .. OutputLen]
      BY <2>3, <2>6
    <3>2. \A t \in Streams : lag'[t] <= pos'[t] /\ (pc[t] = "writing" => lag'[t] < pos'[t])
      BY <2>3, <2>4, <2>6
    <3>3. QED
      BY <1>8, <2>2, <2>4, <3>1, <3>2 DEF SkipLine
  <2>7. QED
    BY <2>3, <2>5, <2>6
<1>9. ASSUME NEW s \in Streams, GapDetected(s) PROVE TypeInv'
  BY <1>9 DEF GapDetected, ReleaseSession, LeaveInFlight
<1>10. ASSUME NEW s \in Streams, WriteReturns(s) PROVE TypeInv'
  <2>1. CutoffReached(s, Number(s) - 1) \in BOOLEAN
    BY DEF CutoffReached
  <2>2. pos[s] - 1 \in Tokens
    BY <1>10 DEF WriteReturns
  <2>3. client' \in [Streams -> Seq(Tokens)]
    BY <1>10, <2>2 DEF WriteReturns
  <2>4. QED
    BY <1>10, <2>1, <2>3 DEF WriteReturns, NextChunk
<1>11. ASSUME NEW s \in Streams, UpstreamEnds(s) PROVE TypeInv'
  BY <1>11 DEF UpstreamEnds
<1>12. ASSUME NEW s \in Streams, DoneReturns(s) PROVE TypeInv'
  BY <1>12 DEF DoneReturns, ReleaseSession, LeaveInFlight
<1>13. ASSUME NEW s \in Streams, Finalize(s) PROVE TypeInv'
  BY <1>13 DEF Finalize, ReleaseSession
<1>14. ASSUME NEW s \in Streams, ConnectStandby(s)
       PROVE  /\ pc' \in [Streams -> Stages]
              /\ upstream' \in [Streams -> {"active", "standby"}]
              /\ pos' \in [Streams -> 0 .. OutputLen]
              /\ end' \in [Streams -> 0 .. OutputLen]
              /\ lag' \in [Streams -> 0 .. OutputLen] /\ intact' = intact
              /\ \A t \in Streams : lag'[t] <= pos'[t]
              /\ \A t \in Streams : pc'[t] = "writing" => lag'[t] < pos'[t]
  <2>1. PICK start \in {0, lastFlushed[IdOf[s]] + 1} : OpenUpstream(s, "standby", start)
    BY <1>14 DEF ConnectStandby, ResumePoints
  <2>2. start \in 0 .. OutputLen
    <3>1. lastFlushed[IdOf[s]] \in (0 .. OutputLen - 1) \cup {-1}
      OBVIOUS
    <3>2. QED
      BY <3>1
  <2>3. EngineEnd(start) \in 0 .. OutputLen
    BY <2>2, EngineEndType
  <2>4. QED
    BY <1>14, <2>1, <2>2, <2>3 DEF ConnectStandby, OpenUpstream
<1>15. ASSUME NEW s \in Streams, SwitchToStandby(s) PROVE TypeInv'
  <2>1. /\ ConnectStandby(s)
        /\ UNCHANGED <<preemptionActive, tables, objects, held, switched, delivery,
                       activeEngine>>
    BY <1>15 DEF SwitchToStandby
  <2>2. QED
    BY <1>14, <2>1
<1>16. ASSUME NEW s \in Streams, ForceStandby(s) PROVE TypeInv'
  BY <1>14, <1>16 DEF ForceStandby
<1>17. ASSUME NEW k \in -1 .. OutputLen - 1, PreemptionAlert(k) PROVE TypeInv'
  BY <1>17 DEF PreemptionAlert
<1>18. ASSUME NEW i \in Ids, HandoverReady(i) PROVE TypeInv'
  BY <1>18 DEF HandoverReady
<1>19. ASSUME NEW how \in {"closed", "silent"}, StopActive(how) PROVE TypeInv'
  BY <1>19 DEF StopActive
<1>30. ASSUME NEW s \in Streams, KeepAlive(s) PROVE TypeInv'
  BY <1>30 DEF KeepAlive
<1>31. ASSUME NEW s \in Streams, PingReturns(s) PROVE TypeInv'
  BY <1>31 DEF PingReturns
<1>20. CASE UNCHANGED vars
  BY <1>20 DEF vars
<1>21. QED
  BY <1>1, <1>2, <1>3, <1>4, <1>5, <1>6, <1>7, <1>8, <1>9, <1>10, <1>11, <1>12,
     <1>13, <1>15, <1>16, <1>17, <1>18, <1>19, <1>20, <1>30, <1>31
  DEF Next, Step, Turn, OthersAct, Switch

\* Type correctness: every reachable state of the proxy is well typed, whatever
\* the requests, their ids and the faults.
THEOREM TypeCorrect == Spec => []TypeOK
<1>1. TypeInv => TypeOK
  BY DEF TypeInv
<1>2. QED
  BY TypeInit, TypeNext, <1>1, PTL DEF Spec

------------------------------------------------------------------------------
(* Exactly-once delivery.                                                  *)

\* A table entry belongs to a running generator with that id.
SessionsOwned ==
  \A i \in Ids : sessions[i] # NoStream =>
    IdOf[sessions[i]] = i /\ pc[sessions[i]] \in Live

\* A running generator holds the session registered under its id.
LiveHolds ==
  \A s \in Streams : pc[s] \in Live => sessions[IdOf[s]] = s /\ held[s] = s

\* Before its first read a request has no trace of delivery.
FreshIsEmpty ==
  \A s \in Streams : pc[s] \in {"idle", "preparing"} =>
    client[s] = <<>> /\ lastFlushed[IdOf[s]] = -1

\* A flushed mark belongs to a running generator.
MarksOwned ==
  \A i \in Ids : lastFlushed[i] >= 0 =>
    \E s \in Streams : IdOf[s] = i /\ pc[s] \in Live

\* The numbers of a reply that lags behind its tokens are not vouched for.
LagIsMarked ==
  \A s \in Streams : lag[s] > 0 =>
    /\ pc[s] = "reading" => intact[s] <= Number(s)
    /\ pc[s] = "writing" => intact[s] < Number(s)

\* What a client received, without exception.
InOrder == \A s \in Streams : \A i \in 1 .. Len(client[s]) : client[s][i] = i - 1

\* Where every line is named, no reply lags.
NamesKept ==
  LinesAreNamed => InOrder /\ \A s \in Streams : lag[s] = 0

\* The inductive invariant: ownership of the tables makes the deduplicator's
\* mark private to one stream, and the mark then counts what its client has.
DeliveryInv ==
  /\ SessionsOwned
  /\ LiveHolds
  /\ FreshIsEmpty
  /\ MarksOwned
  /\ LedgerMatchesClient
  /\ LagIsMarked
  /\ NamesKept
  /\ ExactlyOnce

LEMMA DeliveryInit == Init => DeliveryInv
  BY IngressAssumption
  DEF Init, DeliveryInv, SessionsOwned, LiveHolds, FreshIsEmpty, MarksOwned,
      LedgerMatchesClient, LagIsMarked, NamesKept, InOrder, ExactlyOnce, Live

\* A step that leaves the tables alone and no generator's scope.
LEMMA OwnershipStays ==
  ASSUME SessionsOwned, LiveHolds, MarksOwned, UNCHANGED <<sessions, lastFlushed, held>>,
         sessions \in [Ids -> Streams \cup {NoStream}],
         \A t \in Streams : pc'[t] \in Live <=> pc[t] \in Live
  PROVE  SessionsOwned' /\ LiveHolds' /\ MarksOwned'
<1>1. SessionsOwned'
  BY DEF SessionsOwned
<1>2. LiveHolds'
  BY DEF LiveHolds
<1>3. MarksOwned'
  BY DEF MarksOwned
<1>4. QED
  BY <1>1, <1>2, <1>3

LEMMA DeliveryNext ==
  ASSUME UniqueIds, TypeInv, DeliveryInv, [Next]_vars
  PROVE  DeliveryInv'
<1> USE IngressAssumption
    DEF UniqueIds, TypeInv, TypeOK, Stages, Live, Tokens, Goto, tables, objects,
        reply, delivery, DeliveryInv, SessionsOwned, LiveHolds, FreshIsEmpty,
        MarksOwned, LedgerMatchesClient, LagIsMarked, NamesKept, InOrder,
        ExactlyOnce, Number
<1>1. ASSUME NEW s \in Streams, Arrive(s) PROVE DeliveryInv'
  <2>1. /\ pc[s] = "idle"
        /\ \/ pc' = [pc EXCEPT ![s] = "forwarding"]
           \/ pc' = [pc EXCEPT ![s] = "preparing"]
        /\ UNCHANGED <<sessions, lastFlushed, held, pos, lag, intact, client>>
    BY <1>1 DEF Arrive
  <2>2. /\ \A t \in Streams : pc'[t] \in Live <=> pc[t] \in Live
        /\ \A t \in Streams :
             pc'[t] \in {"idle", "preparing"} => pc[t] \in {"idle", "preparing"}
    BY <2>1
  <2> HIDE DEF LagIsMarked, NamesKept, InOrder, ExactlyOnce, LedgerMatchesClient,
        SessionsOwned, LiveHolds, MarksOwned
  <2>3. SessionsOwned' /\ LiveHolds' /\ MarksOwned'
    <3>1. SessionsOwned /\ LiveHolds /\ MarksOwned
      OBVIOUS
    <3>2. QED
      BY <2>1, <2>2, <3>1, OwnershipStays
  <2>7. FreshIsEmpty'
    BY <2>1, <2>2
  <2> USE DEF LagIsMarked, NamesKept, InOrder, ExactlyOnce, LedgerMatchesClient,
        SessionsOwned, LiveHolds, MarksOwned
  <2>4. LagIsMarked' /\ NamesKept' /\ ExactlyOnce'
    BY <2>1 DEF LinesAreNamed
  <2>6. LedgerMatchesClient'
    <3>1. \A t \in Streams : pc'[t] = pc[t] \/ pc'[t] \in {"forwarding", "preparing"}
      BY <2>1
    <3>2. UNCHANGED <<lastFlushed, pos, lag, client>>
      BY <2>1
    <3> HIDE DEF TypeInv, TypeOK, LagIsMarked, NamesKept, InOrder, ExactlyOnce,
             SessionsOwned, LiveHolds, MarksOwned, FreshIsEmpty, IngressAssumption
    <3>3. QED
      BY <3>1, <3>2
  <2>5. QED
    BY <2>3, <2>4, <2>6, <2>7
<1>2. ASSUME NEW s \in Streams, PrepareFails(s) PROVE DeliveryInv'
  BY <1>2, SMTT(30) DEF PrepareFails
<1>3. ASSUME NEW s \in Streams, ClientGone(s) PROVE DeliveryInv'
  BY <1>3, SMTT(30) DEF ClientGone, LeaveInFlight
<1>4. ASSUME NEW s \in Streams, Forwarded(s) PROVE DeliveryInv'
  <2>1. \A t \in Streams : pc[t] \in Live \/ pc'[t] \in Live => pc'[t] = pc[t]
    BY <1>4 DEF Forwarded
  <2>2. SessionsOwned' /\ LiveHolds'
    BY <1>4, <2>1 DEF Forwarded
  <2>3. MarksOwned'
    BY <1>4, <2>1 DEF Forwarded
  <2>4. /\ FreshIsEmpty' /\ LedgerMatchesClient' /\ ExactlyOnce'
        /\ LagIsMarked' /\ NamesKept'
    BY <1>4, SMTT(30) DEF Forwarded, LinesAreNamed
  <2>5. QED
    BY <2>2, <2>3, <2>4
<1>5. ASSUME NEW s \in Streams, Start(s) PROVE DeliveryInv'
  <2>1. sessions[IdOf[s]] = NoStream
    <3>1. pc[s] = "preparing" /\ IdOf[s] \in Ids
      BY <1>5 DEF Start
    <3>2. SUFFICES ASSUME sessions[IdOf[s]] # NoStream
                   PROVE  FALSE
      OBVIOUS
    <3>3. /\ sessions[IdOf[s]] \in Streams
          /\ IdOf[sessions[IdOf[s]]] = IdOf[s]
          /\ pc[sessions[IdOf[s]]] \in Live
      BY <3>1, <3>2
    <3>4. sessions[IdOf[s]] = s
      BY <3>3
    <3>5. QED
      BY <3>1, <3>3, <3>4
  <2>2. /\ sessions' = [sessions EXCEPT ![IdOf[s]] = s]
        /\ held' = [held EXCEPT ![s] = s]
    BY <1>5, <2>1 DEF Start
  <2>3. /\ pc[s] = "preparing" /\ pc' = [pc EXCEPT ![s] = "reading"]
        /\ UNCHANGED <<lastFlushed, client>>
    BY <1>5 DEF Start
  <2>4. SessionsOwned' /\ LiveHolds'
    BY <2>2, <2>3
  <2>5. MarksOwned'
    BY <2>3
  <2>6. FreshIsEmpty' /\ LedgerMatchesClient' /\ ExactlyOnce'
    BY <1>5, <2>3 DEF Start, OpenUpstream
  <2>8. LagIsMarked' /\ NamesKept'
    BY <1>5, <2>3 DEF Start, OpenUpstream, LinesAreNamed
  <2>7. QED
    BY <2>4, <2>5, <2>6, <2>8
<1>6. ASSUME NEW s \in Streams, TakeToken(s) PROVE DeliveryInv'
  BY <1>6 DEF TakeToken, Readable
<1>7. ASSUME NEW s \in Streams, DropDuplicate(s) PROVE DeliveryInv'
  BY <1>7, SMTT(30) DEF DropDuplicate, Readable, NextChunk
<1>8. ASSUME NEW s \in Streams, SkipLine(s) PROVE DeliveryInv'
  <2>1. /\ pc[s] = "reading" /\ lag[s] <= pos[s]
        /\ pos' = [pos EXCEPT ![s] = pos[s] + 1]
        /\ UNCHANGED <<pc, sessions, lastFlushed, held, client>>
        /\ "garbled_line" \in Faults
    BY <1>8 DEF SkipLine, Readable
  <2>2. SessionsOwned' /\ LiveHolds' /\ MarksOwned' /\ FreshIsEmpty'
    BY <2>1
  <2>3. LedgerMatchesClient'
    <3>1. lag' = lag \/ lag' = [lag EXCEPT ![s] = lag[s] + 1]
      BY <1>8 DEF SkipLine
    <3>2. \A t \in Streams : t # s => pos'[t] = pos[t] /\ lag'[t] = lag[t]
      BY <2>1, <3>1
    <3>3. LedgerMatchesClient
      OBVIOUS
    <3> HIDE DEF TypeInv, TypeOK, DeliveryInv
    <3>4. QED
      BY <2>1, <3>2, <3>3
  <2>4. CASE upstream[s] \in Unnumbered
    <3>1. /\ lag' = [lag EXCEPT ![s] = lag[s] + 1]
          /\ intact' = [intact EXCEPT ![s] = IF Number(s) < intact[s] THEN Number(s)
                                             ELSE intact[s]]
      BY <1>8, <2>4 DEF SkipLine
    <3>2. LagIsMarked'
      BY <2>1, <3>1, SMTT(30)
    <3>3. ExactlyOnce'
      <4>1. \A t \in Streams : intact'[t] <= intact[t]
        BY <3>1
      <4>2. \A t \in Streams : intact'[t] \in Nat /\ intact[t] \in Nat
        BY <3>1
      <4>3. SUFFICES ASSUME NEW t \in Streams, NEW i \in 1 .. Len(client[t]),
                            i <= intact'[t]
                     PROVE  client[t][i] = i - 1
        BY <2>1, SMTT(30)
      <4>4. i <= intact[t]
        BY <4>1, <4>2, <4>3, SMTT(30)
      <4>5. QED
        BY <4>4
    <3>4. NamesKept'
      BY <2>1, <2>4 DEF LinesAreNamed
    <3>5. QED
      BY <2>2, <2>3, <3>2, <3>3, <3>4
  <2>5. CASE upstream[s] \notin Unnumbered
    <3>1. lag' = lag /\ intact' = intact
      BY <1>8, <2>5 DEF SkipLine
    <3>2. LagIsMarked' /\ ExactlyOnce'
      BY <2>1, <3>1
    <3>3. NamesKept'
      BY <2>1, <3>1 DEF LinesAreNamed
    <3>4. QED
      BY <2>2, <2>3, <3>2, <3>3
  <2>6. QED
    BY <2>4, <2>5
<1>9. ASSUME NEW s \in Streams, GapDetected(s) PROVE DeliveryInv'
  BY <1>9, SMTT(30) DEF GapDetected, ReleaseSession, LeaveInFlight
<1>10. ASSUME NEW s \in Streams, WriteReturns(s) PROVE DeliveryInv'
  <2>1. /\ pc[s] = "writing"
        /\ client' = [client EXCEPT ![s] = Append(@, pos[s] - 1)]
        /\ \/ pc' = [pc EXCEPT ![s] = "buffering"]
           \/ pc' = [pc EXCEPT ![s] = "reading"]
        /\ UNCHANGED <<sessions, lastFlushed, held, pos, lag, intact>>
    BY <1>10 DEF WriteReturns, NextChunk
  <2> HIDE DEF LagIsMarked, NamesKept, InOrder, ExactlyOnce, SessionsOwned, LiveHolds,
        MarksOwned, FreshIsEmpty, LedgerMatchesClient
  <2>8. /\ \A t \in Streams : t # s => pc'[t] = pc[t] /\ client'[t] = client[t]
        /\ pc'[s] \in {"buffering", "reading"}
    BY <2>1
  <2>2. SessionsOwned' /\ LiveHolds' /\ MarksOwned'
    <3>1. SessionsOwned /\ LiveHolds /\ MarksOwned
      OBVIOUS
    <3>2. \A t \in Streams : pc'[t] \in Live <=> pc[t] \in Live
      BY <2>1, <2>8
    <3>3. QED
      BY <2>1, <3>1, <3>2, OwnershipStays
  <2> USE DEF FreshIsEmpty
  <2>9. FreshIsEmpty'
    BY <2>1, <2>8
  <2>10. client[s] \in Seq(Nat) /\ pos[s] - 1 \in Nat
    BY <2>1
  <2>11. \A t \in Streams : client'[t] =
           IF t = s THEN Append(client[s], pos[s] - 1) ELSE client[t]
    BY <2>1
  <2>13. client'[s] = Append(client[s], pos[s] - 1)
    BY <2>11
  <2>12. Len(client'[s]) = Len(client[s]) + 1
    BY <2>10, <2>13
  <2>6. LedgerMatchesClient'
    <3>1. Len(client'[s]) = lastFlushed[IdOf[s]] + 1
      BY <2>1, <2>12 DEF LedgerMatchesClient
    <3>2. lastFlushed' = lastFlushed /\ pos' = pos /\ lag' = lag
      BY <2>1
    <3>3. LedgerMatchesClient
      OBVIOUS
    <3> HIDE DEF TypeInv, TypeOK, FreshIsEmpty, DeliveryInv
    <3>4. QED
      BY <2>8, <3>1, <3>2, <3>3 DEF LedgerMatchesClient
  <2> USE DEF SessionsOwned, LiveHolds, MarksOwned, LedgerMatchesClient, LagIsMarked,
        NamesKept, InOrder, ExactlyOnce
  <2>7. LagIsMarked'
    BY <2>1, SMTT(30)
  <2>3. NamesKept'
    <3>1. LinesAreNamed => client'[s] = Append(client[s], Len(client[s]))
      <4>1. lastFlushed[IdOf[s]] \in (0 .. OutputLen - 1) \cup {-1}
        OBVIOUS
      <4>2. QED
        BY <2>1, <4>1
    <3>2. QED
      BY <2>1, <3>1, SMTT(30) DEF LinesAreNamed
  <2>4. ExactlyOnce'
    <3> SUFFICES ASSUME NEW t \in Streams, NEW i \in 1 .. Len(client'[t]), i <= intact[t]
                 PROVE  client'[t][i] = i - 1
      BY <2>1, SMTT(30)
    <3>4. client'[t] = IF t = s THEN Append(client[s], pos[s] - 1) ELSE client[t]
      BY <2>11
    <3>5. client[t] \in Seq(Nat) /\ pos[s] - 1 \in Nat
      BY <2>10
    <3>1. CASE i <= Len(client[t])
      <4>1. client'[t][i] = client[t][i]
        BY <3>1, <3>4, <3>5
      <4>2. QED
        BY <3>1, <4>1
    <3>2. CASE t = s /\ i = Len(client[s]) + 1
      <4>1. lastFlushed[IdOf[s]] \in (0 .. OutputLen - 1) \cup {-1}
        OBVIOUS
      <4>2. i = Number(s)
        BY <2>1, <3>2, <4>1
      <4>3. lag[s] = 0
        <5>1. ~(intact[s] < Number(s))
          BY <3>2, <4>2
        <5>2. ~(lag[s] > 0)
          BY <2>1, <5>1
        <5>3. QED
          BY <5>2
      <4>4. client'[s][i] = pos[s] - 1
        BY <3>2, <3>4, <3>5
      <4>5. QED
        BY <3>2, <4>2, <4>3, <4>4
    <3>3. i <= Len(client[t]) \/ (t = s /\ i = Len(client[s]) + 1)
      BY <2>12, <3>4, <3>5
    <3>6. QED
      BY <3>1, <3>2, <3>3
  <2>5. QED
    BY <2>2, <2>3, <2>4, <2>6, <2>7, <2>8, <2>9
<1>11. ASSUME NEW s \in Streams, UpstreamEnds(s) PROVE DeliveryInv'
  BY <1>11 DEF UpstreamEnds, AtEof
<1>12. ASSUME NEW s \in Streams, DoneReturns(s) PROVE DeliveryInv'
  BY <1>12 DEF DoneReturns, ReleaseSession, LeaveInFlight
<1>13. ASSUME NEW s \in Streams, Finalize(s) PROVE DeliveryInv'
  BY <1>13 DEF Finalize, ReleaseSession
<1>14. ASSUME NEW s \in Streams, SwitchToStandby(s) PROVE DeliveryInv'
  BY <1>14 DEF SwitchToStandby, ConnectStandby, OpenUpstream
<1>15. ASSUME NEW s \in Streams, ForceStandby(s) PROVE DeliveryInv'
  BY <1>15 DEF ForceStandby, ConnectStandby, OpenUpstream
<1>16. ASSUME NEW k \in -1 .. OutputLen - 1, PreemptionAlert(k) PROVE DeliveryInv'
  BY <1>16 DEF PreemptionAlert
<1>17. ASSUME NEW i \in Ids, HandoverReady(i) PROVE DeliveryInv'
  BY <1>17 DEF HandoverReady
<1>18. ASSUME NEW how \in {"closed", "silent"}, StopActive(how) PROVE DeliveryInv'
  BY <1>18 DEF StopActive
<1>30. ASSUME NEW s \in Streams, KeepAlive(s) PROVE DeliveryInv'
  BY <1>30 DEF KeepAlive
<1>31. ASSUME NEW s \in Streams, PingReturns(s) PROVE DeliveryInv'
  BY <1>31 DEF PingReturns
<1>19. CASE UNCHANGED vars
  BY <1>19 DEF vars
<1> HIDE DEF UniqueIds, TypeInv, TypeOK, Stages, Live, Tokens, Goto, tables, objects,
      reply, delivery, DeliveryInv, SessionsOwned, LiveHolds, FreshIsEmpty, MarksOwned,
      LedgerMatchesClient, LagIsMarked, NamesKept, InOrder,
        ExactlyOnce, Number
<1>20. QED
  BY <1>1, <1>2, <1>3, <1>4, <1>5, <1>6, <1>7, <1>8, <1>9, <1>10, <1>11, <1>12,
     <1>13, <1>14, <1>15, <1>16, <1>17, <1>18, <1>19, <1>30, <1>31
  DEF Next, Step, Turn, OthersAct, Switch

\* The inductive invariant holds in every reachable state.
THEOREM DeliveryInvariant == UniqueIds => (Spec => []DeliveryInv)
<1> SUFFICES ASSUME UniqueIds PROVE Spec => []DeliveryInv
  OBVIOUS
<1>1. TypeInv /\ DeliveryInv /\ [Next]_vars => DeliveryInv'
  BY DeliveryNext
<1>2. QED
  BY TypeInit, TypeNext, DeliveryInit, <1>1, PTL DEF Spec

\* Exactly once: with request ids that are not shared, no client ever receives a
\* token twice, out of order, or behind a missing one, for any number of
\* requests, any faults, alerts and switches (TokenDeduplicator.filter_chunk), up
\* to the first line skipped in a reply of an engine that sends no numbers.
THEOREM ExactlyOnceDelivery == UniqueIds => (Spec => []ExactlyOnce)
<1>1. DeliveryInv => ExactlyOnce
  BY DEF DeliveryInv
<1>2. QED
  BY DeliveryInvariant, <1>1, PTL

\* Where every line carries its number, or none is skipped, that is all of it: a
\* skipped line ends the stream at the gap and is never passed over.
THEOREM NumberedDeliveryInOrder == UniqueIds /\ LinesAreNamed => (Spec => []InOrder)
<1> SUFFICES ASSUME UniqueIds, LinesAreNamed PROVE Spec => []InOrder
  OBVIOUS
<1>1. DeliveryInv => InOrder
  BY DEF DeliveryInv, NamesKept
<1>2. QED
  BY DeliveryInvariant, <1>1, PTL

\* The deduplicator's mark, which the standby and the daemon are told, is the
\* position of the client (TokenDeduplicator.record_flushed).
THEOREM LedgerIsClientPosition == UniqueIds => (Spec => []LedgerMatchesClient)
<1>1. DeliveryInv => LedgerMatchesClient
  BY DEF DeliveryInv
<1>2. QED
  BY DeliveryInvariant, <1>1, PTL

\* Before it streams, a handler holds no session object.
FreshHoldsNone ==
  \A s \in Streams : pc[s] \in {"idle", "preparing", "forwarding"} => held[s] = NoStream

\* An entry in flight belongs to a request that occupies it.
EntriesOccupied ==
  \A i \in inFlight : \E s \in Streams : IdOf[s] = i /\ Occupies(s)

OccupancyInv == FreshHoldsNone /\ EntriesOccupied

LEMMA OccupancyInit == Init => OccupancyInv
  BY DEF Init, OccupancyInv, FreshHoldsNone, EntriesOccupied

\* The handler of a request leaves inFlight together with its own entry: only
\* that request may stop occupying, and no other has its id.
LEMMA LeavingKeepsOccupancy ==
  ASSUME UniqueIds, TypeInv, OccupancyInv, NEW s \in Streams, NEW stage,
         pc[s] \notin {"idle", "preparing", "forwarding"},
         stage \in {"abandoned", "ended"},
         pc' = [pc EXCEPT ![s] = stage], held' = held, LeaveInFlight(s)
  PROVE  OccupancyInv'
<1>1. ASSUME NEW t \in Streams, t # s PROVE pc'[t] = pc[t]
  BY <1>1 DEF TypeInv, TypeOK
<1>2. pc'[s] = stage
  BY DEF TypeInv, TypeOK
<1>3. FreshHoldsNone'
  <2> SUFFICES ASSUME NEW t \in Streams, pc'[t] \in {"idle", "preparing", "forwarding"}
               PROVE  held[t] = NoStream
    BY DEF FreshHoldsNone
  <2>1. t # s
    BY <1>2
  <2>2. QED
    BY <1>1, <2>1 DEF OccupancyInv, FreshHoldsNone
<1>4. EntriesOccupied'
  <2> SUFFICES ASSUME NEW i \in inFlight'
               PROVE  \E t \in Streams : IdOf[t] = i /\ Occupies(t)'
    BY DEF EntriesOccupied
  <2>1. i \in inFlight /\ i # IdOf[s]
    BY DEF LeaveInFlight
  <2>2. PICK t \in Streams : IdOf[t] = i /\ Occupies(t)
    BY <2>1 DEF OccupancyInv, EntriesOccupied
  <2>3. t # s
    BY <2>1, <2>2
  <2>4. Occupies(t)'
    BY <1>1, <2>2, <2>3 DEF Occupies
  <2>5. QED
    BY <2>2, <2>4
<1>5. QED
  BY <1>3, <1>4 DEF OccupancyInv

LEMMA OccupancyNext ==
  ASSUME UniqueIds, TypeInv, OccupancyInv, [Next]_vars
  PROVE  OccupancyInv'
<1> USE IngressAssumption
    DEF UniqueIds, TypeInv, TypeOK, Stages, Live, Goto, tables, objects, reply,
        delivery, OccupancyInv, FreshHoldsNone, EntriesOccupied, Occupies
<1>1. ASSUME NEW s \in Streams, Arrive(s) PROVE OccupancyInv'
  BY <1>1 DEF Arrive
<1>2. ASSUME NEW s \in Streams, PrepareFails(s) PROVE OccupancyInv'
  <2>1. /\ pc[s] \in {"preparing", "forwarding"}
        /\ pc' = [pc EXCEPT ![s] = "ended"]
        /\ UNCHANGED <<inFlight, held>>
    BY <1>2 DEF PrepareFails
  <2>2. FreshHoldsNone'
    BY <2>1
  <2>3. held[s] = NoStream
    BY <2>1
  <2>4. ASSUME NEW t \in Streams, Occupies(t) PROVE Occupies(t)'
    <3>1. CASE t = s
      BY <2>1, <2>3, <3>1
    <3>2. CASE t # s
      BY <2>1, <2>4, <3>2
    <3>3. QED
      BY <3>1, <3>2
  <2>5. EntriesOccupied'
    <3>1. TAKE i \in inFlight'
    <3>2. PICK t \in Streams : IdOf[t] = i /\ Occupies(t)
      BY <2>1
    <3>3. WITNESS t \in Streams
    <3>4. QED
      BY <2>4, <3>2
  <2>6. QED
    BY <2>2, <2>5
<1>3. ASSUME NEW s \in Streams, ClientGone(s) PROVE OccupancyInv'
  <2>1. /\ pc[s] \in {"writing", "pinging", "finishing"}
        /\ pc' = [pc EXCEPT ![s] = "abandoned"]
        /\ held' = held /\ LeaveInFlight(s)
    BY <1>3 DEF ClientGone
  <2>2. QED
    BY <2>1, LeavingKeepsOccupancy
<1>4. ASSUME NEW s \in Streams, Forwarded(s) PROVE OccupancyInv'
  <2>1. /\ pc[s] \in {"preparing", "forwarding"}
        /\ pc' = [pc EXCEPT ![s] = "ended"]
        /\ UNCHANGED <<inFlight, held>>
    BY <1>4 DEF Forwarded
  <2>2. FreshHoldsNone'
    BY <2>1
  <2>3. held[s] = NoStream
    BY <2>1
  <2>4. ASSUME NEW t \in Streams, Occupies(t) PROVE Occupies(t)'
    <3>1. CASE t = s
      BY <2>1, <2>3, <3>1
    <3>2. CASE t # s
      BY <2>1, <2>4, <3>2
    <3>3. QED
      BY <3>1, <3>2
  <2>5. EntriesOccupied'
    <3>1. TAKE i \in inFlight'
    <3>2. PICK t \in Streams : IdOf[t] = i /\ Occupies(t)
      BY <2>1
    <3>3. WITNESS t \in Streams
    <3>4. QED
      BY <2>4, <3>2
  <2>6. QED
    BY <2>2, <2>5
<1>5. ASSUME NEW s \in Streams, Start(s) PROVE OccupancyInv'
  BY <1>5 DEF Start, OpenUpstream
<1>6. ASSUME NEW s \in Streams, TakeToken(s) PROVE OccupancyInv'
  BY <1>6 DEF TakeToken
<1>7. ASSUME NEW s \in Streams, DropDuplicate(s) PROVE OccupancyInv'
  BY <1>7 DEF DropDuplicate, NextChunk
<1>8. ASSUME NEW s \in Streams, SkipLine(s) PROVE OccupancyInv'
  BY <1>8 DEF SkipLine
<1>9. ASSUME NEW s \in Streams, GapDetected(s) PROVE OccupancyInv'
  <2>1. /\ pc[s] = "reading"
        /\ pc' = [pc EXCEPT ![s] = "ended"]
        /\ held' = held /\ LeaveInFlight(s)
    BY <1>9 DEF GapDetected
  <2>2. QED
    BY <2>1, LeavingKeepsOccupancy
<1>10. ASSUME NEW s \in Streams, WriteReturns(s) PROVE OccupancyInv'
  BY <1>10 DEF WriteReturns, NextChunk
<1>11. ASSUME NEW s \in Streams, UpstreamEnds(s) PROVE OccupancyInv'
  BY <1>11 DEF UpstreamEnds
<1>12. ASSUME NEW s \in Streams, DoneReturns(s) PROVE OccupancyInv'
  <2>1. /\ pc[s] = "finishing"
        /\ pc' = [pc EXCEPT ![s] = "ended"]
        /\ held' = held /\ LeaveInFlight(s)
    BY <1>12 DEF DoneReturns
  <2>2. QED
    BY <2>1, LeavingKeepsOccupancy
<1>13. ASSUME NEW s \in Streams, Finalize(s) PROVE OccupancyInv'
  <2>1. /\ pc[s] = "abandoned" /\ pc' = [pc EXCEPT ![s] = "ended"]
        /\ UNCHANGED <<inFlight, held>>
    BY <1>13 DEF Finalize
  <2>2. FreshHoldsNone'
    BY <2>1
  <2>3. ASSUME NEW t \in Streams, Occupies(t) PROVE Occupies(t)'
    <3>1. t # s
      BY <2>1, <2>3
    <3>2. QED
      BY <2>1, <2>3, <3>1
  <2>4. EntriesOccupied'
    BY <2>1, <2>3
  <2>5. QED
    BY <2>2, <2>4
<1>14. ASSUME NEW s \in Streams, SwitchToStandby(s) PROVE OccupancyInv'
  BY <1>14 DEF SwitchToStandby, ConnectStandby, OpenUpstream
<1>15. ASSUME NEW s \in Streams, ForceStandby(s) PROVE OccupancyInv'
  BY <1>15 DEF ForceStandby, ConnectStandby, OpenUpstream
<1>16. ASSUME NEW k \in -1 .. OutputLen - 1, PreemptionAlert(k) PROVE OccupancyInv'
  BY <1>16 DEF PreemptionAlert
<1>17. ASSUME NEW i \in Ids, HandoverReady(i) PROVE OccupancyInv'
  BY <1>17 DEF HandoverReady
<1>18. ASSUME NEW how \in {"closed", "silent"}, StopActive(how) PROVE OccupancyInv'
  BY <1>18 DEF StopActive
<1>30. ASSUME NEW s \in Streams, KeepAlive(s) PROVE OccupancyInv'
  BY <1>30 DEF KeepAlive
<1>31. ASSUME NEW s \in Streams, PingReturns(s) PROVE OccupancyInv'
  BY <1>31 DEF PingReturns
<1>19. CASE UNCHANGED vars
  BY <1>19 DEF vars
<1> HIDE DEF UniqueIds, TypeInv, TypeOK, Stages, Live, Goto, tables, objects, reply,
      delivery, OccupancyInv, FreshHoldsNone, EntriesOccupied, Occupies
<1>20. QED
  BY <1>1, <1>2, <1>3, <1>4, <1>5, <1>6, <1>7, <1>8, <1>9, <1>10, <1>11, <1>12,
     <1>13, <1>14, <1>15, <1>16, <1>17, <1>18, <1>19, <1>30, <1>31
  DEF Next, Step, Turn, OthersAct, Switch

\* No session or mark outlives the generator that owns it, and no entry in
\* flight its handler, but for the requests that never streamed (the finally
\* blocks of stream_with_handover and handle_chat_completions).
THEOREM StateIsReclaimed == UniqueIds => (Spec => []StateReclaimed)
<1> SUFFICES ASSUME UniqueIds PROVE Spec => []StateReclaimed
  OBVIOUS
<1>1. DeliveryInv /\ OccupancyInv => StateReclaimed
  BY DEF DeliveryInv, SessionsOwned, MarksOwned, OccupancyInv, EntriesOccupied,
         StateReclaimed
<1>2. TypeInv /\ OccupancyInv /\ [Next]_vars => OccupancyInv'
  BY OccupancyNext
<1>3. QED
  BY TypeInit, TypeNext, OccupancyInit, DeliveryInvariant, <1>1, <1>2, PTL DEF Spec

------------------------------------------------------------------------------
(* No stream is left behind by an alert.                                   *)

\* A request that still needs an upstream is listed as in flight, so an alert
\* reaches it.
AlertReaches ==
  \A s \in Streams :
    pc[s] \in {"preparing", "reading", "writing", "buffering", "pinging", "finishing"} =>
      IdOf[s] \in inFlight

StrandingInv == AlertReaches /\ NoStrandedStream

LEMMA StrandingInit == Init => StrandingInv
  BY DEF Init, StrandingInv, AlertReaches, NoStrandedStream

LEMMA StrandingNext ==
  ASSUME UniqueIds, TypeInv, DeliveryInv, StrandingInv, [Next]_vars
  PROVE  StrandingInv'
<1> USE IngressAssumption
    DEF UniqueIds, TypeInv, TypeOK, Stages, Live, Goto, tables, objects, reply,
        delivery, DeliveryInv, SessionsOwned, LiveHolds, StrandingInv,
        AlertReaches, NoStrandedStream
<1>1. ASSUME NEW s \in Streams, Arrive(s) PROVE StrandingInv'
  BY <1>1 DEF Arrive
<1>2. ASSUME NEW s \in Streams, PrepareFails(s) PROVE StrandingInv'
  BY <1>2 DEF PrepareFails
<1>3. ASSUME NEW s \in Streams, ClientGone(s) PROVE StrandingInv'
  BY <1>3, SMTT(30) DEF ClientGone, LeaveInFlight
<1>4. ASSUME NEW s \in Streams, Forwarded(s) PROVE StrandingInv'
  BY <1>4 DEF Forwarded
<1>5. ASSUME NEW s \in Streams, Start(s) PROVE StrandingInv'
  BY <1>5, SMTT(30) DEF Start, OpenUpstream
<1>6. ASSUME NEW s \in Streams, TakeToken(s) PROVE StrandingInv'
  BY <1>6 DEF TakeToken, Readable
<1>7. ASSUME NEW s \in Streams, DropDuplicate(s) PROVE StrandingInv'
  BY <1>7 DEF DropDuplicate, Readable, NextChunk
<1>8. ASSUME NEW s \in Streams, SkipLine(s) PROVE StrandingInv'
  BY <1>8 DEF SkipLine, Readable
<1>9. ASSUME NEW s \in Streams, GapDetected(s) PROVE StrandingInv'
  BY <1>9 DEF GapDetected, ReleaseSession, LeaveInFlight
<1>10. ASSUME NEW s \in Streams, WriteReturns(s) PROVE StrandingInv'
  BY <1>10 DEF WriteReturns, NextChunk
<1>11. ASSUME NEW s \in Streams, UpstreamEnds(s) PROVE StrandingInv'
  BY <1>11 DEF UpstreamEnds, AtEof
<1>12. ASSUME NEW s \in Streams, DoneReturns(s) PROVE StrandingInv'
  BY <1>12 DEF DoneReturns, ReleaseSession, LeaveInFlight
<1>13. ASSUME NEW s \in Streams, Finalize(s) PROVE StrandingInv'
  BY <1>13 DEF Finalize, ReleaseSession
<1>14. ASSUME NEW s \in Streams, SwitchToStandby(s) PROVE StrandingInv'
  BY <1>14 DEF SwitchToStandby, ConnectStandby, OpenUpstream
<1>15. ASSUME NEW s \in Streams, ForceStandby(s) PROVE StrandingInv'
  BY <1>15 DEF ForceStandby, ConnectStandby, OpenUpstream
<1>16. ASSUME NEW k \in -1 .. OutputLen - 1, PreemptionAlert(k) PROVE StrandingInv'
  <2>1. AlertReaches'
    BY <1>16 DEF PreemptionAlert
  <2>2. ASSUME NEW s \in Streams, pc[s] \in {"reading", "writing"}
        PROVE  signaled'[held[s]]
    <3>1. /\ IdOf[s] \in inFlight
          /\ sessions[IdOf[s]] = s
          /\ held[s] = s
      BY <2>2
    <3>2. s \in {sessions[i] : i \in inFlight} \ {NoStream}
      BY <3>1
    <3>3. signaled' = [t \in Streams |-> signaled[t] \/
                         t \in {sessions[i] : i \in inFlight} \ {NoStream}]
      BY <1>16 DEF PreemptionAlert
    <3>4. signaled'[s]
      BY <3>2, <3>3, Zenon
    <3>5. QED
      BY <3>1, <3>4
  <2>3. QED
    BY <1>16, <2>1, <2>2 DEF PreemptionAlert
<1>17. ASSUME NEW i \in Ids, HandoverReady(i) PROVE StrandingInv'
  BY <1>17 DEF HandoverReady
<1>18. ASSUME NEW how \in {"closed", "silent"}, StopActive(how) PROVE StrandingInv'
  BY <1>18 DEF StopActive
<1>30. ASSUME NEW s \in Streams, KeepAlive(s) PROVE StrandingInv'
  BY <1>30 DEF KeepAlive
<1>31. ASSUME NEW s \in Streams, PingReturns(s) PROVE StrandingInv'
  BY <1>31 DEF PingReturns
<1>19. CASE UNCHANGED vars
  BY <1>19 DEF vars
<1> HIDE DEF UniqueIds, TypeInv, TypeOK, Stages, Live, Goto, tables, objects, reply,
      delivery, DeliveryInv, SessionsOwned, LiveHolds, StrandingInv, AlertReaches,
      NoStrandedStream
<1>20. QED
  BY <1>1, <1>2, <1>3, <1>4, <1>5, <1>6, <1>7, <1>8, <1>9, <1>10, <1>11, <1>12,
     <1>13, <1>14, <1>15, <1>16, <1>17, <1>18, <1>19, <1>30, <1>31
  DEF Next, Step, Turn, OthersAct, Switch

\* Once an alert was handled, every stream that still reads the active engine has
\* been signaled, also one whose response was being prepared when the alert came
\* (handle_preemption_alert against handle_chat_completions).
THEOREM NoStreamStranded == UniqueIds => (Spec => []NoStrandedStream)
<1> SUFFICES ASSUME UniqueIds PROVE Spec => []NoStrandedStream
  OBVIOUS
<1>1. TypeInv /\ DeliveryInv /\ StrandingInv /\ [Next]_vars => StrandingInv'
  BY StrandingNext
<1>2. TypeInv /\ DeliveryInv /\ [Next]_vars => DeliveryInv'
  BY DeliveryNext
<1>3. StrandingInv => NoStrandedStream
  BY DEF StrandingInv
<1>4. QED
  BY TypeInit, TypeNext, DeliveryInit, StrandingInit, <1>1, <1>2, <1>3, PTL DEF Spec

------------------------------------------------------------------------------
(* A response that carries [DONE] is the whole answer.                     *)

\* The environment keeps to the handover protocol: the active engine stops only
\* after the alert, the standby serves, every line parses, and the answer is not
\* cut by max_tokens.
Announced ==
  /\ Faults \cap Truncating = {}
  /\ OutputLen <= MaxTokens

\* The active engine stopped only after an alert.
StopAnnounced == activeEngine # "up" => preemptionActive

\* Every reply that is being read runs to the end of the output and has no token
\* beyond the next one expected.
RepliesCover ==
  \A s \in Streams :
    /\ pc[s] = "reading" => pos[s] <= lastFlushed[IdOf[s]] + 1
    /\ pc[s] \in {"reading", "writing"} => end[s] = OutputLen
    /\ pc[s] \in {"reading", "writing"} /\ switched[s] => upstream[s] = "standby"
    /\ pc[s] \in {"idle", "preparing"} => ~switched[s]

\* [DONE] is under way, or written, only behind the whole answer.
MarkerBehindAnswer ==
  \A s \in Streams :
    /\ pc[s] = "finishing" => Len(client[s]) = OutputLen
    /\ done[s] => pc[s] = "ended" /\ Len(client[s]) = OutputLen

WholeInv == StopAnnounced /\ RepliesCover /\ MarkerBehindAnswer

LEMMA AnnouncedEnd ==
  ASSUME Announced, NEW start \in 0 .. OutputLen
  PROVE  EngineEnd(start) = OutputLen
  BY IngressAssumption DEF Announced, EngineEnd

LEMMA AnnouncedFaults ==
  ASSUME Announced
  PROVE  /\ "early_stop" \notin Faults
         /\ "standby_outage" \notin Faults
         /\ "garbled_line" \notin Faults
  BY DEF Announced, Truncating

LEMMA WholeInit == Init => WholeInv
  BY DEF Init, WholeInv, StopAnnounced, RepliesCover, MarkerBehindAnswer

LEMMA WholeNext ==
  ASSUME UniqueIds, Announced, TypeInv, DeliveryInv, StrandingInv, WholeInv,
         [Next]_vars
  PROVE  WholeInv'
<1> USE IngressAssumption, AnnouncedFaults
    DEF UniqueIds, TypeInv, TypeOK, Stages, Live, Tokens, Goto, tables, objects,
        reply, delivery, DeliveryInv, SessionsOwned, LiveHolds,
        LedgerMatchesClient, FreshIsEmpty, NamesKept, LinesAreNamed, Number, WholeInv,
        StopAnnounced, RepliesCover, MarkerBehindAnswer
<1>1. ASSUME NEW s \in Streams, Arrive(s) PROVE WholeInv'
  BY <1>1 DEF Arrive
<1>2. ASSUME NEW s \in Streams, PrepareFails(s) PROVE WholeInv'
  BY <1>2 DEF PrepareFails
<1>3. ASSUME NEW s \in Streams, ClientGone(s) PROVE WholeInv'
  BY <1>3 DEF ClientGone, LeaveInFlight
<1>4. ASSUME NEW s \in Streams, Forwarded(s) PROVE WholeInv'
  BY <1>4 DEF Forwarded
<1>5. ASSUME NEW s \in Streams, Start(s) PROVE WholeInv'
  <2>1. EngineEnd(0) = OutputLen
    BY AnnouncedEnd
  <2>2. /\ pc[s] = "preparing" /\ pc' = [pc EXCEPT ![s] = "reading"]
        /\ pos' = [pos EXCEPT ![s] = 0]
        /\ end' = [end EXCEPT ![s] = OutputLen]
        /\ UNCHANGED <<lastFlushed, switched, client, done, activeEngine,
                       preemptionActive>>
    BY <1>5, <2>1 DEF Start, OpenUpstream
  <2>3. \A t \in Streams : t # s => upstream'[t] = upstream[t]
    BY <1>5 DEF Start, OpenUpstream
  <2>4. lastFlushed[IdOf[s]] = -1 /\ ~switched[s]
    BY <2>2
  <2>5. RepliesCover'
    BY <2>2, <2>3, <2>4
  <2>6. StopAnnounced' /\ MarkerBehindAnswer'
    BY <2>2
  <2>7. QED
    BY <2>5, <2>6
<1>6. ASSUME NEW s \in Streams, TakeToken(s) PROVE WholeInv'
  BY <1>6 DEF TakeToken, Readable
<1>7. ASSUME NEW s \in Streams, DropDuplicate(s) PROVE WholeInv'
  <2> DEFINE reached == CutoffReached(s, Number(s))
  <2>1. /\ pc[s] = "reading" /\ pos[s] <= lastFlushed[IdOf[s]]
        /\ pos' = [pos EXCEPT ![s] = @ + 1]
        /\ pc' = [pc EXCEPT ![s] = IF reached THEN "buffering" ELSE "reading"]
        /\ switched' = [switched EXCEPT ![s] = @ \/ reached]
        /\ UNCHANGED <<lastFlushed, end, upstream, client, done,
                       activeEngine, preemptionActive>>
    BY <1>7 DEF DropDuplicate, Readable, NextChunk
  <2>2. reached \in BOOLEAN
    BY DEF CutoffReached
  <2> HIDE DEF reached
  <2>3. RepliesCover'
    <3>1. CASE reached
      BY <2>1, <3>1
    <3>2. CASE ~reached
      <4>1. switched' = switched /\ pc' = [pc EXCEPT ![s] = "reading"]
        BY <2>1, <2>2, <3>2
      <4>2. pos[s] + 1 <= lastFlushed[IdOf[s]] + 1
        <5>1. lastFlushed[IdOf[s]] \in (0 .. OutputLen - 1) \cup {-1}
          OBVIOUS
        <5>2. pos[s] \in 0 .. OutputLen
          OBVIOUS
        <5>3. QED
          BY <2>1, <5>1, <5>2
      <4>3. QED
        BY <2>1, <4>1, <4>2
    <3>3. QED
      BY <3>1, <3>2
  <2>4. StopAnnounced' /\ MarkerBehindAnswer'
    BY <2>1
  <2>5. QED
    BY <2>3, <2>4
<1>8. ASSUME NEW s \in Streams, SkipLine(s) PROVE WholeInv'
  BY <1>8 DEF SkipLine, Readable
<1>9. ASSUME NEW s \in Streams, GapDetected(s) PROVE WholeInv'
  BY <1>9 DEF GapDetected, ReleaseSession, LeaveInFlight, Readable
<1>10. ASSUME NEW s \in Streams, WriteReturns(s) PROVE WholeInv'
  BY <1>10 DEF WriteReturns, NextChunk
<1>11. ASSUME NEW s \in Streams, UpstreamEnds(s) PROVE WholeInv'
  <2> DEFINE handover == ~switched[s] /\ signaled[held[s]]
  <2>1. /\ pc[s] = "reading"
        /\ pc' = [pc EXCEPT ![s] = IF handover THEN "buffering" ELSE "finishing"]
        /\ switched' = [switched EXCEPT ![s] = @ \/ handover]
        /\ UNCHANGED <<lastFlushed, pos, end, upstream, client, done,
                       activeEngine, preemptionActive>>
    BY <1>11 DEF UpstreamEnds, AtEof
  <2>2. ASSUME ~handover PROVE Len(client[s]) = OutputLen
    <3>1. CASE pos[s] = end[s]
      <4>1. pos[s] <= lastFlushed[IdOf[s]] + 1 /\ end[s] = OutputLen
        BY <2>1
      <4>2. lastFlushed[IdOf[s]] \in (0 .. OutputLen - 1) \cup {-1}
        OBVIOUS
      <4>3. Len(client[s]) = lastFlushed[IdOf[s]] + 1
        BY <2>1
      <4>4. QED
        BY <3>1, <4>1, <4>2, <4>3
    <3>2. CASE upstream[s] = "active" /\ activeEngine = "closed"
      <4>1. preemptionActive /\ ~switched[s]
        BY <2>1, <3>2
      <4>2. signaled[held[s]]
        BY <2>1, <3>2, <4>1 DEF StrandingInv, NoStrandedStream
      <4>3. QED
        BY <2>2, <4>1, <4>2
    <3>3. QED
      BY <1>11, <3>1, <3>2 DEF UpstreamEnds, AtEof
  <2>3. MarkerBehindAnswer'
    BY <2>1, <2>2
  <2>4. RepliesCover' /\ StopAnnounced'
    BY <2>1
  <2>5. QED
    BY <2>3, <2>4
<1>12. ASSUME NEW s \in Streams, DoneReturns(s) PROVE WholeInv'
  BY <1>12 DEF DoneReturns, ReleaseSession, LeaveInFlight
<1>13. ASSUME NEW s \in Streams, Finalize(s) PROVE WholeInv'
  BY <1>13 DEF Finalize, ReleaseSession
<1>14. ASSUME NEW s \in Streams, SwitchToStandby(s) PROVE WholeInv'
  <2>1. PICK start \in {0, lastFlushed[IdOf[s]] + 1} : OpenUpstream(s, "standby", start)
    BY <1>14 DEF SwitchToStandby, ConnectStandby, ResumePoints
  <2>2. start \in 0 .. OutputLen /\ start <= lastFlushed[IdOf[s]] + 1
    <3>1. lastFlushed[IdOf[s]] \in (0 .. OutputLen - 1) \cup {-1}
      OBVIOUS
    <3>2. QED
      BY <3>1
  <2>3. /\ pc[s] = "buffering" /\ pc' = [pc EXCEPT ![s] = "reading"]
        /\ pos' = [pos EXCEPT ![s] = start]
        /\ end' = [end EXCEPT ![s] = OutputLen]
        /\ upstream' = [upstream EXCEPT ![s] = "standby"]
        /\ UNCHANGED <<lastFlushed, switched, client, done, activeEngine,
                       preemptionActive>>
    BY <1>14, <2>1, <2>2, AnnouncedEnd DEF SwitchToStandby, ConnectStandby, OpenUpstream
  <2>4. RepliesCover'
    BY <2>2, <2>3
  <2>5. StopAnnounced' /\ MarkerBehindAnswer'
    BY <2>3
  <2>6. QED
    BY <2>4, <2>5
<1>15. ASSUME NEW s \in Streams, ForceStandby(s) PROVE WholeInv'
  <2>1. PICK start \in {0, lastFlushed[IdOf[s]] + 1} : OpenUpstream(s, "standby", start)
    BY <1>15 DEF ForceStandby, ConnectStandby, ResumePoints
  <2>2. start \in 0 .. OutputLen /\ start <= lastFlushed[IdOf[s]] + 1
    <3>1. lastFlushed[IdOf[s]] \in (0 .. OutputLen - 1) \cup {-1}
      OBVIOUS
    <3>2. QED
      BY <3>1
  <2>3. /\ pc[s] = "buffering" /\ pc' = [pc EXCEPT ![s] = "reading"]
        /\ pos' = [pos EXCEPT ![s] = start]
        /\ end' = [end EXCEPT ![s] = OutputLen]
        /\ upstream' = [upstream EXCEPT ![s] = "standby"]
        /\ UNCHANGED <<lastFlushed, switched, client, done, activeEngine,
                       preemptionActive>>
    BY <1>15, <2>1, <2>2, AnnouncedEnd DEF ForceStandby, ConnectStandby, OpenUpstream
  <2>4. RepliesCover'
    BY <2>2, <2>3
  <2>5. StopAnnounced' /\ MarkerBehindAnswer'
    BY <2>3
  <2>6. QED
    BY <2>4, <2>5
<1>16. ASSUME NEW k \in -1 .. OutputLen - 1, PreemptionAlert(k) PROVE WholeInv'
  BY <1>16 DEF PreemptionAlert
<1>17. ASSUME NEW i \in Ids, HandoverReady(i) PROVE WholeInv'
  BY <1>17 DEF HandoverReady
<1>18. ASSUME NEW how \in {"closed", "silent"}, StopActive(how) PROVE WholeInv'
  BY <1>18 DEF StopActive
<1>30. ASSUME NEW s \in Streams, KeepAlive(s) PROVE WholeInv'
  BY <1>30 DEF KeepAlive
<1>31. ASSUME NEW s \in Streams, PingReturns(s) PROVE WholeInv'
  BY <1>31 DEF PingReturns
<1>19. CASE UNCHANGED vars
  BY <1>19 DEF vars
<1> HIDE DEF UniqueIds, TypeInv, TypeOK, Stages, Live, Tokens, Goto, tables, objects,
      reply, delivery, DeliveryInv, SessionsOwned, LiveHolds, LedgerMatchesClient,
      FreshIsEmpty, NamesKept, LinesAreNamed, Number, WholeInv, StopAnnounced,
      RepliesCover, MarkerBehindAnswer
<1>20. QED
  BY <1>1, <1>2, <1>3, <1>4, <1>5, <1>6, <1>7, <1>8, <1>9, <1>10, <1>11, <1>12,
     <1>13, <1>14, <1>15, <1>16, <1>17, <1>18, <1>19, <1>30, <1>31
  DEF Next, Step, Turn, OthersAct, Switch

\* The four inductive invariants together.
ProxyInv == TypeInv /\ DeliveryInv /\ StrandingInv /\ WholeInv

\* The invariant of an announced handover, the conjunction of all parts above.
THEOREM ProxyInvariant == UniqueIds /\ Announced => (Spec => []ProxyInv)
<1> SUFFICES ASSUME UniqueIds, Announced PROVE Spec => []ProxyInv
  OBVIOUS
<1>1. Init => ProxyInv
  BY TypeInit, DeliveryInit, StrandingInit, WholeInit DEF ProxyInv
<1>2. ProxyInv /\ [Next]_vars => ProxyInv'
  BY TypeNext, DeliveryNext, StrandingNext, WholeNext DEF ProxyInv
<1>3. QED
  BY <1>1, <1>2, PTL DEF Spec

\* Whole answers: when the daemon alerts the proxy before it stops the engine and
\* the standby serves, every response closed with [DONE] is complete, wherever
\* the alert and the cutoff fall (stream_with_handover).
THEOREM AnswersAreWhole == UniqueIds /\ Announced => (Spec => []WholeAnswer)
<1> SUFFICES ASSUME UniqueIds, Announced PROVE Spec => []WholeAnswer
  OBVIOUS
<1>1. AnswerLen = OutputLen
  BY AnnouncedEnd, IngressAssumption DEF AnswerLen
<1>2. ProxyInv => WholeAnswer
  BY <1>1 DEF ProxyInv, WholeInv, MarkerBehindAnswer, WholeAnswer
<1>3. QED
  BY ProxyInvariant, <1>2, PTL

------------------------------------------------------------------------------
(* The proxy implements TokenDelivery.                                     *)

\* A non-streaming request is forwarded as a whole and never enters the
\* multiplexer; only such a request is.  [DONE] is the last thing written.
KindInv ==
  \A s \in Streams :
    /\ s \in NonStreaming => pc[s] \in {"idle", "forwarding", "ended"}
    /\ pc[s] = "forwarding" => s \in NonStreaming
    /\ done[s] => pc[s] = "ended"

LEMMA KindInit == Init => KindInv
  BY DEF Init, KindInv

LEMMA KindNext ==
  ASSUME TypeInv, KindInv, [Next]_vars
  PROVE  KindInv'
<1> USE DEF TypeInv, TypeOK, KindInv, Goto, delivery
<1>1. ASSUME NEW s \in Streams, Arrive(s) PROVE KindInv'
  BY <1>1 DEF Arrive
<1>2. ASSUME NEW s \in Streams, PrepareFails(s) PROVE KindInv'
  BY <1>2 DEF PrepareFails
<1>3. ASSUME NEW s \in Streams, ClientGone(s) PROVE KindInv'
  BY <1>3 DEF ClientGone, LeaveInFlight
<1>4. ASSUME NEW s \in Streams, Forwarded(s) PROVE KindInv'
  BY <1>4 DEF Forwarded
<1>5. ASSUME NEW s \in Streams, Start(s) PROVE KindInv'
  BY <1>5 DEF Start, OpenUpstream
<1>6. ASSUME NEW s \in Streams, TakeToken(s) PROVE KindInv'
  BY <1>6 DEF TakeToken, Readable
<1>7. ASSUME NEW s \in Streams, DropDuplicate(s) PROVE KindInv'
  BY <1>7 DEF DropDuplicate, Readable, NextChunk
<1>8. ASSUME NEW s \in Streams, SkipLine(s) PROVE KindInv'
  BY <1>8 DEF SkipLine, Readable
<1>9. ASSUME NEW s \in Streams, GapDetected(s) PROVE KindInv'
  BY <1>9 DEF GapDetected
<1>10. ASSUME NEW s \in Streams, WriteReturns(s) PROVE KindInv'
  BY <1>10 DEF WriteReturns, NextChunk
<1>11. ASSUME NEW s \in Streams, UpstreamEnds(s) PROVE KindInv'
  BY <1>11 DEF UpstreamEnds, AtEof
<1>12. ASSUME NEW s \in Streams, DoneReturns(s) PROVE KindInv'
  BY <1>12 DEF DoneReturns
<1>13. ASSUME NEW s \in Streams, Finalize(s) PROVE KindInv'
  BY <1>13 DEF Finalize
<1>14. ASSUME NEW s \in Streams, SwitchToStandby(s) PROVE KindInv'
  BY <1>14 DEF SwitchToStandby, ConnectStandby, ResumePoints
<1>15. ASSUME NEW s \in Streams, ForceStandby(s) PROVE KindInv'
  BY <1>15 DEF ForceStandby, ConnectStandby, ResumePoints
<1>16. ASSUME NEW k \in -1 .. OutputLen - 1, PreemptionAlert(k) PROVE KindInv'
  BY <1>16 DEF PreemptionAlert
<1>17. ASSUME NEW i \in Ids, HandoverReady(i) PROVE KindInv'
  BY <1>17 DEF HandoverReady
<1>18. ASSUME NEW how \in {"closed", "silent"}, StopActive(how) PROVE KindInv'
  BY <1>18 DEF StopActive
<1>30. ASSUME NEW s \in Streams, KeepAlive(s) PROVE KindInv'
  BY <1>30 DEF KeepAlive
<1>31. ASSUME NEW s \in Streams, PingReturns(s) PROVE KindInv'
  BY <1>31 DEF PingReturns
<1>19. CASE UNCHANGED vars
  BY <1>19 DEF vars
<1> HIDE DEF TypeInv, TypeOK, KindInv, Goto, delivery
<1>20. QED
  BY <1>1, <1>2, <1>3, <1>4, <1>5, <1>6, <1>7, <1>8, <1>9, <1>10, <1>11, <1>12,
     <1>13, <1>14, <1>15, <1>16, <1>17, <1>18, <1>19, <1>30, <1>31
  DEF Next, Step, Turn, OthersAct, Switch

\* A request between two stages that look alike to the client.
LEMMA SameStatus ==
  ASSUME NEW s \in Streams, NEW from, NEW to,
         pc \in [Streams -> Stages], pc[s] = from,
         pc' = [pc EXCEPT ![s] = to], done' = done,
         \/ {from, to} \subseteq {"preparing", "reading", "writing", "buffering",
                                  "pinging", "finishing"}
         \/ {from, to} \subseteq {"ended", "abandoned"}
         \/ s \in NonStreaming
  PROVE  ClientStatus' = ClientStatus
  BY DEF ClientStatus

LEMMA UncutAnswer ==
  ASSUME OutputLen <= MaxTokens
  PROVE  AnswerLen = OutputLen
  BY IngressAssumption DEF AnswerLen, EngineEnd

\* Every action of the proxy is a step of TokenDelivery or leaves its state alone.
LEMMA DeliverySimulates ==
  ASSUME UniqueIds, OutputLen <= MaxTokens, LinesAreNamed, TypeInv, DeliveryInv,
         KindInv, Announced => WholeInv, [Next]_vars
  PROVE  [Delivery!Next]_(Delivery!vars)
<1> USE IngressAssumption
    DEF TypeInv, TypeOK, Goto, KindInv, delivery
<1> DEFINE idle == UNCHANGED <<client, ClientStatus>>
<1>0. idle => UNCHANGED Delivery!vars
  BY DEF Delivery!vars
<1>1. ASSUME NEW s \in Streams, Arrive(s) PROVE [Delivery!Next]_(Delivery!vars)
  <2>1. done' = done /\ client' = client /\ pc[s] = "idle"
    BY <1>1 DEF Arrive
  <2>2. ~done[s]
    BY <2>1
  <2>3. CASE s \in NonStreaming
    BY <1>0, <1>1, <2>1, <2>3, SameStatus DEF Arrive
  <2>4. CASE s \notin NonStreaming
    <3>1. ClientStatus' = [ClientStatus EXCEPT ![s] = "open"]
      BY <1>1, <2>1, <2>2, <2>4 DEF Arrive, ClientStatus
    <3>2. ClientStatus[s] = "waiting"
      BY <2>1, <2>2, <2>4 DEF ClientStatus
    <3>3. Delivery!Open(s)
      BY <2>1, <3>1, <3>2 DEF Delivery!Open, Delivery!Move
    <3>4. QED
      BY <3>3 DEF Delivery!Next
  <2>5. QED
    BY <2>3, <2>4
<1>2. ASSUME NEW s \in Streams,
             PrepareFails(s) \/ ClientGone(s) \/ GapDetected(s)
      PROVE  [Delivery!Next]_(Delivery!vars)
  <2>1. /\ done' = done /\ client' = client
        /\ pc[s] \in {"preparing", "reading", "writing", "buffering",
                      "pinging", "finishing"}
        /\ \/ pc' = [pc EXCEPT ![s] = "ended"]
           \/ pc' = [pc EXCEPT ![s] = "abandoned"]
    BY <1>2 DEF PrepareFails, ClientGone, GapDetected
  <2>2. ~done[s] /\ s \notin NonStreaming
    BY <2>1
  <2>3. ClientStatus' = [ClientStatus EXCEPT ![s] = "broken"]
    BY <2>1, <2>2 DEF ClientStatus
  <2>4. ClientStatus[s] = "open"
    BY <2>1, <2>2 DEF ClientStatus
  <2>5. Delivery!Break(s)
    BY <2>1, <2>3, <2>4 DEF Delivery!Break, Delivery!Move
  <2>6. QED
    BY <2>5 DEF Delivery!Next
<1>3. ASSUME NEW s \in Streams, WriteReturns(s) PROVE [Delivery!Next]_(Delivery!vars)
  <2>1. /\ done' = done /\ pc[s] = "writing"
        /\ client' = [client EXCEPT ![s] = Append(@, pos[s] - 1)]
        /\ \/ pc' = [pc EXCEPT ![s] = "reading"]
           \/ pc' = [pc EXCEPT ![s] = "buffering"]
    BY <1>3 DEF WriteReturns, NextChunk
  <2>2. ClientStatus' = ClientStatus
    <3>1. CASE pc' = [pc EXCEPT ![s] = "reading"]
      BY <2>1, <3>1, SameStatus
    <3>2. CASE pc' = [pc EXCEPT ![s] = "buffering"]
      BY <2>1, <3>2, SameStatus
    <3>3. QED
      BY <2>1, <3>1, <3>2
  <2>3. ~done[s] /\ s \notin NonStreaming
    BY <2>1
  <2>4. ClientStatus[s] = "open"
    BY <2>1, <2>3 DEF ClientStatus
  <2>5. Len(client[s]) = pos[s] - 1 /\ Len(client[s]) < OutputLen
    <3>1. /\ Len(client[s]) = lastFlushed[IdOf[s]]
          /\ pos[s] = lastFlushed[IdOf[s]] + 1
      BY <2>1 DEF DeliveryInv, LedgerMatchesClient, NamesKept, Number
    <3>2. lastFlushed[IdOf[s]] \in (0 .. OutputLen - 1) \cup {-1}
      BY DEF Tokens
    <3>3. QED
      BY <3>1, <3>2
  <2>6. AnswerLen = OutputLen
    BY UncutAnswer
  <2>7. Delivery!Deliver(s)
    BY <2>1, <2>2, <2>4, <2>5, <2>6 DEF Delivery!Deliver
  <2>8. QED
    BY <2>7 DEF Delivery!Next
<1>4. ASSUME NEW s \in Streams, DoneReturns(s) PROVE [Delivery!Next]_(Delivery!vars)
  <2>1. /\ done' = [done EXCEPT ![s] = TRUE] /\ client' = client
        /\ pc[s] = "finishing" /\ pc' = [pc EXCEPT ![s] = "ended"]
    BY <1>4 DEF DoneReturns
  <2>2. ~done[s] /\ s \notin NonStreaming
    BY <2>1
  <2>3. ClientStatus' = [ClientStatus EXCEPT ![s] = "complete"]
    BY <2>1, <2>2 DEF ClientStatus
  <2>4. ClientStatus[s] = "open"
    BY <2>1, <2>2 DEF ClientStatus
  <2>5. \/ Faults \cap Truncating # {}
        \/ Len(client[s]) = AnswerLen
    <3>1. SUFFICES ASSUME Faults \cap Truncating = {}
                   PROVE  Len(client[s]) = OutputLen
      BY UncutAnswer
    <3>2. WholeInv
      BY <3>1 DEF Announced
    <3>3. QED
      BY <2>1, <3>2 DEF WholeInv, MarkerBehindAnswer
  <2>6. Delivery!Complete(s)
    BY <2>1, <2>3, <2>4, <2>5 DEF Delivery!Complete, Delivery!Move
  <2>7. QED
    BY <2>6 DEF Delivery!Next
<1>5. ASSUME NEW s \in Streams,
             \/ Forwarded(s) \/ Start(s) \/ TakeToken(s) \/ DropDuplicate(s)
             \/ UpstreamEnds(s) \/ Finalize(s) \/ SwitchToStandby(s)
             \/ ForceStandby(s) \/ KeepAlive(s) \/ PingReturns(s)
      PROVE  [Delivery!Next]_(Delivery!vars)
  <2>1. client' = client /\ done' = done
    BY <1>5 DEF Forwarded, Start, TakeToken, DropDuplicate, UpstreamEnds, Finalize,
         SwitchToStandby, ForceStandby, KeepAlive, PingReturns
  <2>2. PICK from, to \in Stages :
          /\ pc[s] = from /\ pc' = [pc EXCEPT ![s] = to]
          /\ \/ {from, to} \subseteq {"preparing", "reading", "writing", "buffering",
                                      "pinging", "finishing"}
             \/ {from, to} \subseteq {"ended", "abandoned"}
             \/ s \in NonStreaming
    <3>1. CASE Forwarded(s)
      BY <3>1 DEF Forwarded, Stages
    <3>2. CASE Start(s)
      BY <3>2 DEF Start, Stages, Live
    <3>3. CASE TakeToken(s)
      BY <3>3 DEF TakeToken, Readable, Stages, Live
    <3>4. CASE DropDuplicate(s)
      BY <3>4 DEF DropDuplicate, Readable, NextChunk, Stages, Live
    <3>5. CASE UpstreamEnds(s)
      <4>1. /\ pc[s] = "reading"
            /\ \/ pc' = [pc EXCEPT ![s] = "buffering"]
               \/ pc' = [pc EXCEPT ![s] = "finishing"]
        BY <3>5 DEF UpstreamEnds, AtEof
      <4>2. {"reading", "buffering", "finishing"} \subseteq Stages
        BY DEF Stages, Live
      <4>3. QED
        BY <4>1, <4>2
    <3>6. CASE Finalize(s)
      BY <3>6 DEF Finalize, Stages, Live
    <3>7. CASE SwitchToStandby(s) \/ ForceStandby(s)
      BY <3>7 DEF SwitchToStandby, ForceStandby, ConnectStandby, Stages, Live
    <3>8. CASE KeepAlive(s) \/ PingReturns(s)
      BY <3>8 DEF KeepAlive, PingReturns, Stages, Live
    <3>9. QED
      BY <1>5, <3>1, <3>2, <3>3, <3>4, <3>5, <3>6, <3>7, <3>8
  <2>3. pc \in [Streams -> Stages]
    OBVIOUS
  <2>4. ClientStatus' = ClientStatus
    BY <2>1, <2>2, <2>3, SameStatus
  <2>5. QED
    BY <1>0, <2>1, <2>4
<1>6. ASSUME UNCHANGED <<pc, client, done>> PROVE [Delivery!Next]_(Delivery!vars)
  BY <1>0, <1>6 DEF ClientStatus
<1>7. ASSUME NEW s \in Streams, SkipLine(s) PROVE [Delivery!Next]_(Delivery!vars)
  BY <1>6, <1>7 DEF SkipLine
<1>8. ASSUME NEW k \in -1 .. OutputLen - 1, PreemptionAlert(k)
      PROVE  [Delivery!Next]_(Delivery!vars)
  BY <1>6, <1>8 DEF PreemptionAlert
<1>9. ASSUME NEW i \in Ids, HandoverReady(i) PROVE [Delivery!Next]_(Delivery!vars)
  BY <1>6, <1>9 DEF HandoverReady
<1>10. ASSUME NEW how \in {"closed", "silent"}, StopActive(how)
       PROVE  [Delivery!Next]_(Delivery!vars)
  BY <1>6, <1>10 DEF StopActive
<1>11. CASE UNCHANGED vars
  BY <1>6, <1>11 DEF vars
<1> HIDE DEF TypeInv, TypeOK, Goto, KindInv, delivery
<1>12. QED
  BY <1>1, <1>2, <1>3, <1>4, <1>5, <1>7, <1>8, <1>9, <1>10, <1>11
  DEF Next, Step, Turn, OthersAct, Switch

LEMMA DeliveryStarts == Init => Delivery!Init
  BY DEF Init, Delivery!Init, ClientStatus

\* Refinement: with unshared ids, an answer that fits max_tokens, and no line skipped
\* in a reply without numbers, the proxy with its tables, alerts and two engines
\* implements the delivery its clients are promised; it closes a short answer with
\* [DONE] only where the environment may commit one of the Truncating faults.
THEOREM ProxyImplementsDelivery ==
  UniqueIds /\ LinesAreNamed /\ OutputLen <= MaxTokens => (Spec => ImplementsDelivery)
<1> SUFFICES ASSUME UniqueIds, LinesAreNamed, OutputLen <= MaxTokens
             PROVE  Spec => Delivery!Spec
  BY DEF ImplementsDelivery
<1>1. TypeInv /\ KindInv /\ [Next]_vars => KindInv'
  BY KindNext
<1>2. Spec => [](TypeInv /\ DeliveryInv /\ KindInv)
  BY TypeInit, TypeNext, DeliveryInvariant, KindInit, <1>1, PTL DEF Spec
<1>3. CASE Announced
  <2>1. ProxyInv /\ KindInv /\ [Next]_vars => [Delivery!Next]_(Delivery!vars)
    BY DeliverySimulates DEF ProxyInv
  <2>2. Spec => []ProxyInv
    BY ProxyInvariant, <1>3
  <2>3. QED
    BY <1>2, DeliveryStarts, <2>1, <2>2, PTL DEF Spec, Delivery!Spec
<1>4. CASE ~Announced
  <2>1. TypeInv /\ DeliveryInv /\ KindInv /\ [Next]_vars
          => [Delivery!Next]_(Delivery!vars)
    BY <1>4, DeliverySimulates
  <2>2. QED
    BY <1>2, DeliveryStarts, <2>1, PTL DEF Spec, Delivery!Spec
<1>5. QED
  BY <1>3, <1>4

------------------------------------------------------------------------------
(* What TokenDelivery promises.                                            *)

Promised ==
  /\ client \in [Streams -> Seq(Nat)]
  /\ InOrder
  /\ \A s \in Streams : ClientStatus[s] = "complete" =>
       Faults \cap Truncating # {} \/ Len(client[s]) = AnswerLen

LEMMA PromisedNext ==
  ASSUME Promised, [Delivery!Next]_(Delivery!vars)
  PROVE  Promised'
<1> USE DEF Promised, InOrder
<1>1. AnswerLen' = AnswerLen /\ (Faults \cap Truncating)' = Faults \cap Truncating
  BY DEF AnswerLen, EngineEnd, Truncating
<1>2. ASSUME NEW s \in Streams, NEW from, NEW to, Delivery!Move(s, from, to), client' = client,
             to = "complete" => Faults \cap Truncating # {} \/ Len(client[s]) = AnswerLen
      PROVE  Promised'
  <2>1. \A t \in Streams : ClientStatus'[t] = IF t = s THEN to ELSE ClientStatus[t]
    BY <1>2 DEF Delivery!Move, ClientStatus
  <2>2. QED
    BY <1>1, <1>2, <2>1
<1>3. ASSUME NEW s \in Streams, Delivery!Deliver(s) PROVE Promised'
  <2>1. /\ client' = [client EXCEPT ![s] = Append(@, Len(@))]
        /\ ClientStatus[s] = "open" /\ ClientStatus' = ClientStatus
    BY <1>3 DEF Delivery!Deliver
  <2>2. client' \in [Streams -> Seq(Nat)]
    BY <2>1
  <2>3. ASSUME NEW t \in Streams, NEW i \in 1 .. Len(client'[t]) PROVE client'[t][i] = i - 1
    BY <2>1, <2>3
  <2>4. \A t \in Streams : ClientStatus[t] = "complete" => client'[t] = client[t]
    BY <2>1
  <2>5. QED
    BY <1>1, <2>1, <2>2, <2>3, <2>4
<1>4. ASSUME NEW s \in Streams,
             Delivery!Open(s) \/ Delivery!Complete(s) \/ Delivery!Break(s)
      PROVE  Promised'
  BY <1>2, <1>4 DEF Delivery!Open, Delivery!Complete, Delivery!Break
<1>5. CASE UNCHANGED Delivery!vars
  BY <1>1, <1>5 DEF Delivery!vars
<1>6. QED
  BY <1>3, <1>4, <1>5 DEF Delivery!Next

\* TokenDelivery entails what the invariants say of a client, exactly-once delivery
\* and whole answers behind [DONE]: a proxy of any other make that implements it
\* would have them too.
THEOREM DeliveryPromise ==
  ImplementsDelivery => [](InOrder /\ (Faults \cap Truncating = {} => WholeAnswer))
<1>1. Delivery!Init => Promised
  BY DEF Delivery!Init, Promised, InOrder
<1>2. Promised /\ [Delivery!Next]_(Delivery!vars) => Promised'
  BY PromisedNext
<1>3. Promised => InOrder /\ (Faults \cap Truncating = {} => WholeAnswer)
  BY DEF Promised, WholeAnswer, ClientStatus
<1>4. QED
  BY <1>1, <1>2, <1>3, PTL DEF ImplementsDelivery, Delivery!Spec
==============================================================================
