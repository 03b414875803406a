-------------------------- MODULE P2PHandoverProofs --------------------------
(***************************************************************************)
(* Theorems about the state transfer, for any number of sessions and any   *)
(* number of damaged frames.  What an ACK means rests on the message type  *)
(* of every frame arriving as it was sent: no checksum covers it.          *)
(***************************************************************************)
EXTENDS P2PHandover, TLAPS

------------------------------------------------------------------------------
(* What holds whatever happens to the frames.                              *)

\* Frames are counted in order, and the last one ends the writing.
Counted ==
  /\ got <= sent
  /\ sender = "idle" => sent = 0
  /\ sender = "writing" => sent <= Fin
  /\ sender \in {"waiting", "acked", "nacked"} => sent = N + 2

\* The callbacks run after the last frame and before the ACK.
Phased ==
  /\ receiver = "listening" =>
       /\ got = 0 /\ inFlight = {} /\ reply = "none"
       /\ \A kind \in DamageKinds : damaged[kind] = 0
  /\ receiver \in {"listening", "reading"} => resumed = {}
  /\ resumed \subseteq inFlight
  /\ reply = "ACK" => receiver = "closed" /\ resumed = inFlight
  /\ sender = "acked" => reply = "ACK"

BaseInv == TypeOK /\ Counted /\ Phased

LEMMA BaseInit == Init => BaseInv
  BY HandoverAssumption DEF Init, BaseInv, TypeOK, Counted, Phased, Ended, Fin

LEMMA BaseSender == BaseInv /\ (SenderStep \/ DrainStalls) => BaseInv'
<1> SUFFICES ASSUME BaseInv, SenderStep \/ DrainStalls PROVE BaseInv'
  OBVIOUS
<1> USE HandoverAssumption
    DEF BaseInv, TypeOK, Counted, Phased, Ended, Sender, Fin, transfer, handler
<1>1. CASE Connect
  BY <1>1 DEF Connect
<1>2. CASE WriteFrame
  BY <1>2 DEF WriteFrame
<1>3. CASE ConnectFails \/ WriteRaises \/ DrainStalls \/ DrainRaises
  BY <1>3 DEF ConnectFails, WriteRaises, DrainStalls, DrainRaises
<1>4. CASE ReadAck \/ ReadNack \/ ReadRaises \/ ReplyTimesOut
  BY <1>4 DEF ReadAck, ReadNack, ReadRaises, ReplyTimesOut
<1>5. QED
  BY <1>1, <1>2, <1>3, <1>4 DEF SenderStep

LEMMA BaseReceiver == BaseInv /\ ReceiverStep => BaseInv'
<1> SUFFICES ASSUME BaseInv, ReceiverStep PROVE BaseInv'
  OBVIOUS
<1> USE HandoverAssumption
    DEF BaseInv, TypeOK, Counted, Phased, Ended, Fin, transfer, FrameArrives,
        FrameDamaged, Respond
<1>1. CASE ReadInit
  BY <1>1 DEF ReadInit
<1>2. CASE ReadState
  BY <1>2 DEF ReadState
<1>3. CASE ReadFin
  BY <1>3 DEF ReadFin
<1>4. CASE RejectFrame
  BY <1>4 DEF RejectFrame
<1>5. CASE FrameUnreadable
  BY <1>5 DEF FrameUnreadable
<1>6. CASE FrameMistaken
  <2>1. /\ got \in 0 .. Fin /\ got < sent /\ got' = got + 1 /\ sent' = sent
        /\ receiver = "reading" /\ receiver' \in {"reading", "notifying", "closed"}
        /\ UNCHANGED <<sender, resumed, link>>
    BY <1>6 DEF FrameMistaken
  <2>2. /\ inFlight' = inFlight \/ inFlight' = inFlight \cup {got}
        /\ reply' = reply \/ reply' = "PONG"
    BY <1>6 DEF FrameMistaken
  <2>3. damaged' \in [DamageKinds -> 0 .. MaxDamage]
    BY <1>6 DEF FrameMistaken
  <2>4. inFlight' \subseteq 0 .. Fin /\ resumed' \subseteq inFlight'
    BY <2>1, <2>2
  <2>5. TypeOK' /\ Counted'
    BY <2>1, <2>2, <2>3, <2>4
  <2>6. sender # "acked" /\ reply # "ACK" /\ resumed = {}
    BY <2>1
  <2>7. Phased'
    BY <2>1, <2>2, <2>4, <2>6
  <2>8. QED
    BY <2>5, <2>7
<1>7. ASSUME NEW k \in 0 .. Fin, Announce(k) PROVE BaseInv'
  BY <1>7 DEF Announce
<1>8. CASE Acknowledge
  BY <1>8 DEF Acknowledge
<1>9. CASE ReceiverEof
  BY <1>9 DEF ReceiverEof
<1>10. QED
  BY <1>1, <1>2, <1>3, <1>4, <1>5, <1>6, <1>7, <1>8, <1>9 DEF ReceiverStep

LEMMA BaseNext == BaseInv /\ [Next]_vars => BaseInv'
<1> SUFFICES ASSUME BaseInv, [Next]_vars PROVE BaseInv'
  OBVIOUS
<1>1. CASE SenderStep \/ DrainStalls
  BY <1>1, BaseSender
<1>2. CASE ReceiverStep
  BY <1>2, BaseReceiver
<1>3. CASE Disconnect \/ Vanish \/ StandbyDies \/ UNCHANGED vars
  BY <1>3 DEF BaseInv, TypeOK, Counted, Phased, Disconnect, Vanish, StandbyDies, transfer,
       handler, vars
<1>4. QED
  BY <1>1, <1>2, <1>3 DEF Next

\* The invariant the theorems below draw on: order of the frames, order of the
\* callbacks and the ACK (send_sessions, _handle_client).
THEOREM BaseInvariant == Spec => []BaseInv
  BY BaseInit, BaseNext, PTL DEF Spec

\* The variables of the transfer keep their types.
THEOREM TypeCorrect == Spec => []TypeOK
<1>1. BaseInv => TypeOK
  BY DEF BaseInv
<1>2. QED
  BY <1>1, BaseInvariant, PTL

\* An ACK is the standby's last word under every kind of damage: _handle_client
\* awaits every callback before it writes the ACK and leaves its loop.
THEOREM AckEndsHandover == Spec => []AckIsFinal
<1>1. BaseInv => AckIsFinal
  BY DEF BaseInv, Phased, AckIsFinal
<1>2. QED
  BY <1>1, BaseInvariant, PTL

------------------------------------------------------------------------------
(* What holds as long as no frame is mistaken for another.                 *)

\* As long as nothing was answered, no frame was found damaged: the reply to one
\* is lost on a silent link only, and so is the ACK that would follow.
Unanswered ==
  reply = "none" /\ link # "silent" /\ receiver \in {"reading", "notifying"}

Undamaged ==
  reply = "ACK" \/ Unanswered => damaged["payload"] = 0 /\ damaged["header"] = 0

\* As long as nothing was answered, nothing is missing.
NothingMissing ==
  ~Mistaken =>
    /\ Unanswered => inFlight = {k \in Sessions : k < got}
    /\ reply = "ACK" => inFlight = Sessions

\* The callbacks start behind HANDOVER_FIN.
AfterFin == ~Mistaken /\ (receiver = "notifying" \/ resumed # {}) => got = N + 2

TransferInv == Undamaged /\ NothingMissing /\ AfterFin

LEMMA TransferInit == Init => TransferInv
  BY DEF Init, TransferInv, Undamaged, NothingMissing, Unanswered, AfterFin, DamageKinds

LEMMA TransferNext ==
  ASSUME BaseInv, BaseInv', TransferInv, [Next]_vars
  PROVE  TransferInv'
<1> USE HandoverAssumption
    DEF BaseInv, TypeOK, Counted, Phased, TransferInv, Undamaged, NothingMissing,
        Unanswered, AfterFin, Mistaken, DamageKinds, Sender, Fin, Sessions, transfer,
        handler, FrameArrives, FrameDamaged, Respond
<1>1. CASE SenderStep \/ DrainStalls
  <2>1. CASE Connect
    <3>1. {k \in Sessions : k < 0} = {}
      OBVIOUS
    <3>2. QED
      BY <2>1, <3>1 DEF Connect
  <2>2. CASE ~Connect
    <3>1. UNCHANGED <<handler, damaged, link>>
      BY <1>1, <2>2 DEF SenderStep, DrainStalls, WriteFrame, ConnectFails, WriteRaises,
           DrainRaises, ReadAck, ReadNack, ReadRaises, ReplyTimesOut
    <3>2. QED
      BY <3>1
  <2>3. QED
    BY <2>1, <2>2
<1>2. CASE ReadInit
  <2>1. {k \in Sessions : k < 0} = {k \in Sessions : k < 1}
    OBVIOUS
  <2>2. QED
    BY <1>2, <2>1 DEF ReadInit
<1>3. CASE ReadState
  <2>1. {k \in Sessions : k < got} \cup {got} = {k \in Sessions : k < got + 1}
    BY <1>3 DEF ReadState
  <2>2. QED
    BY <1>3, <2>1 DEF ReadState
<1>4. CASE ReadFin
  <2>1. {k \in Sessions : k < Fin} = {k \in Sessions : k < Fin + 1}
    OBVIOUS
  <2>2. QED
    BY <1>4, <2>1 DEF ReadFin
<1>5. CASE RejectFrame
  BY <1>5 DEF RejectFrame
<1>6. CASE FrameUnreadable
  BY <1>6 DEF FrameUnreadable
<1>7. CASE FrameMistaken
  BY <1>7 DEF FrameMistaken
<1>8. ASSUME NEW k \in 0 .. Fin, Announce(k) PROVE TransferInv'
  BY <1>8 DEF Announce
<1>9. CASE Acknowledge
  <2>1. {k \in Sessions : k < N + 2} = Sessions
    OBVIOUS
  <2>2. QED
    BY <1>9, <2>1 DEF Acknowledge
<1>10. CASE ReceiverEof
  BY <1>10 DEF ReceiverEof
<1>11. CASE Disconnect \/ Vanish \/ StandbyDies \/ UNCHANGED vars
  BY <1>11 DEF Disconnect, Vanish, StandbyDies, vars
<1>12. QED
  BY <1>1, <1>2, <1>3, <1>4, <1>5, <1>6, <1>7, <1>8, <1>9, <1>10, <1>11
     DEF Next, ReceiverStep

\* The strengthening behind what an ACK means: up to the first reply the standby
\* holds exactly the sessions of the frames it has read, none of them damaged.
THEOREM TransferInvariant == Spec => [](BaseInv /\ TransferInv)
<1>1. BaseInv /\ BaseInv' /\ TransferInv /\ [Next]_vars => TransferInv'
  BY TransferNext
<1>2. QED
  BY TransferInit, BaseInvariant, <1>1, PTL DEF Spec

\* An acknowledged handover is a complete one: every session was ingested and
\* announced to the proxy before send_sessions returned.
THEOREM AckedIsResumed == Spec => []AckMeansResumed
<1>1. BaseInv /\ TransferInv => AckMeansResumed
  BY DEF BaseInv, Phased, TransferInv, NothingMissing, AckMeansResumed
<1>2. QED
  BY <1>1, TransferInvariant, PTL

\* Half a transfer never moves a stream.
THEOREM TakeoverAfterFin == Spec => []NoEarlyTakeover
<1>1. BaseInv /\ TransferInv => NoEarlyTakeover
  BY HandoverAssumption
     DEF BaseInv, TypeOK, Counted, TransferInv, AfterFin, NoEarlyTakeover
<1>2. QED
  BY <1>1, TransferInvariant, PTL

\* No frame of an acknowledged handover failed its checksum.
THEOREM AckedIsUndamaged == Spec => []AckMeansUndamaged
<1>1. BaseInv /\ TransferInv => AckMeansUndamaged
  BY DEF BaseInv, Phased, TransferInv, Undamaged, AckMeansUndamaged
<1>2. QED
  BY <1>1, TransferInvariant, PTL

------------------------------------------------------------------------------
LEMMA TransferSimulates ==
  ASSUME BaseInv, TransferInv, [Next]_vars
  PROVE  [Transfer!Next]_(Transfer!vars)
<1> USE DEF Transfer!vars, Transfer!Next, Ended
<1>1. ASSUME NEW k \in 0 .. Fin, Announce(k)
      PROVE  [Transfer!Next]_(Transfer!vars)
  <2>1. /\ k \notin resumed /\ resumed' = resumed \cup {k}
        /\ Outcome' = Outcome
    BY <1>1 DEF Announce, Outcome, Mistaken, transfer
  <2>2. CASE k \in Sessions
    <3>1. Transfer!TakeOver(k)
      BY <2>1, <2>2 DEF Transfer!TakeOver
    <3>2. QED
      BY <2>2, <3>1
  <2>3. CASE k \notin Sessions
    <3>1. resumed' \cap Sessions = resumed \cap Sessions
      BY <2>1, <2>3
    <3>2. QED
      BY <2>1, <3>1
  <2>4. QED
    BY <2>2, <2>3
<1>2. CASE ReadAck
  <2>1. /\ sender = "waiting" /\ sender' = "acked" /\ reply = "ACK"
        /\ resumed' = resumed /\ Mistaken' = Mistaken
    BY <1>2 DEF ReadAck, Sender, handler, Mistaken
  <2>2. CASE ~Mistaken
    <3>1. resumed \cap Sessions = Sessions
      BY <2>1, <2>2 DEF BaseInv, Phased, TransferInv, NothingMissing
    <3>2. Transfer!Succeed
      BY <2>1, <2>2, <3>1 DEF Transfer!Succeed, Outcome
    <3>3. QED
      BY <3>2
  <2>3. CASE Mistaken
    <3>1. Transfer!Fail
      BY <2>1, <2>3 DEF Transfer!Fail, Outcome
    <3>2. QED
      BY <3>1
  <2>4. QED
    BY <2>2, <2>3
<1>3. CASE \/ ConnectFails \/ WriteRaises \/ DrainRaises \/ ReadNack \/ ReadRaises
           \/ ReplyTimesOut
  <2>1. /\ sender \in {"idle", "writing", "blocked", "waiting"}
        /\ sender' \in {"nacked", "failed"}
        /\ resumed' = resumed
    BY <1>3 DEF ConnectFails, WriteRaises, DrainRaises, ReadNack, ReadRaises,
         ReplyTimesOut, Sender, handler
  <2>2. Transfer!Fail
    BY <2>1 DEF Transfer!Fail, Outcome
  <2>3. QED
    BY <2>2
<1>4. CASE Connect \/ WriteFrame \/ DrainStalls
  <2>1. /\ {sender, sender'} \subseteq {"idle", "writing", "blocked", "waiting"}
        /\ resumed' = resumed
    BY <1>4 DEF Connect, WriteFrame, DrainStalls, Sender, handler
  <2>2. QED
    BY <2>1 DEF Outcome
<1>5. CASE FrameMistaken
  <2>1. sender # "acked"
    BY <1>5 DEF FrameMistaken, FrameDamaged, FrameArrives, BaseInv, Phased
  <2>2. UNCHANGED <<sender, resumed>>
    BY <1>5 DEF FrameMistaken, transfer
  <2>3. QED
    BY <2>1, <2>2 DEF Outcome
<1>6. CASE \/ RejectFrame \/ FrameUnreadable
  <2>1. UNCHANGED <<sender, resumed>>
    BY <1>6 DEF RejectFrame, FrameUnreadable, transfer
  <2>2. damaged'["type"] = damaged["type"]
    BY <1>6 DEF RejectFrame, FrameUnreadable, FrameDamaged, BaseInv, TypeOK, DamageKinds
  <2>3. QED
    BY <2>1, <2>2 DEF Outcome, Mistaken
<1>7. CASE \/ ReadInit \/ ReadState \/ ReadFin
           \/ Acknowledge \/ ReceiverEof \/ Disconnect \/ Vanish \/ StandbyDies
           \/ UNCHANGED vars
  <2>1. UNCHANGED <<sender, resumed, damaged>>
    BY <1>7 DEF ReadInit, ReadState, ReadFin, Acknowledge, ReceiverEof, Disconnect,
         Vanish, StandbyDies, transfer, handler, vars
  <2>2. QED
    BY <2>1 DEF Outcome, Mistaken
<1>8. QED
  BY <1>1, <1>2, <1>3, <1>4, <1>5, <1>6, <1>7 DEF Next, SenderStep, ReceiverStep

\* Refinement: the frames, checksums, callbacks and time limits implement the
\* transfer the active daemon relies on (success only when every session was
\* taken over), as long as no frame is mistaken for another.
THEOREM HandoverImplementsTransfer == Spec => ImplementsTransfer
<1>1. Init => Transfer!Init
  BY DEF Init, Transfer!Init, Outcome, Ended
<1>2. BaseInv /\ TransferInv /\ [Next]_vars => [Transfer!Next]_(Transfer!vars)
  BY TransferSimulates
<1>3. QED
  BY <1>1, <1>2, TransferInvariant, PTL DEF Spec, ImplementsTransfer, Transfer!Spec

------------------------------------------------------------------------------
(* What StateTransfer promises.                                            *)

Promised == Outcome = "success" => resumed \cap Sessions = Sessions

\* StateTransfer, as which the daemon's model meets the transfer, entails what the
\* daemon relies on: a success means that every session was taken over, and the
\* verdict stands, whatever the standby does afterwards.
THEOREM TransferPromise ==
  ImplementsTransfer =>
    []AckMeansResumed /\ [][Outcome # "pending" => UNCHANGED Outcome]_(Transfer!vars)
<1> USE DEF Transfer!TakeOver, Transfer!Succeed, Transfer!Fail, Transfer!Next, Transfer!vars
<1>1. Transfer!Init => Promised
  BY DEF Transfer!Init, Promised
<1>2. Promised /\ [Transfer!Next]_(Transfer!vars) => Promised'
  BY DEF Promised
<1>3. Promised => AckMeansResumed
  BY DEF Promised, Outcome, AckMeansResumed
<1>4. [Transfer!Next]_(Transfer!vars) =>
        [Outcome # "pending" => UNCHANGED Outcome]_(Transfer!vars)
  OBVIOUS
<1>5. QED
  BY <1>1, <1>2, <1>3, <1>4, PTL DEF ImplementsTransfer, Transfer!Spec
==============================================================================
