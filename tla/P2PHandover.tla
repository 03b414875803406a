----------------------------- MODULE P2PHandover -----------------------------
(***************************************************************************)
(* The SGM-P2P transfer of session state: P2PClient.send_sessions on the   *)
(* active node against P2PServer._handle_client on the standby, over one   *)
(* TCP connection, with the standby daemon's session callback.             *)
(*                                                                         *)
(* The connection is a FIFO byte stream, so the frames under way are those *)
(* numbered got .. sent - 1: frame 0 is HANDOVER_INIT, frame k in 1 .. N   *)
(* the REQUEST_STATE of session k, and frame N + 1 HANDOVER_FIN.  The      *)
(* client reads one reply only, so the channel back is its first reply.    *)
(*                                                                         *)
(* An operator marked "Mutant" is a plausible bug of the one below it; no  *)
(* specification uses it.                                                  *)
(***************************************************************************)
EXTENDS Integers

CONSTANTS
  N,            \* number of sessions, numbered in the order they are sent
  Oversized,    \* sessions whose frame exceeds MAX_PAYLOAD_SIZE
  Damage,       \* kinds of damage a frame may suffer in transit
  MaxDamage,    \* bound on the frames damaged in each of these ways
  Faults        \* the other faults that may happen

DamageKinds ==
  { "payload",       \* the payload no longer matches its CRC32
    "header",        \* magic, length or flags: the frame cannot be read
    "type" }         \* the message type, which no checksum covers
FaultKinds ==
  { "disconnect",    \* the connection breaks, and both ends are told
    "vanish",        \* it breaks without a FIN or RST, or the sender's VM does
    "standby_dies",  \* the standby process is killed
    "stall" }        \* the peer stops draining the socket

Sessions == 1 .. N
Fin == N + 1

ASSUME HandoverAssumption ==
  /\ N \in Nat
  /\ Oversized \subseteq Sessions
  /\ Damage \subseteq DamageKinds
  /\ MaxDamage \in Nat
  /\ Faults \subseteq FaultKinds

VARIABLES
  sender,       \* where send_sessions is, or how it ended
  sent,         \* frames the sender has written
  receiver,     \* where the standby's connection handler is
  got,          \* frames the handler has consumed
  inFlight,     \* sessions_in_flight of the handler, by the frame they came in
  resumed,      \* sessions the standby's callback announced to the proxy
  reply,        \* the first frame sent back: "none", "NACK", "ACK" or "PONG"
  damaged,      \* frames damaged so far, for each kind of damage
  link          \* "up", "down" or "silent"

transfer == <<sender, sent>>
handler  == <<receiver, got, inFlight, resumed, reply>>
vars == <<transfer, handler, damaged, link>>

Init ==
  /\ sender = "idle" /\ sent = 0
  /\ receiver = "listening" /\ got = 0
  /\ inFlight = {} /\ resumed = {}
  /\ reply = "none" /\ damaged = [kind \in DamageKinds |-> 0] /\ link = "up"

------------------------------------------------------------------------------
(* The active node: send_sessions.                                         *)

Ended == {"acked", "nacked", "failed"}

Sender(from, to) == sender = from /\ sender' = to

Connect ==
  /\ Sender("idle", "writing")
  /\ receiver = "listening"
  /\ receiver' = "reading"
  /\ UNCHANGED <<sent, got, inFlight, resumed, reply, damaged, link>>

\* The connection is refused or not made in time.
ConnectFails ==
  /\ Sender("idle", "failed")
  /\ UNCHANGED <<sent, handler, damaged, link>>

\* One frame.  The retry loop around REQUEST_STATE leaves after its first
\* attempt, so a frame is never written twice.
WriteFrame ==
  /\ link = "up"
  /\ sent \notin Oversized
  /\ Sender("writing", IF sent = Fin THEN "waiting" ELSE "writing")
  /\ sent' = sent + 1
  /\ UNCHANGED <<handler, damaged, link>>

\* Mutant: a write to a broken connection is swallowed and tried again.
WriteRaisesOversized ==
  /\ sent \in Oversized
  /\ Sender("writing", "failed")
  /\ UNCHANGED <<sent, handler, damaged, link>>

\* pack_frame refuses the payload, or the socket is gone; on a silent link TCP
\* gives up on what is not acknowledged.
WriteRaises ==
  /\ sent \in Oversized \/ link # "up" \/ receiver = "closed"
  /\ Sender("writing", "failed")
  /\ UNCHANGED <<sent, handler, damaged, link>>

\* A wait for the peer to read what was written: of drain, or of wait_closed in
\* the finally block behind a failed attempt.  Neither has a timeout.
DrainStalls ==
  /\ "stall" \in Faults
  /\ sender \in {"writing", "waiting"} /\ sender' = "blocked"
  /\ UNCHANGED <<sent, handler, damaged, link>>

DrainRaises ==
  /\ link # "up" \/ receiver = "closed"
  /\ Sender("blocked", "failed")
  /\ UNCHANGED <<sent, handler, damaged, link>>

\* Mutant: whatever the reply is, it is taken for the ACK.
ReadAnyReply ==
  /\ reply # "none"
  /\ Sender("waiting", "acked")
  /\ UNCHANGED <<sent, handler, damaged, link>>

ReadAck ==
  /\ reply = "ACK"
  /\ Sender("waiting", "acked")
  /\ UNCHANGED <<sent, handler, damaged, link>>

ReadNack ==
  /\ reply = "NACK"
  /\ Sender("waiting", "nacked")
  /\ UNCHANGED <<sent, handler, damaged, link>>

\* The connection ended before a reply could be read, or the reply is neither.
ReadRaises ==
  /\ link = "down" \/ (receiver = "closed" /\ reply = "none") \/ reply = "PONG"
  /\ Sender("waiting", "failed")
  /\ UNCHANGED <<sent, handler, damaged, link>>

\* The reply is late, by however little.
ReplyTimesOut ==
  /\ Sender("waiting", "failed")
  /\ UNCHANGED <<sent, handler, damaged, link>>

------------------------------------------------------------------------------
(* The standby: _handle_client and _on_standby_sessions_received.          *)

FrameArrives == receiver = "reading" /\ got < sent /\ got' = got + 1

Respond(r) == reply' = IF reply = "none" /\ link # "silent" THEN r ELSE reply

ReadInit ==
  /\ FrameArrives
  /\ got = 0
  /\ UNCHANGED <<transfer, receiver, inFlight, resumed, reply, damaged, link>>

\* Mutant: the last session (IS_LAST_CHUNK) starts the callbacks.
ReadStateToLast ==
  /\ FrameArrives
  /\ got \in Sessions
  /\ inFlight' = inFlight \cup {got}
  /\ receiver' = IF got = N THEN "notifying" ELSE "reading"
  /\ UNCHANGED <<transfer, resumed, reply, damaged, link>>

ReadState ==
  /\ FrameArrives
  /\ got \in Sessions
  /\ inFlight' = inFlight \cup {got}
  /\ UNCHANGED <<transfer, receiver, resumed, reply, damaged, link>>

ReadFin ==
  /\ FrameArrives
  /\ got = Fin
  /\ receiver' = "notifying"
  /\ UNCHANGED <<transfer, inFlight, resumed, reply, damaged, link>>

FrameDamaged(kind) ==
  /\ kind \in Damage
  /\ damaged[kind] < MaxDamage
  /\ damaged' = [damaged EXCEPT ![kind] = @ + 1]
  /\ FrameArrives

\* Mutant: a frame with a wrong checksum is dropped without a NACK.
DropFrame ==
  /\ FrameDamaged("payload")
  /\ UNCHANGED <<transfer, receiver, inFlight, resumed, reply, link>>

\* CRC32 mismatch: a NACK is sent and the loop goes on.  To a sender that has
\* hung up, the NACK cannot be written and the handler ends.
RejectFrame ==
  /\ FrameDamaged("payload")
  /\ \/ Respond("NACK") /\ UNCHANGED receiver
     \/ /\ sender \in Ended \/ link = "down"
        /\ receiver' = "closed"
        /\ UNCHANGED reply
  /\ UNCHANGED <<transfer, inFlight, resumed, link>>

\* Any other error in reading a frame ends the handler.
FrameUnreadable ==
  /\ FrameDamaged("header")
  /\ receiver' = "closed"
  /\ UNCHANGED <<transfer, inFlight, resumed, reply, link>>

\* A frame whose type byte changed is taken for another.  The handler passes over a
\* type it does not know, starts the callbacks at a HANDOVER_FIN, fails at a
\* HANDOVER_INIT whose payload names no nodes, answers a HEARTBEAT, and takes any
\* JSON object for a REQUEST_STATE, as every field of a session has a default.
FrameMistaken ==
  /\ FrameDamaged("type")
  /\ \/ receiver' \in {"reading", "notifying"} /\ UNCHANGED <<inFlight, reply>>
     \/ got > 0 /\ receiver' = "closed" /\ UNCHANGED <<inFlight, reply>>
     \/ Respond("PONG") /\ UNCHANGED <<receiver, inFlight>>
     \/ /\ got \notin Sessions /\ inFlight' = inFlight \cup {got}
        /\ UNCHANGED <<receiver, reply>>
  /\ UNCHANGED <<transfer, resumed, link>>

\* The callback announces one session after the other to the proxy.  A post
\* that fails is logged and the next session follows.
Announce(k) ==
  /\ receiver = "notifying"
  /\ k \in inFlight \ resumed
  /\ \A j \in inFlight \ resumed : k <= j
  /\ resumed' = resumed \cup {k}
  /\ UNCHANGED <<transfer, receiver, got, inFlight, reply, damaged, link>>

\* Mutant: the ACK is sent while callbacks are still running.
AcknowledgeEarly ==
  /\ receiver = "notifying"
  /\ Respond("ACK")
  /\ receiver' = "closed"
  /\ UNCHANGED <<transfer, got, inFlight, resumed, damaged, link>>

\* Every callback has returned: the ACK lists the sessions, and the handler ends.
Acknowledge ==
  /\ receiver = "notifying"
  /\ inFlight = resumed
  /\ Respond("ACK")
  /\ receiver' = "closed"
  /\ UNCHANGED <<transfer, got, inFlight, resumed, damaged, link>>

\* Mutant: only a broken connection ends the handler.
ReceiverResetOnly ==
  /\ receiver = "reading"
  /\ link = "down"
  /\ receiver' = "closed"
  /\ UNCHANGED <<transfer, got, inFlight, resumed, reply, damaged, link>>

\* End of the stream; with the connection broken, frames may be lost before it.
\* The read has no timeout: a silent link never ends it.
ReceiverEof ==
  /\ receiver = "reading"
  /\ link = "down" \/ (link = "up" /\ sender \in Ended /\ got = sent)
  /\ receiver' = "closed"
  /\ UNCHANGED <<transfer, got, inFlight, resumed, reply, damaged, link>>

------------------------------------------------------------------------------
Disconnect ==
  /\ "disconnect" \in Faults
  /\ sender \notin Ended \cup {"idle"} /\ link = "up"
  /\ link' = "down"
  /\ UNCHANGED <<transfer, handler, damaged>>

Vanish ==
  /\ "vanish" \in Faults
  /\ sender # "idle" /\ link = "up"
  /\ link' = "silent"
  /\ UNCHANGED <<transfer, handler, damaged>>

StandbyDies ==
  /\ "standby_dies" \in Faults
  /\ receiver' = "closed"
  /\ UNCHANGED <<transfer, got, inFlight, resumed, reply, damaged, link>>

SenderStep ==
  \/ Connect \/ ConnectFails
  \/ WriteFrame \/ WriteRaises \/ DrainRaises
  \/ ReadAck \/ ReadNack \/ ReadRaises \/ ReplyTimesOut

ReceiverStep ==
  \/ ReadInit \/ ReadState \/ ReadFin
  \/ RejectFrame \/ FrameUnreadable \/ FrameMistaken
  \/ (\E k \in 0 .. Fin : Announce(k)) \/ Acknowledge \/ ReceiverEof

Next ==
  SenderStep \/ ReceiverStep \/ DrainStalls \/ Disconnect \/ Vanish \/ StandbyDies

Spec == Init /\ [][Next]_vars

\* Both event loops run; wait_for fires, around the connect and the read of the
\* reply.  Nothing makes drain return, nor a read on a silent link.
FairSpec == Spec /\ WF_vars(SenderStep) /\ WF_vars(ReceiverStep)

------------------------------------------------------------------------------
(* Properties.                                                             *)

TypeOK ==
  /\ sender \in {"idle", "writing", "blocked", "waiting"} \cup Ended
  /\ sent \in 0 .. N + 2
  /\ receiver \in {"listening", "reading", "notifying", "closed"}
  /\ got \in 0 .. N + 2
  /\ inFlight \subseteq 0 .. Fin
  /\ resumed \subseteq 0 .. Fin
  /\ reply \in {"none", "NACK", "ACK", "PONG"}
  /\ damaged \in [DamageKinds -> 0 .. MaxDamage]
  /\ link \in {"up", "down", "silent"}

\* A frame was taken for another.
Mistaken == damaged["type"] > 0

\* An acknowledged handover is a complete one, unless a frame was mistaken: when
\* send_sessions returns, the standby has ingested every session and announced
\* each to the proxy, whatever else was damaged or cut on the way (send_sessions
\* does not compare the ids in the ACK with what it sent).
AckMeansResumed == sender = "acked" /\ ~Mistaken => Sessions \subseteq resumed

\* The standby announces no session before the active node has written its last
\* frame, unless one was mistaken: half a transfer never moves a stream.
NoEarlyTakeover == resumed # {} /\ ~Mistaken => sent = N + 2

\* An acknowledged handover lost no frame to the CRC check or the frame reader,
\* mistaken frames or not.
AckMeansUndamaged == sender = "acked" => damaged["payload"] = 0 /\ damaged["header"] = 0

\* An ACK is the standby's last word, whatever happened to the frames before it:
\* when the active node reads it and goes on to tear its engine down, the
\* handler has ended and no callback for an ingested session is outstanding.
AckIsFinal == sender = "acked" => receiver = "closed" /\ resumed = inFlight

\* The sender waits for the peer on an open connection, which nothing ends.
Stalled == sender = "blocked" /\ link = "up" /\ receiver # "closed"

\* send_sessions returns or raises, unless it stalls.
SenderEnds == sender \in {"writing", "blocked"} ~> sender \in Ended \/ Stalled

\* The standby's connection handler ends with its peer, unless the sender stalls,
\* or vanished without a word: a VM reclaimed in the middle of its transfer leaves
\* the handler reading for ever.
ReceiverEnds ==
  receiver = "reading" ~>
    receiver = "closed" \/ Stalled \/ (receiver = "reading" /\ link = "silent")

\* How the transfer ends for the active daemon.  An acknowledgement behind a
\* mistaken frame promises nothing, although the daemon takes it for a success.
Outcome ==
  IF sender = "acked" /\ ~Mistaken THEN "success"
  ELSE IF sender \in Ended THEN "failure"
  ELSE "pending"

Transfer == INSTANCE StateTransfer WITH taken <- resumed \cap Sessions, outcome <- Outcome

\* The protocol implements the transfer it promises.
ImplementsTransfer == Transfer!Spec

==============================================================================
