--------------------------- MODULE SessionReceiver ---------------------------
(***************************************************************************)
(* StateSerializer: receive_handover, a listener made for one handover,    *)
(* and the calls of send_handover that reach it.  Every connection has a   *)
(* handler of its own, and all of them share the list of sessions, the     *)
(* error and the event that the caller of receive_handover waits for.      *)
(*                                                                         *)
(* The frames of a call are numbered as in P2PHandover: 0 is HANDOVER_INIT, *)
(* k in 1 .. N the REQUEST_STATE of session k, N + 1 HANDOVER_FIN; those   *)
(* under way are got .. sent - 1, and a call reads one reply only.         *)
(*                                                                         *)
(* An operator marked "Mutant" is a plausible bug of the one below it; no  *)
(* specification uses it.                                                  *)
(***************************************************************************)
EXTENDS Integers

CONSTANTS
  Calls,        \* calls of send_handover
  N,            \* sessions of a call, numbered in the order they are sent
  Damage,       \* kinds of damage a frame may suffer in transit
  MaxDamage,    \* bound on the frames damaged
  Faults        \* the other faults that may happen

DamageKinds ==
  { "payload",       \* the payload no longer matches its CRC32
    "header",        \* magic, length or flags: the frame cannot be read
    "type" }         \* the message type, which no checksum covers
FaultKinds ==
  { "disconnect",    \* a connection breaks, and both ends are told
    "vanish",        \* it breaks without a FIN or RST, or the sender's VM does
    "oversized",     \* the frame of a session exceeds MAX_PAYLOAD_SIZE
    "stall" }        \* a sender hangs with its connection open

Sessions == 1 .. N
Fin == N + 1

ASSUME ReceiverAssumption ==
  /\ N \in Nat
  /\ Damage \subseteq DamageKinds
  /\ MaxDamage \in Nat
  /\ Faults \subseteq FaultKinds

VARIABLES
  conn,         \* each call with its connection
  clientError,  \* client_error is set
  done,         \* handover_done_event is set
  receiver,     \* where receive_handover is, or how it ended
  handed,       \* sessions in the list when receive_handover returned
  damaged,      \* frames damaged so far
  mistaken,     \* one of them was taken for another
  waits         \* wait_closed waits for the handlers (from Python 3.12 on)

shared == <<clientError, done>>
caller == <<receiver, handed, waits>>
harm   == <<damaged, mistaken>>
vars == <<conn, shared, caller, harm>>

\* A call that has not connected.
Idle ==
  [ call |-> "idle",      \* where send_handover is, or how it ended
    sent |-> 0,           \* frames it has written
    handler |-> "none",   \* where the handler of the connection is
    got |-> 0,            \* frames the handler has read
    kept |-> {},          \* frames of this call in received_sessions
    reply |-> "none",     \* the first frame sent back: NACK or ACK
    listed |-> {},        \* accepted_request_ids of the ACK
    link |-> "up" ]       \* the connection: up, down or silent

Init ==
  /\ conn = [c \in Calls |-> Idle]
  /\ clientError = FALSE /\ done = FALSE
  /\ receiver = "listening" /\ handed = {}
  /\ damaged = 0 /\ mistaken = FALSE
  /\ waits \in BOOLEAN

Received == UNION {{<<c, k>> : k \in conn[c].kept} : c \in Calls}

------------------------------------------------------------------------------
(* send_handover.                                                          *)

Ended == {"acked", "nacked", "failed"}

Call(c, from, to) ==
  /\ conn[c].call = from
  /\ conn' = [conn EXCEPT ![c].call = to]
  /\ UNCHANGED <<shared, caller, harm>>

\* The connection is made while the socket listens, and gets its handler.
Connect(c) ==
  /\ conn[c].call = "idle"
  /\ receiver = "listening"
  /\ conn' = [conn EXCEPT ![c].call = "writing", ![c].handler = "reading"]
  /\ UNCHANGED <<shared, caller, harm>>

\* Refused, or not made within the timeout.
ConnectFails(c) == Call(c, "idle", "failed")

\* One frame.  The retry loop leaves after its first attempt.
WriteFrame(c) ==
  /\ conn[c].call = "writing"
  /\ conn[c].link = "up"
  /\ conn' = [conn EXCEPT ![c].sent = @ + 1,
                          ![c].call = IF conn[c].sent = Fin THEN "waiting" ELSE "writing"]
  /\ UNCHANGED <<shared, caller, harm>>

HungUp(c) == conn[c].link # "up" \/ conn[c].handler = "closed"

\* The socket is gone (TCP gives up on a silent link), or pack_frame refuses a
\* session, which leaves the connection open.
WriteRaises(c) ==
  \/ HungUp(c) /\ Call(c, "writing", "failed")
  \/ HungUp(c) /\ Call(c, "blocked", "failed")
  \/ "oversized" \in Faults /\ conn[c].sent \in Sessions /\ Call(c, "writing", "failed")

Hangs(c) == "stall" \in Faults /\ Call(c, "writing", "blocked")

\* A reply not yet read when the connection falls silent is lost.
Hears(c, r) == conn[c].reply = r /\ conn[c].link # "silent"

ReadAck(c) == Hears(c, "ACK") /\ Call(c, "waiting", "acked")

\* CRC32VerificationError is raised.
ReadNack(c) == Hears(c, "NACK") /\ Call(c, "waiting", "nacked")

\* The connection ended, or the reply is late.
ReadRaises(c) == Call(c, "waiting", "failed")

SenderStep(c) ==
  \/ Connect(c) \/ ConnectFails(c) \/ WriteFrame(c) \/ WriteRaises(c)
  \/ ReadAck(c) \/ ReadNack(c) \/ ReadRaises(c)

------------------------------------------------------------------------------
(* handle_client.                                                          *)

FrameArrives(c) == conn[c].handler = "reading" /\ conn[c].got < conn[c].sent

\* The handler is told that its peer is gone.
PeerGone(c) ==
  conn[c].link = "down" \/ (conn[c].link = "up" /\ conn[c].call \in Ended)

Respond(c, r) == IF conn[c].reply = "none" THEN r ELSE conn[c].reply

\* An exception: it becomes client_error, and the connection is closed.
HandlerRaises(c) ==
  /\ conn' = [conn EXCEPT ![c].got = conn[c].sent, ![c].handler = "closed"]
  /\ clientError' = TRUE
  /\ UNCHANGED done

ReceiveInit(c) ==
  /\ FrameArrives(c) /\ conn[c].got = 0
  /\ conn' = [conn EXCEPT ![c].got = 1]
  /\ UNCHANGED <<shared, caller, harm>>

ReceiveState(c) ==
  /\ FrameArrives(c) /\ conn[c].got \in Sessions
  /\ conn' = [conn EXCEPT ![c].got = @ + 1, ![c].kept = @ \cup {conn[c].got}]
  /\ UNCHANGED <<shared, caller, harm>>

\* The ACK lists the sessions of all connections; then the event is set.
Accept(c) ==
  /\ conn' = [conn EXCEPT ![c].got = @ + 1, ![c].handler = "closed",
                          ![c].reply = Respond(c, "ACK"), ![c].listed = Received]
  /\ done' = TRUE
  /\ UNCHANGED clientError

ReceiveFin(c) ==
  /\ FrameArrives(c) /\ conn[c].got = Fin
  /\ Accept(c) \/ (PeerGone(c) /\ HandlerRaises(c))
  /\ UNCHANGED <<caller, harm>>

FrameDamaged(c, kind) ==
  /\ FrameArrives(c)
  /\ kind \in Damage
  /\ damaged < MaxDamage
  /\ damaged' = damaged + 1
  /\ mistaken' = (mistaken \/ kind = "type")
  /\ UNCHANGED caller

\* Mutant: a frame with a wrong checksum is passed over.
RejectSilently(c) ==
  /\ FrameDamaged(c, "payload")
  /\ conn' = [conn EXCEPT ![c].got = @ + 1]
  /\ UNCHANGED shared

\* CRC32 mismatch: a NACK is sent and the loop goes on, unless the NACK cannot
\* be written.
RejectFrame(c) ==
  /\ FrameDamaged(c, "payload")
  /\ \/ /\ conn' = [conn EXCEPT ![c].got = @ + 1, ![c].reply = Respond(c, "NACK")]
        /\ UNCHANGED shared
     \/ PeerGone(c) /\ HandlerRaises(c)

FrameUnreadable(c) == FrameDamaged(c, "header") /\ HandlerRaises(c)

\* A frame whose type byte changed is passed over as unknown, does not parse as the
\* HANDOVER_INIT it is taken for, or is taken for HANDOVER_FIN; any JSON object
\* parses as a REQUEST_STATE, and is kept as a session.
FrameMistaken(c) ==
  /\ FrameDamaged(c, "type")
  /\ \/ conn' = [conn EXCEPT ![c].got = @ + 1] /\ UNCHANGED shared
     \/ HandlerRaises(c)
     \/ Accept(c)
     \/ /\ conn[c].got \notin Sessions
        /\ conn' = [conn EXCEPT ![c].got = @ + 1, ![c].kept = @ \cup {conn[c].got}]
        /\ UNCHANGED shared

\* Mutant: the event is set however the connection ends.
EndOfStreamSets(c) ==
  /\ conn[c].handler = "reading"
  /\ PeerGone(c)
  /\ conn' = [conn EXCEPT ![c].handler = "closed"]
  /\ done' = TRUE
  /\ UNCHANGED <<clientError, caller, harm>>

\* Mutant: a connection that ends without HANDOVER_FIN keeps its handler.
EndOfStreamReset(c) ==
  /\ conn[c].handler = "reading"
  /\ conn[c].link = "down"
  /\ conn' = [conn EXCEPT ![c].handler = "closed"]
  /\ UNCHANGED <<shared, caller, harm>>

\* IncompleteReadError: the loop is left.  What the connection brought stays in
\* the list.  The read has no timeout: a silent connection never ends it.
EndOfStream(c) ==
  /\ conn[c].handler = "reading"
  /\ PeerGone(c)
  /\ conn[c].link = "down" \/ conn[c].got = conn[c].sent
  /\ conn' = [conn EXCEPT ![c].handler = "closed"]
  /\ UNCHANGED <<shared, caller, harm>>

\* The connection is reset instead: it broke, or the peer closed it with a reply
\* unread.  Frames under way may be lost.
ConnectionReset(c) ==
  /\ conn[c].handler = "reading"
  /\ PeerGone(c)
  /\ conn[c].link = "down" \/ conn[c].reply # "none"
  /\ HandlerRaises(c)
  /\ UNCHANGED <<caller, harm>>

HandlerStep(c) ==
  \/ ReceiveInit(c) \/ ReceiveState(c) \/ ReceiveFin(c)
  \/ RejectFrame(c) \/ FrameUnreadable(c) \/ FrameMistaken(c)
  \/ EndOfStream(c) \/ ConnectionReset(c)

------------------------------------------------------------------------------
(* receive_handover.                                                       *)

\* wait_for gives up, or the event lets it go on; the socket stops listening.
TimesOut ==
  /\ receiver = "listening" /\ ~done
  /\ receiver' = "raising"
  /\ UNCHANGED <<conn, shared, handed, waits, harm>>

Wakes ==
  /\ receiver = "listening" /\ done
  /\ receiver' = IF clientError THEN "raising" ELSE "returning"
  /\ UNCHANGED <<conn, shared, handed, waits, harm>>

\* wait_closed.  The list is not copied, so a handler that still runs adds to
\* what the caller has got.
Closes ==
  /\ receiver \in {"raising", "returning"}
  /\ waits => \A c \in Calls : conn[c].handler # "reading"
  /\ receiver' = IF receiver = "raising" THEN "raised" ELSE "returned"
  /\ handed' = IF receiver = "raising" THEN {} ELSE Received
  /\ UNCHANGED <<conn, shared, waits, harm>>

ReceiverStep == TimesOut \/ Wakes \/ Closes

Disconnect(c) ==
  /\ "disconnect" \in Faults
  /\ conn[c].call \notin Ended \cup {"idle"} /\ conn[c].link = "up"
  /\ conn' = [conn EXCEPT ![c].link = "down"]
  /\ UNCHANGED <<shared, caller, harm>>

Vanish(c) ==
  /\ "vanish" \in Faults
  /\ conn[c].handler = "reading" /\ conn[c].link = "up"
  /\ conn' = [conn EXCEPT ![c].link = "silent"]
  /\ UNCHANGED <<shared, caller, harm>>

Next ==
  \/ \E c \in Calls :
       SenderStep(c) \/ HandlerStep(c) \/ Hangs(c) \/ Disconnect(c) \/ Vanish(c)
  \/ ReceiverStep

Spec == Init /\ [][Next]_vars

\* Both event loops run and their timeouts fire.  Nothing ends a hanging sender, nor
\* a handler that reads from a silent connection.
FairSpec ==
  /\ Spec
  /\ \A c \in Calls : WF_vars(SenderStep(c)) /\ WF_vars(HandlerStep(c))
  /\ WF_vars(ReceiverStep)

------------------------------------------------------------------------------
(* Properties.                                                             *)

Connections ==
  [ call : {"idle", "writing", "blocked", "waiting"} \cup Ended,
    sent : 0 .. N + 2,
    handler : {"none", "reading", "closed"},
    got : 0 .. N + 2,
    kept : SUBSET (0 .. Fin),
    reply : {"none", "NACK", "ACK"},
    listed : SUBSET (Calls \X (0 .. Fin)),
    link : {"up", "down", "silent"} ]

\* What is known of the calls, their connections and the caller keeps its type.
TypeOK ==
  /\ conn \in [Calls -> Connections]
  /\ clientError \in BOOLEAN /\ done \in BOOLEAN
  /\ receiver \in {"listening", "raising", "returning", "raised", "returned"}
  /\ handed \subseteq Calls \X (0 .. Fin)
  /\ damaged \in 0 .. MaxDamage /\ mistaken \in BOOLEAN
  /\ waits \in BOOLEAN

\* send_handover returns only for a complete handover: all of its sessions are
\* in the receiver's list and in the ACK, whatever other connections did and
\* whatever was damaged, unless a frame was mistaken.
AckIsComplete ==
  \A c \in Calls :
    conn[c].call = "acked" /\ ~mistaken =>
      /\ Sessions \subseteq conn[c].kept
      /\ \A k \in Sessions : <<c, k>> \in conn[c].listed

\* receive_handover returns no list before some sender wrote its HANDOVER_FIN and
\* was answered, unless a frame was mistaken; the list has all of that sender's
\* sessions if the answer was an ACK.  A NACK counts as an answer too: a refused
\* frame may be missing from the list, and sessions of connections that ended may
\* be in it.
ReturnIsAnswered ==
  receiver = "returned" /\ ~mistaken =>
    \E c \in Calls :
      /\ conn[c].sent = N + 2 /\ conn[c].reply # "none"
      /\ conn[c].reply = "ACK" => \A k \in Sessions : <<c, k>> \in handed

\* A connection without end: its sender hangs, or vanished without a word.
Endless(c) ==
  /\ conn[c].handler = "reading"
  /\ conn[c].link = "silent" \/ (conn[c].link = "up" /\ conn[c].call = "blocked")

\* receive_handover ends, although from Python 3.12 on it waits for the handler of
\* every connection and these have no timeout: all of them end with their senders,
\* unless one hangs or its VM is reclaimed without a word.  Then wait_closed holds
\* it for ever, whatever its own timeout says.
ReceiverEnds ==
  receiver = "listening" ~>
    receiver \in {"returned", "raised"} \/ [](waits /\ \E c \in Calls : Endless(c))

==============================================================================
