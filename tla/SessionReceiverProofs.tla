------------------------ MODULE SessionReceiverProofs ------------------------
(***************************************************************************)
(* What send_handover and receive_handover return is backed by what the    *)
(* other side did, for any number of calls and sessions and any faults.    *)
(***************************************************************************)
EXTENDS SessionReceiver, TLAPS

------------------------------------------------------------------------------
(* The inductive invariant.                                                *)

\* Frames are read in order, behind the sender.
InOrder(c) ==
  /\ conn[c].got <= conn[c].sent
  /\ conn[c].call \in {"idle", "writing"} => conn[c].sent <= Fin
  /\ conn[c].call = "idle" => conn[c].sent = 0 /\ conn[c].reply = "none"

\* Every state frame read is kept, unless a frame was refused or mistaken, and an
\* ACK is the handler's last word.
Keeps(c) ==
  /\ ~mistaken /\ conn[c].handler = "reading" /\ conn[c].reply # "NACK" =>
       \A k \in Sessions : k < conn[c].got => k \in conn[c].kept
  /\ ~mistaken /\ conn[c].reply = "ACK" =>
       Sessions \subseteq conn[c].kept /\ \A k \in Sessions : <<c, k>> \in conn[c].listed
  /\ conn[c].reply = "ACK" => conn[c].handler = "closed"
  /\ conn[c].call = "acked" => conn[c].reply = "ACK"

Answered(c) == conn[c].sent = N + 2 /\ conn[c].reply # "none"

\* The event is set behind an answer to HANDOVER_FIN, and the caller goes on
\* behind the event.
Backed ==
  /\ done /\ ~mistaken => \E c \in Calls : Answered(c)
  /\ receiver = "returning" => done

IInv ==
  /\ TypeOK
  /\ \A c \in Calls : InOrder(c) /\ Keeps(c)
  /\ Backed
  /\ ReturnIsAnswered

LEMMA InitInv == Init => IInv
<1> SUFFICES ASSUME Init PROVE IInv
  OBVIOUS
<1>0. N \in Nat /\ MaxDamage \in Nat
  BY ReceiverAssumption
<1>1. TypeOK
  <2>1. Idle \in Connections
    BY <1>0 DEF Idle, Connections
  <2>2. conn \in [Calls -> Connections]
    BY <2>1 DEF Init
  <2>3. handed \subseteq Calls \X (0 .. Fin)
    BY DEF Init
  <2>4. damaged \in 0 .. MaxDamage
    BY <1>0 DEF Init
  <2>5. QED
    BY <2>2, <2>3, <2>4 DEF Init, TypeOK
<1>2. ASSUME NEW c \in Calls PROVE InOrder(c) /\ Keeps(c)
  <2>1. /\ conn[c].got = 0 /\ conn[c].sent = 0 /\ conn[c].call = "idle"
        /\ conn[c].reply = "none" /\ conn[c].handler = "none"
    BY DEF Init, Idle
  <2>2. InOrder(c)
    BY <1>0, <2>1 DEF InOrder, Fin
  <2>3. Keeps(c)
    BY <2>1 DEF Keeps
  <2>4. QED
    BY <2>2, <2>3
<1>3. Backed /\ ReturnIsAnswered
  BY DEF Init, Backed, ReturnIsAnswered
<1>4. QED
  BY <1>1, <1>2, <1>3 DEF IInv

------------------------------------------------------------------------------
(* Steps of one connection.                                                *)

\* What a step of the sender or the handler of one call leaves alone.
OneCall(c) ==
  /\ \A d \in Calls \ {c} : conn'[d] = conn[d]
  /\ UNCHANGED caller
  /\ mistaken => mistaken'
  /\ done => done'

\* A call that was answered stays so, with the same answer.
Settled(c) == Answered(c) => Answered(c)' /\ conn'[c].reply = conn[c].reply

LEMMA OneCallInv ==
  ASSUME IInv, TypeOK', NEW c \in Calls, OneCall(c), Settled(c),
         InOrder(c)', Keeps(c)', done' /\ ~done /\ ~mistaken' => Answered(c)'
  PROVE  IInv'
<1>1. ASSUME NEW d \in Calls \ {c} PROVE InOrder(d)' /\ Keeps(d)' /\ Settled(d)
  <2>1. conn'[d] = conn[d] /\ (~mistaken' => ~mistaken) /\ InOrder(d) /\ Keeps(d)
    BY <1>1 DEF OneCall, IInv
  <2>2. InOrder(d)'
    BY <2>1 DEF InOrder
  <2>3. Keeps(d)'
    BY <2>1 DEF Keeps
  <2>4. QED
    BY <2>1, <2>2, <2>3 DEF Settled, Answered
<1>2. \A d \in Calls : InOrder(d)' /\ Keeps(d)' /\ Settled(d)
  BY <1>1
<1>3. Backed'
  <2>1. ASSUME done', ~mistaken' PROVE \E d \in Calls : Answered(d)'
    <3>1. CASE done
      <4>1. PICK d \in Calls : Answered(d)
        BY <2>1, <3>1 DEF IInv, Backed, OneCall
      <4>2. QED
        BY <1>2, <4>1 DEF Settled
    <3>2. CASE ~done
      BY <2>1, <3>2
    <3>3. QED
      BY <3>1, <3>2
  <2>2. receiver' = "returning" => done'
    BY DEF IInv, Backed, OneCall, caller
  <2>3. QED
    BY <2>1, <2>2 DEF Backed
<1>4. ReturnIsAnswered'
  <2>1. SUFFICES ASSUME receiver' = "returned", ~mistaken'
                 PROVE  \E d \in Calls :
                          /\ Answered(d)'
                          /\ conn'[d].reply = "ACK" => \A k \in Sessions : <<d, k>> \in handed'
    BY DEF ReturnIsAnswered, Answered
  <2>2. receiver = "returned" /\ ~mistaken /\ handed' = handed
    BY <2>1 DEF OneCall, caller
  <2>3. PICK d \in Calls :
          /\ Answered(d)
          /\ conn[d].reply = "ACK" => \A k \in Sessions : <<d, k>> \in handed
    BY <2>2 DEF IInv, ReturnIsAnswered, Answered
  <2>4. QED
    BY <1>2, <2>2, <2>3 DEF Settled
<1>5. QED
  BY <1>2, <1>3, <1>4 DEF IInv

LEMMA ConnType ==
  ASSUME TypeOK, NEW c \in Calls
  PROVE  /\ conn[c] \in Connections
         /\ conn[c].sent \in 0 .. N + 2 /\ conn[c].got \in 0 .. N + 2
         /\ conn[c].reply \in {"none", "NACK", "ACK"}
         /\ conn[c].kept \subseteq 0 .. Fin
         /\ N \in Nat /\ MaxDamage \in Nat
  BY ReceiverAssumption DEF TypeOK, Connections

\* A step of the caller's own connection changes the type of nothing else.
LEMMA TypeNext ==
  ASSUME TypeOK, NEW c \in Calls, NEW r \in Connections, conn' = [conn EXCEPT ![c] = r],
         clientError' \in BOOLEAN, done' \in BOOLEAN, UNCHANGED caller,
         damaged' \in 0 .. MaxDamage, mistaken' \in BOOLEAN
  PROVE  /\ TypeOK'
         /\ conn'[c] = r
         /\ \A d \in Calls \ {c} : conn'[d] = conn[d]
  BY DEF TypeOK, caller

LEMMA CallInv ==
  ASSUME IInv, NEW c \in Calls,
         NEW from \in {"idle", "writing", "blocked", "waiting"},
         NEW to \in {"blocked", "failed", "nacked", "acked"},
         Call(c, from, to), to = "acked" => conn[c].reply = "ACK"
  PROVE  IInv'
<1> DEFINE r == [conn[c] EXCEPT !.call = to]
<1>1. TypeOK /\ InOrder(c) /\ Keeps(c) /\ conn[c] \in Connections
  BY ConnType DEF IInv
<1>2. /\ r \in Connections
      /\ r.sent = conn[c].sent /\ r.got = conn[c].got /\ r.handler = conn[c].handler
      /\ r.reply = conn[c].reply /\ r.kept = conn[c].kept /\ r.listed = conn[c].listed
      /\ r.call = to
  BY <1>1 DEF Connections, Ended
<1>3. conn' = [conn EXCEPT ![c] = r] /\ UNCHANGED <<shared, caller, harm>>
  BY DEF Call
<1> HIDE DEF r
<1>4. TypeOK' /\ conn'[c] = r /\ \A d \in Calls \ {c} : conn'[d] = conn[d]
  BY <1>1, <1>2, <1>3, TypeNext DEF TypeOK, shared, harm
<1>5. InOrder(c)' /\ Keeps(c)'
  BY <1>1, <1>2, <1>3, <1>4 DEF InOrder, Keeps, harm
<1>6. OneCall(c) /\ Settled(c)
  BY <1>2, <1>3, <1>4 DEF OneCall, Settled, Answered, shared, harm
<1>7. QED
  BY <1>3, <1>4, <1>5, <1>6, OneCallInv DEF shared

LEMMA ConnectInv ==
  ASSUME IInv, NEW c \in Calls, Connect(c)
  PROVE  IInv'
<1> DEFINE r == [conn[c] EXCEPT !.call = "writing", !.handler = "reading"]
<1>1. /\ TypeOK /\ InOrder(c) /\ Keeps(c) /\ conn[c] \in Connections /\ conn[c].call = "idle"
      /\ conn[c].got \in Nat /\ N \in Nat
  BY ConnType DEF IInv, Connect
<1>2. /\ r \in Connections
      /\ r.sent = conn[c].sent /\ r.got = conn[c].got /\ r.handler = "reading"
      /\ r.reply = conn[c].reply /\ r.kept = conn[c].kept /\ r.listed = conn[c].listed
      /\ r.call = "writing"
  BY <1>1 DEF Connections
<1>3. conn' = [conn EXCEPT ![c] = r] /\ UNCHANGED <<shared, caller, harm>>
  BY <1>1 DEF Connect, TypeOK
<1> HIDE DEF r
<1>4. TypeOK' /\ conn'[c] = r /\ \A d \in Calls \ {c} : conn'[d] = conn[d]
  BY <1>1, <1>2, <1>3, TypeNext DEF TypeOK, shared, harm
<1>5. conn[c].sent = 0 /\ conn[c].got = 0 /\ conn[c].reply = "none"
  BY <1>1 DEF InOrder
<1>6. InOrder(c)'
  BY <1>1, <1>2, <1>4, <1>5 DEF InOrder, Fin
<1>7. Keeps(c)'
  BY <1>1, <1>2, <1>4, <1>5 DEF Keeps, Sessions
<1>8. OneCall(c) /\ Settled(c)
  BY <1>2, <1>3, <1>4 DEF OneCall, Settled, Answered, shared, harm
<1>9. QED
  BY <1>3, <1>4, <1>6, <1>7, <1>8, OneCallInv DEF shared

LEMMA WriteInv ==
  ASSUME IInv, NEW c \in Calls, WriteFrame(c)
  PROVE  IInv'
<1> DEFINE to == IF conn[c].sent = Fin THEN "waiting" ELSE "writing"
           r == [conn[c] EXCEPT !.sent = @ + 1, !.call = to]
<1>1. /\ TypeOK /\ InOrder(c) /\ Keeps(c) /\ conn[c] \in Connections /\ conn[c].call = "writing"
      /\ conn[c].sent \in Nat /\ conn[c].got \in Nat /\ N \in Nat
  BY ConnType DEF IInv, WriteFrame
<1>2. conn[c].sent <= N + 1 /\ Fin = N + 1
  BY <1>1 DEF InOrder, Fin
<1>3. /\ r \in Connections
      /\ r.sent = conn[c].sent + 1 /\ r.got = conn[c].got /\ r.handler = conn[c].handler
      /\ r.reply = conn[c].reply /\ r.kept = conn[c].kept /\ r.listed = conn[c].listed
      /\ r.call \in {"writing", "waiting"} /\ (r.call = "writing" => r.sent <= Fin)
  <2>1. to \in {"writing", "waiting"}
    OBVIOUS
  <2>2. conn[c].sent + 1 \in 0 .. N + 2
    BY <1>1, <1>2
  <2>3. to = "writing" => conn[c].sent + 1 <= Fin
    BY <1>1, <1>2
  <2> HIDE DEF to
  <2>4. r \in Connections
    BY <1>1, <2>1, <2>2 DEF Connections
  <2>5. r.call = to /\ r.sent = conn[c].sent + 1
    BY <1>1 DEF Connections
  <2>6. QED
    BY <1>1, <2>1, <2>3, <2>4, <2>5 DEF Connections
<1>4. conn' = [conn EXCEPT ![c] = r] /\ UNCHANGED <<shared, caller, harm>>
  BY <1>1 DEF WriteFrame, TypeOK
<1> HIDE DEF r, to
<1>5. TypeOK' /\ conn'[c] = r /\ \A d \in Calls \ {c} : conn'[d] = conn[d]
  BY <1>1, <1>3, <1>4, TypeNext DEF TypeOK, shared, harm
<1>6. InOrder(c)'
  BY <1>1, <1>3, <1>5 DEF InOrder
<1>7. Keeps(c)'
  BY <1>1, <1>3, <1>4, <1>5 DEF Keeps, harm
<1>8. OneCall(c) /\ Settled(c)
  BY <1>1, <1>2, <1>3, <1>4, <1>5 DEF OneCall, Settled, Answered, shared, harm
<1>9. QED
  BY <1>4, <1>5, <1>6, <1>7, <1>8, OneCallInv DEF shared

LEMMA LinkInv ==
  ASSUME IInv, NEW c \in Calls, NEW l \in {"down", "silent"},
         conn' = [conn EXCEPT ![c].link = l], UNCHANGED <<shared, caller, harm>>
  PROVE  IInv'
<1> DEFINE r == [conn[c] EXCEPT !.link = l]
<1>1. TypeOK /\ InOrder(c) /\ Keeps(c) /\ conn[c] \in Connections
  BY ConnType DEF IInv
<1>2. /\ r \in Connections
      /\ r.sent = conn[c].sent /\ r.got = conn[c].got /\ r.handler = conn[c].handler
      /\ r.reply = conn[c].reply /\ r.kept = conn[c].kept /\ r.listed = conn[c].listed
      /\ r.call = conn[c].call
  BY <1>1 DEF Connections
<1>3. conn' = [conn EXCEPT ![c] = r] /\ UNCHANGED <<shared, caller, harm>>
  BY <1>1
<1> HIDE DEF r
<1>4. TypeOK' /\ conn'[c] = r /\ \A d \in Calls \ {c} : conn'[d] = conn[d]
  BY <1>1, <1>2, <1>3, TypeNext DEF TypeOK, shared, harm
<1>5. InOrder(c)' /\ Keeps(c)'
  BY <1>1, <1>2, <1>3, <1>4 DEF InOrder, Keeps, harm
<1>6. OneCall(c) /\ Settled(c)
  BY <1>2, <1>3, <1>4 DEF OneCall, Settled, Answered, shared, harm
<1>7. QED
  BY <1>3, <1>4, <1>5, <1>6, OneCallInv DEF shared

LEMMA SenderInv ==
  ASSUME IInv, NEW c \in Calls, SenderStep(c) \/ Hangs(c) \/ Disconnect(c) \/ Vanish(c)
  PROVE  IInv'
<1>1. CASE ConnectFails(c)
  BY <1>1, CallInv DEF ConnectFails
<1>2. CASE WriteRaises(c)
  BY <1>2, CallInv DEF WriteRaises
<1>3. CASE ReadAck(c)
  BY <1>3, CallInv DEF ReadAck, Hears
<1>4. CASE ReadNack(c)
  BY <1>4, CallInv DEF ReadNack, Hears
<1>5. CASE ReadRaises(c)
  BY <1>5, CallInv DEF ReadRaises
<1>6. CASE Hangs(c)
  BY <1>6, CallInv DEF Hangs
<1>7. CASE Disconnect(c) \/ Vanish(c)
  BY <1>7, LinkInv DEF Disconnect, Vanish
<1>8. QED
  BY <1>1, <1>2, <1>3, <1>4, <1>5, <1>6, <1>7, ConnectInv, WriteInv DEF SenderStep

------------------------------------------------------------------------------
(* Steps of the handlers.                                                  *)

\* What a handler may do to its call: read in order, answer once, and keep what
\* an ACK will list.
LEMMA HandlerKeepsInv ==
  ASSUME IInv, NEW c \in Calls, NEW r \in Connections, conn' = [conn EXCEPT ![c] = r],
         clientError' \in BOOLEAN, done' \in BOOLEAN, UNCHANGED caller,
         damaged' \in 0 .. MaxDamage, mistaken' \in BOOLEAN,
         mistaken => mistaken', done => done',
         r.call = conn[c].call, r.sent = conn[c].sent, r.got <= r.sent,
         conn[c].reply # "none" => r.reply = conn[c].reply,
         conn[c].call = "idle" => r.reply = "none",
         ~mistaken' /\ r.handler = "reading" /\ r.reply # "NACK" =>
           \A k \in Sessions : k < r.got => k \in r.kept,
         ~mistaken' /\ r.reply = "ACK" =>
           Sessions \subseteq r.kept /\ \A k \in Sessions : <<c, k>> \in r.listed,
         r.reply = "ACK" => r.handler = "closed",
         done' /\ ~done /\ ~mistaken' => r.sent = N + 2 /\ r.reply # "none"
  PROVE  IInv'
<1>1. TypeOK /\ InOrder(c) /\ Keeps(c)
  BY DEF IInv
<1>2. TypeOK' /\ conn'[c] = r /\ \A d \in Calls \ {c} : conn'[d] = conn[d]
  BY <1>1, TypeNext
<1>3. InOrder(c)'
  BY <1>1, <1>2 DEF InOrder
<1>4. Keeps(c)'
  BY <1>1, <1>2 DEF Keeps
<1>5. OneCall(c) /\ Settled(c)
  BY <1>2 DEF OneCall, Settled, Answered
<1>6. done' /\ ~done /\ ~mistaken' => Answered(c)'
  BY <1>2 DEF Answered
<1>7. QED
  BY <1>2, <1>3, <1>4, <1>5, <1>6, OneCallInv

\* A handler that reads has not answered with an ACK, and its call has written
\* what it reads.
LEMMA Reading ==
  ASSUME IInv, NEW c \in Calls, conn[c].handler = "reading"
  PROVE  /\ conn[c] \in Connections /\ TypeOK
         /\ conn[c].sent \in Nat /\ conn[c].got \in Nat /\ N \in Nat
         /\ conn[c].got <= conn[c].sent /\ conn[c].sent <= N + 2
         /\ conn[c].reply \in {"none", "NACK"}
         /\ conn[c].call = "idle" => conn[c].reply = "none" /\ conn[c].sent = 0
         /\ ~mistaken /\ conn[c].reply # "NACK" =>
              \A k \in Sessions : k < conn[c].got => k \in conn[c].kept
<1>1. TypeOK /\ InOrder(c) /\ Keeps(c)
  BY DEF IInv
<1>2. /\ conn[c] \in Connections /\ N \in Nat
      /\ conn[c].sent \in 0 .. N + 2 /\ conn[c].got \in 0 .. N + 2
      /\ conn[c].reply \in {"none", "NACK", "ACK"}
  BY <1>1, ConnType
<1>3. conn[c].reply # "ACK"
  BY <1>1 DEF Keeps
<1>4. QED
  BY <1>1, <1>2, <1>3 DEF InOrder, Keeps

\* The answers of the handlers, and the damage of a frame, keep their types.
LEMMA HarmType ==
  ASSUME TypeOK, NEW c \in Calls, NEW kind, FrameDamaged(c, kind)
  PROVE  /\ UNCHANGED caller
         /\ damaged' \in 0 .. MaxDamage /\ mistaken' \in BOOLEAN
         /\ mistaken => mistaken'
         /\ kind = "type" => mistaken'
<1>1. MaxDamage \in Nat /\ damaged \in 0 .. MaxDamage /\ damaged < MaxDamage
  BY ReceiverAssumption DEF TypeOK, FrameDamaged
<1>2. damaged' \in 0 .. MaxDamage
  BY <1>1 DEF FrameDamaged
<1>3. mistaken' \in BOOLEAN /\ (mistaken => mistaken') /\ (kind = "type" => mistaken')
  BY DEF FrameDamaged, TypeOK
<1>4. QED
  BY <1>2, <1>3 DEF FrameDamaged

\* Closing the connection, with what the handler had read and answered.
LEMMA ClosedInv ==
  ASSUME IInv, NEW c \in Calls, conn[c].handler = "reading",
         NEW n \in Nat, n <= conn[c].sent,
         conn' = [conn EXCEPT ![c].got = n, ![c].handler = "closed"],
         clientError' \in BOOLEAN, UNCHANGED done, UNCHANGED caller,
         damaged' \in 0 .. MaxDamage, mistaken' \in BOOLEAN, mistaken => mistaken'
  PROVE  IInv'
<1> DEFINE r == [conn[c] EXCEPT !.got = n, !.handler = "closed"]
<1>1. /\ conn[c] \in Connections /\ TypeOK /\ conn[c].sent \in Nat /\ N \in Nat
      /\ conn[c].sent <= N + 2 /\ conn[c].reply \in {"none", "NACK"}
      /\ conn[c].call = "idle" => conn[c].reply = "none"
  BY Reading
<1>2. n \in 0 .. N + 2
  BY <1>1
<1>3. /\ r \in Connections
      /\ r.sent = conn[c].sent /\ r.call = conn[c].call /\ r.reply = conn[c].reply
      /\ r.got = n /\ r.handler = "closed"
  BY <1>1, <1>2 DEF Connections
<1>4. conn' = [conn EXCEPT ![c] = r]
  BY <1>1 DEF TypeOK
<1>5. done' \in BOOLEAN /\ (done => done') /\ ~(done' /\ ~done)
  BY <1>1 DEF TypeOK
<1> HIDE DEF r
<1>6. QED
  BY <1>1, <1>3, <1>4, <1>5, HandlerKeepsInv

LEMMA RaisesInv ==
  ASSUME IInv, NEW c \in Calls, conn[c].handler = "reading", HandlerRaises(c), UNCHANGED caller,
         damaged' \in 0 .. MaxDamage, mistaken' \in BOOLEAN, mistaken => mistaken'
  PROVE  IInv'
<1>1. conn[c].sent \in Nat /\ conn[c].sent <= conn[c].sent
  BY Reading
<1>2. clientError' \in BOOLEAN /\ UNCHANGED done
  BY DEF HandlerRaises
<1>3. conn' = [conn EXCEPT ![c].got = conn[c].sent, ![c].handler = "closed"]
  BY DEF HandlerRaises
<1>4. QED
  BY <1>1, <1>2, <1>3, ClosedInv

\* Reading on: a session is kept when its frame is read, unless the frame is
\* refused.
LEMMA ReadsOnInv ==
  ASSUME IInv, NEW c \in Calls, FrameArrives(c),
         NEW kept \in SUBSET (0 .. Fin), NEW reply \in {"none", "NACK"},
         conn' = [conn EXCEPT ![c] = [conn[c] EXCEPT !.got = conn[c].got + 1, !.kept = kept,
                                                     !.reply = reply]],
         UNCHANGED shared, UNCHANGED caller,
         damaged' \in 0 .. MaxDamage, mistaken' \in BOOLEAN, mistaken => mistaken',
         conn[c].kept \subseteq kept, conn[c].reply # "none" => reply = conn[c].reply,
         ~mistaken' /\ reply # "NACK" /\ conn[c].got \in Sessions => conn[c].got \in kept
  PROVE  IInv'
<1> DEFINE r == [conn[c] EXCEPT !.got = conn[c].got + 1, !.kept = kept, !.reply = reply]
<1>0. conn[c].handler = "reading" /\ conn[c].got < conn[c].sent
  BY DEF FrameArrives
<1>1. /\ conn[c] \in Connections /\ TypeOK
      /\ conn[c].sent \in Nat /\ conn[c].got \in Nat /\ N \in Nat
      /\ conn[c].sent <= N + 2
      /\ conn[c].call = "idle" => conn[c].sent = 0
      /\ ~mistaken /\ conn[c].reply # "NACK" =>
           \A k \in Sessions : k < conn[c].got => k \in conn[c].kept
      /\ conn[c].reply \in {"none", "NACK"}
  BY <1>0, Reading
<1>2. conn[c].got + 1 \in 0 .. N + 2 /\ conn[c].got + 1 <= conn[c].sent /\ conn[c].call # "idle"
  BY <1>0, <1>1
<1>3. /\ r \in Connections
      /\ r.sent = conn[c].sent /\ r.call = conn[c].call /\ r.reply = reply
      /\ r.got = conn[c].got + 1 /\ r.handler = "reading" /\ r.kept = kept
  BY <1>0, <1>1, <1>2 DEF Connections
<1>4. conn' = [conn EXCEPT ![c] = r]
  OBVIOUS
<1>5. /\ done' \in BOOLEAN /\ clientError' \in BOOLEAN
      /\ (done => done') /\ ~(done' /\ ~done)
  BY <1>1 DEF TypeOK, shared
<1>6. ~mistaken' /\ reply # "NACK" => \A k \in Sessions : k < conn[c].got + 1 => k \in kept
  <2>1. SUFFICES ASSUME ~mistaken', reply # "NACK", NEW k \in Sessions, k < conn[c].got + 1
                 PROVE  k \in kept
    OBVIOUS
  <2>2. k \in Nat
    BY DEF Sessions
  <2>3. k = conn[c].got \/ k < conn[c].got
    BY <1>1, <2>1, <2>2
  <2>4. conn[c].reply # "NACK" /\ ~mistaken
    BY <2>1
  <2>5. QED
    BY <1>1, <2>1, <2>3, <2>4
<1> HIDE DEF r
<1>7. /\ ~mistaken' /\ r.reply # "NACK" => \A k \in Sessions : k < r.got => k \in r.kept
      /\ r.reply # "ACK" /\ r.got <= r.sent
      /\ conn[c].reply # "none" => r.reply = conn[c].reply
  BY <1>2, <1>3, <1>6
<1>8. QED
  BY <1>2, <1>3, <1>4, <1>5, <1>7, HandlerKeepsInv

\* An ACK: rightly after HANDOVER_FIN, when all state frames were read.
LEMMA AcceptInv ==
  ASSUME IInv, NEW c \in Calls, FrameArrives(c), Accept(c), UNCHANGED caller,
         damaged' \in 0 .. MaxDamage, mistaken' \in BOOLEAN, mistaken => mistaken',
         ~mistaken' => conn[c].got = Fin
  PROVE  IInv'
<1> DEFINE r == [conn[c] EXCEPT !.got = conn[c].got + 1, !.handler = "closed",
                                !.reply = Respond(c, "ACK"), !.listed = Received]
<1>0. conn[c].handler = "reading" /\ conn[c].got < conn[c].sent
  BY DEF FrameArrives
<1>1. /\ conn[c] \in Connections /\ TypeOK
      /\ conn[c].sent \in Nat /\ conn[c].got \in Nat /\ N \in Nat
      /\ conn[c].sent <= N + 2
      /\ conn[c].call = "idle" => conn[c].sent = 0
      /\ ~mistaken /\ conn[c].reply # "NACK" =>
           \A k \in Sessions : k < conn[c].got => k \in conn[c].kept
      /\ conn[c].reply \in {"none", "NACK"}
  BY <1>0, Reading
<1>2. conn[c].got + 1 \in 0 .. N + 2 /\ conn[c].got + 1 <= conn[c].sent /\ conn[c].call # "idle"
  BY <1>0, <1>1
<1>3. Respond(c, "ACK") \in {"NACK", "ACK"}
  BY <1>1 DEF Respond
<1>4. \A d \in Calls : conn[d].kept \subseteq 0 .. Fin
  BY <1>1, ConnType
<1>5. Received \subseteq Calls \X (0 .. Fin)
  BY <1>4 DEF Received
<1>6. /\ r \in Connections
      /\ r.sent = conn[c].sent /\ r.call = conn[c].call /\ r.reply = Respond(c, "ACK")
      /\ r.got = conn[c].got + 1 /\ r.handler = "closed" /\ r.kept = conn[c].kept
      /\ r.listed = Received
  BY <1>1, <1>2, <1>3, <1>5 DEF Connections
<1>7. conn' = [conn EXCEPT ![c] = r]
  BY <1>1 DEF Accept, TypeOK
<1>8. done' = TRUE /\ clientError' \in BOOLEAN
  BY <1>1 DEF Accept, TypeOK
<1>9. conn[c].reply # "none" => r.reply = conn[c].reply
  BY <1>6 DEF Respond
<1>10. ASSUME ~mistaken' PROVE r.sent = N + 2 /\ r.reply # "none"
  BY <1>0, <1>1, <1>3, <1>6, <1>10 DEF Fin
<1>11. ASSUME ~mistaken', r.reply = "ACK"
       PROVE  Sessions \subseteq r.kept /\ \A k \in Sessions : <<c, k>> \in r.listed
  <2>1. conn[c].reply # "NACK" /\ ~mistaken
    BY <1>6, <1>11 DEF Respond
  <2>2. \A k \in Sessions : k < conn[c].got
    BY <1>1, <1>11 DEF Sessions, Fin
  <2>3. Sessions \subseteq conn[c].kept
    BY <1>1, <1>4, <2>1, <2>2
  <2>4. \A k \in Sessions : <<c, k>> \in Received
    BY <2>3 DEF Received
  <2>5. QED
    BY <1>6, <2>3, <2>4
<1> HIDE DEF r
<1>12. QED
  BY <1>1, <1>2, <1>6, <1>7, <1>8, <1>9, <1>10, <1>11, HandlerKeepsInv

LEMMA HandlerInv ==
  ASSUME IInv, NEW c \in Calls, HandlerStep(c)
  PROVE  IInv'
<1> USE DEF FrameArrives
<1>0. TypeOK /\ damaged \in 0 .. MaxDamage /\ mistaken \in BOOLEAN
  BY DEF IInv, TypeOK
<1>1. CASE ReceiveInit(c)
  <2>1. conn[c] \in Connections /\ conn[c].reply \in {"none", "NACK"} /\ conn[c].got = 0
    BY <1>1, Reading DEF ReceiveInit
  <2>2. conn[c].kept \in SUBSET (0 .. Fin) /\ conn[c].got \notin Sessions
    BY <2>1 DEF Connections, Sessions
  <2>3. conn' = [conn EXCEPT ![c] = [conn[c] EXCEPT !.got = conn[c].got + 1,
                                       !.kept = conn[c].kept, !.reply = conn[c].reply]]
    <3>1. conn[c].got + 1 = 1 /\ conn' = [conn EXCEPT ![c].got = 1]
      BY <1>1, <2>1 DEF ReceiveInit
    <3>2. [conn[c] EXCEPT !.got = 1]
            = [conn[c] EXCEPT !.got = 1, !.kept = conn[c].kept, !.reply = conn[c].reply]
      BY <2>1 DEF Connections
    <3>3. QED
      BY <1>0, <3>1, <3>2 DEF TypeOK
  <2>4. FrameArrives(c) /\ UNCHANGED <<shared, caller, harm>>
    BY <1>1 DEF ReceiveInit
  <2>5. QED
    BY <1>0, <2>1, <2>2, <2>3, <2>4, ReadsOnInv DEF harm
<1>2. CASE ReceiveState(c)
  <2> DEFINE kept == conn[c].kept \cup {conn[c].got}
  <2>1. conn[c] \in Connections /\ conn[c].reply \in {"none", "NACK"} /\ conn[c].got \in Sessions
    BY <1>2, Reading DEF ReceiveState
  <2>2. kept \in SUBSET (0 .. Fin) /\ conn[c].got \in kept /\ conn[c].kept \subseteq kept
    <3>1. N \in Nat /\ conn[c].kept \in SUBSET (0 .. Fin)
      BY <2>1, ReceiverAssumption DEF Connections
    <3>2. Sessions \subseteq 0 .. Fin
      BY <3>1 DEF Sessions, Fin
    <3>3. QED
      BY <2>1, <3>1, <3>2
  <2>3. conn' = [conn EXCEPT ![c] = [conn[c] EXCEPT !.got = conn[c].got + 1,
                                       !.kept = kept, !.reply = conn[c].reply]]
    BY <1>0, <1>2, <2>1 DEF ReceiveState, Connections, TypeOK
  <2>4. FrameArrives(c) /\ UNCHANGED <<shared, caller, harm>>
    BY <1>2 DEF ReceiveState
  <2> HIDE DEF kept
  <2>5. QED
    BY <1>0, <2>1, <2>2, <2>3, <2>4, ReadsOnInv DEF harm
<1>3. CASE ReceiveFin(c)
  <2>1. FrameArrives(c) /\ conn[c].got = Fin /\ UNCHANGED <<caller, harm>>
    BY <1>3 DEF ReceiveFin
  <2>2. CASE Accept(c)
    BY <1>0, <2>1, <2>2, AcceptInv DEF harm
  <2>3. CASE HandlerRaises(c)
    BY <1>0, <2>1, <2>3, RaisesInv DEF harm
  <2>4. QED
    BY <1>3, <2>2, <2>3 DEF ReceiveFin
<1>4. CASE RejectFrame(c)
  <2>1. FrameDamaged(c, "payload") /\ FrameArrives(c)
    BY <1>4 DEF RejectFrame, FrameDamaged
  <2>2. /\ UNCHANGED caller /\ damaged' \in 0 .. MaxDamage /\ mistaken' \in BOOLEAN
        /\ mistaken => mistaken'
    BY <1>0, <2>1, HarmType
  <2>3. CASE HandlerRaises(c)
    BY <2>1, <2>2, <2>3, RaisesInv
  <2>4. CASE /\ conn' = [conn EXCEPT ![c].got = @ + 1, ![c].reply = Respond(c, "NACK")]
             /\ UNCHANGED shared
    <3>1. conn[c] \in Connections /\ conn[c].reply \in {"none", "NACK"}
      BY <2>1, Reading
    <3>2. Respond(c, "NACK") = "NACK" /\ conn[c].kept \in SUBSET (0 .. Fin)
      BY <3>1 DEF Respond, Connections
    <3>3. conn' = [conn EXCEPT ![c] = [conn[c] EXCEPT !.got = conn[c].got + 1,
                                         !.kept = conn[c].kept, !.reply = "NACK"]]
      BY <1>0, <2>4, <3>1, <3>2 DEF Connections, TypeOK
    <3>4. QED
      BY <2>1, <2>2, <2>4, <3>1, <3>2, <3>3, ReadsOnInv
  <2>5. QED
    BY <1>4, <2>3, <2>4 DEF RejectFrame
<1>5. CASE FrameUnreadable(c)
  <2>1. FrameDamaged(c, "header") /\ FrameArrives(c) /\ HandlerRaises(c)
    BY <1>5 DEF FrameUnreadable, FrameDamaged
  <2>2. /\ UNCHANGED caller /\ damaged' \in 0 .. MaxDamage /\ mistaken' \in BOOLEAN
        /\ mistaken => mistaken'
    BY <1>0, <2>1, HarmType
  <2>3. QED
    BY <2>1, <2>2, RaisesInv
<1>6. CASE FrameMistaken(c)
  <2>1. FrameDamaged(c, "type") /\ FrameArrives(c)
    BY <1>6 DEF FrameMistaken, FrameDamaged
  <2>2. /\ UNCHANGED caller /\ damaged' \in 0 .. MaxDamage /\ mistaken' = TRUE
        /\ mistaken => mistaken'
    BY <1>0, <2>1, HarmType
  <2>3. CASE HandlerRaises(c)
    BY <2>1, <2>2, <2>3, RaisesInv
  <2>4. CASE Accept(c)
    BY <2>1, <2>2, <2>4, AcceptInv
  <2>5. CASE conn' = [conn EXCEPT ![c].got = @ + 1] /\ UNCHANGED shared
    <3>1. conn[c] \in Connections /\ conn[c].reply \in {"none", "NACK"}
      BY <2>1, Reading
    <3>2. conn[c].kept \in SUBSET (0 .. Fin)
      BY <3>1 DEF Connections
    <3>3. conn' = [conn EXCEPT ![c] = [conn[c] EXCEPT !.got = conn[c].got + 1,
                                         !.kept = conn[c].kept, !.reply = conn[c].reply]]
      BY <1>0, <2>5, <3>1 DEF Connections, TypeOK
    <3>4. QED
      BY <2>1, <2>2, <2>5, <3>1, <3>2, <3>3, ReadsOnInv
  <2>6. CASE /\ conn' = [conn EXCEPT ![c].got = @ + 1, ![c].kept = @ \cup {conn[c].got}]
             /\ UNCHANGED shared
    <3> DEFINE kept == conn[c].kept \cup {conn[c].got}
    <3>1. conn[c] \in Connections /\ conn[c].reply \in {"none", "NACK"}
      BY <2>1, Reading
    <3>2. kept \in SUBSET (0 .. Fin)
      BY <2>1, <3>1, Reading DEF Connections, Fin
    <3>3. conn' = [conn EXCEPT ![c] = [conn[c] EXCEPT !.got = conn[c].got + 1,
                                         !.kept = kept, !.reply = conn[c].reply]]
      BY <1>0, <2>6, <3>1 DEF Connections, TypeOK
    <3>4. conn[c].kept \subseteq kept
      OBVIOUS
    <3> HIDE DEF kept
    <3>5. QED
      BY <2>1, <2>2, <2>6, <3>1, <3>2, <3>3, <3>4, ReadsOnInv
  <2>7. QED
    BY <1>6, <2>3, <2>4, <2>5, <2>6 DEF FrameMistaken
<1>7. CASE EndOfStream(c)
  <2>1. /\ conn[c].handler = "reading"
        /\ conn' = [conn EXCEPT ![c].handler = "closed"]
        /\ UNCHANGED <<shared, caller, harm>>
    BY <1>7 DEF EndOfStream
  <2>2. conn[c] \in Connections /\ conn[c].got \in Nat /\ conn[c].got <= conn[c].sent
    BY <2>1, Reading
  <2>3. conn' = [conn EXCEPT ![c].got = conn[c].got, ![c].handler = "closed"]
    BY <1>0, <2>1, <2>2 DEF Connections, TypeOK
  <2>4. clientError' \in BOOLEAN
    BY <1>0, <2>1 DEF TypeOK, shared
  <2>5. QED
    BY <1>0, <2>1, <2>2, <2>3, <2>4, ClosedInv DEF shared, harm
<1>8. CASE ConnectionReset(c)
  <2>1. conn[c].handler = "reading" /\ HandlerRaises(c) /\ UNCHANGED <<caller, harm>>
    BY <1>8 DEF ConnectionReset
  <2>2. QED
    BY <1>0, <2>1, RaisesInv DEF harm
<1>9. QED
  BY <1>1, <1>2, <1>3, <1>4, <1>5, <1>6, <1>7, <1>8 DEF HandlerStep

------------------------------------------------------------------------------
(* Steps of the receiver.                                                  *)

\* Only the caller of receive_handover moves.
CallerMoves == UNCHANGED <<conn, shared, waits, harm>>

LEMMA CallerKeeps ==
  ASSUME IInv, CallerMoves
  PROVE  /\ \A c \in Calls : InOrder(c)' /\ Keeps(c)' /\ (Answered(c) => Answered(c)')
         /\ done' /\ ~mistaken' => \E c \in Calls : Answered(c)'
<1>1. conn' = conn /\ done' = done /\ mistaken' = mistaken
  BY DEF CallerMoves, shared, harm
<1>2. \A c \in Calls : InOrder(c) /\ Keeps(c)
  BY DEF IInv
<1>3. done /\ ~mistaken => \E c \in Calls : Answered(c)
  BY DEF IInv, Backed
<1>4. \A c \in Calls : InOrder(c)'
  BY <1>1, <1>2 DEF InOrder
<1>5. \A c \in Calls : Keeps(c)'
  BY <1>1, <1>2 DEF Keeps
<1>6. \A c \in Calls : Answered(c) => Answered(c)'
  BY <1>1 DEF Answered
<1>7. QED
  BY <1>1, <1>3, <1>4, <1>5, <1>6

LEMMA ReceivedType == TypeOK => Received \subseteq Calls \X (0 .. Fin)
<1>1. TypeOK => \A c \in Calls : conn[c].kept \subseteq 0 .. Fin
  BY ConnType
<1>2. QED
  BY <1>1 DEF Received

LEMMA ReceiverInv ==
  ASSUME IInv, ReceiverStep
  PROVE  IInv'
<1>0. /\ CallerMoves
      /\ receiver' \in {"raising", "returning", "raised", "returned"}
      /\ handed' \in {handed, {}, Received}
  BY DEF ReceiverStep, TimesOut, Wakes, Closes, CallerMoves
<1>1. TypeOK'
  <2>1. handed' \subseteq Calls \X (0 .. Fin)
    BY <1>0, ReceivedType DEF IInv, TypeOK
  <2>2. QED
    BY <1>0, <2>1 DEF IInv, TypeOK, CallerMoves, shared, harm
<1>2. receiver' = "returning" => done'
  BY DEF IInv, Backed, ReceiverStep, TimesOut, Wakes, Closes, shared
<1>3. Backed'
  BY <1>0, <1>2, CallerKeeps DEF Backed
<1>4. ReturnIsAnswered'
  <2>1. SUFFICES ASSUME receiver' = "returned", ~mistaken'
                 PROVE  \E c \in Calls :
                          /\ Answered(c)'
                          /\ conn'[c].reply = "ACK" => \A k \in Sessions : <<c, k>> \in handed'
    BY DEF ReturnIsAnswered, Answered
  <2>2. receiver = "returning" /\ handed' = Received /\ conn' = conn /\ ~mistaken
    BY <2>1 DEF ReceiverStep, TimesOut, Wakes, Closes, harm
  <2>3. PICK c \in Calls : Answered(c)
    BY <2>2 DEF IInv, Backed
  <2>4. conn[c].reply = "ACK" => \A k \in Sessions : <<c, k>> \in Received
    BY <2>2 DEF IInv, Keeps, Received
  <2>5. Answered(c)'
    BY <1>0, <2>3, CallerKeeps
  <2>6. QED
    BY <2>2, <2>4, <2>5
<1>5. QED
  BY <1>0, <1>1, <1>3, <1>4, CallerKeeps DEF IInv

LEMMA NextInv == IInv /\ [Next]_vars => IInv'
<1> SUFFICES ASSUME IInv, [Next]_vars PROVE IInv'
  OBVIOUS
<1>1. CASE Next
  <2>1. ASSUME NEW c \in Calls, SenderStep(c) \/ HandlerStep(c) \/ Hangs(c) \/ Disconnect(c)
                                \/ Vanish(c)
        PROVE  IInv'
    BY <2>1, SenderInv, HandlerInv
  <2>2. CASE ReceiverStep
    BY <2>2, ReceiverInv
  <2>3. QED
    BY <1>1, <2>1, <2>2 DEF Next
<1>2. CASE UNCHANGED vars
  <2>1. CallerMoves /\ receiver' = receiver /\ handed' = handed
    BY <1>2 DEF vars, CallerMoves, caller
  <2>2. TypeOK'
    BY <2>1 DEF IInv, TypeOK, CallerMoves, shared, harm
  <2>3. Backed'
    BY <2>1, CallerKeeps DEF IInv, Backed, CallerMoves, shared
  <2>4. ReturnIsAnswered'
    BY <2>1 DEF IInv, ReturnIsAnswered, CallerMoves, harm
  <2>5. QED
    BY <2>1, <2>2, <2>3, <2>4, CallerKeeps DEF IInv
<1>3. QED
  BY <1>1, <1>2

LEMMA Inductive == Spec => []IInv
  BY InitInv, NextInv, PTL DEF Spec

------------------------------------------------------------------------------
(* The results.                                                            *)

\* The calls, their connections and the caller keep their types.
THEOREM TypeCorrect == Spec => []TypeOK
<1>1. IInv => TypeOK
  BY DEF IInv
<1>2. QED
  BY <1>1, Inductive, PTL

\* send_handover returns only for a complete handover, as long as no frame is
\* mistaken for another.
THEOREM AckedIsComplete == Spec => []AckIsComplete
<1>1. IInv => AckIsComplete
  BY DEF IInv, Keeps, AckIsComplete
<1>2. QED
  BY <1>1, Inductive, PTL

\* receive_handover returns only behind an answered HANDOVER_FIN, with all that an
\* ACK listed.
THEOREM ReturnedIsAnswered == Spec => []ReturnIsAnswered
<1>1. IInv => ReturnIsAnswered
  BY DEF IInv
<1>2. QED
  BY <1>1, Inductive, PTL
==============================================================================
