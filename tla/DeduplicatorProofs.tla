------------------------- MODULE DeduplicatorProofs --------------------------
(***************************************************************************)
(* The ring buffer represents the last tokens accepted, and with it the    *)
(* deduplicator implements TokenLog, for every capacity.                   *)
(***************************************************************************)
EXTENDS Deduplicator, SequenceTheorems, TLAPS

------------------------------------------------------------------------------
(* Places in a ring.                                                       *)

LEMMA IndexIsPlace ==
  ASSUME NEW s \in Int
  PROVE  Index(s) \in Indices
  BY DeduplicatorAssumption DEF Index, Indices

LEMMA FirstRound ==
  ASSUME NEW i \in Indices
  PROVE  i % Capacity = i
  BY DeduplicatorAssumption DEF Indices

LEMMA NoLaterThanNumber ==
  ASSUME NEW s \in Nat
  PROVE  Index(s) <= s
  BY DeduplicatorAssumption DEF Index

\* A multiple of the capacity that is less than one apart from 0 is 0.
LEMMA NoSmallMultiple ==
  ASSUME NEW q \in Int, NEW c \in Nat, c > 0, -c < c * q, c * q < c
  PROVE  q = 0
<1>1. CASE q >= 1
  <2>1. c * q >= c
    BY <1>1
  <2>2. QED
    BY <2>1
<1>2. CASE q <= -1
  <2>1. c * q <= -c
    BY <1>2
  <2>2. QED
    BY <2>1
<1>3. QED
  BY <1>1, <1>2

\* Two numbers less than a round apart have places of their own.
LEMMA PlacesDiffer ==
  ASSUME NEW s \in Int, NEW t \in Int, Index(s) = Index(t), s - t < Capacity, t - s < Capacity
  PROVE  s = t
<1> DEFINE p == s \div Capacity
           q == t \div Capacity
<1>1. s % Capacity = s - Capacity * p /\ p \in Int
  BY DeduplicatorAssumption
<1>2. t % Capacity = t - Capacity * q /\ q \in Int
  BY DeduplicatorAssumption
<1>3. s % Capacity = t % Capacity
  BY DEF Index
<1> HIDE DEF p, q
<1>4. s - Capacity * p = t - Capacity * q
  BY <1>1, <1>2, <1>3
<1>5. s - t = Capacity * (p - q)
  <2>1. \A a, b, c, x, y \in Int : a - c * x = b - c * y => a - b = c * (x - y)
    OBVIOUS
  <2>2. Capacity \in Int
    BY DeduplicatorAssumption
  <2>3. QED
    BY <1>1, <1>2, <1>4, <2>1, <2>2
<1>6. p - q = 0
  BY <1>1, <1>2, <1>5, NoSmallMultiple, DeduplicatorAssumption
<1>7. QED
  BY <1>5, <1>6, DeduplicatorAssumption

\* A number has the place of the one a round before it.
LEMMA RoundLater ==
  ASSUME NEW s \in Int
  PROVE  Index(s + Capacity) = Index(s)
<1> DEFINE u == s + Capacity
           p == u \div Capacity
           q == s \div Capacity
           a == Index(u)
           b == Index(s)
<1>1. u \in Int /\ Capacity \in Nat /\ Capacity > 0
  BY DeduplicatorAssumption
<1>2. a = u - Capacity * p /\ p \in Int
  BY <1>1 DEF Index
<1>3. b = s - Capacity * q /\ q \in Int
  BY <1>1 DEF Index
<1>4. a \in 0 .. Capacity - 1 /\ b \in 0 .. Capacity - 1
  BY <1>1, IndexIsPlace DEF Indices
<1>5. u = s + Capacity
  OBVIOUS
<1> HIDE DEF p, q, a, b, u
<1>6. a - b = Capacity * (1 - p + q)
  <2>1. \A c, x, y, z \in Int : (z + c - c * x) - (z - c * y) = c * (1 - x + y)
    OBVIOUS
  <2>2. QED
    BY <1>1, <1>2, <1>3, <1>5, <2>1
<1>7. 1 - p + q = 0
  <2>1. -Capacity < a - b /\ a - b < Capacity
    BY <1>1, <1>4
  <2>2. QED
    BY <1>1, <1>2, <1>3, <1>6, <2>1, NoSmallMultiple
<1>8. a = b
  BY <1>1, <1>4, <1>6, <1>7
<1>9. QED
  BY <1>5, <1>8 DEF a, b

------------------------------------------------------------------------------
(* The ring holds the window.                                              *)

Typed ==
  /\ lastFlushed \in [Ids -> Int]
  /\ slots \in [Ids -> [Indices -> Tokens \cup {NoToken}]]
  /\ seqIds \in [Ids -> [Indices -> Int]]

\* What RingIsWindow says of place i of request r.
Place(r, i) ==
  \/ /\ seqIds[r][i] \in 0 .. lastFlushed[r] /\ seqIds[r][i] + Capacity > lastFlushed[r]
     /\ seqIds[r][i] % Capacity = i
     /\ slots[r][i] \in Tokens
  \/ /\ lastFlushed[r] < i
     /\ seqIds[r][i] = -1 /\ slots[r][i] = NoToken

IInv == Typed /\ RingIsWindow

LEMMA PlaceByPlace ==
  RingIsWindow <=> \A r \in Ids : /\ lastFlushed[r] \in Nat \cup {-1}
                                  /\ \A i \in Indices : Place(r, i)
  BY DEF RingIsWindow, Place

LEMMA InitWindow == Init => IInv
<1> SUFFICES ASSUME Init PROVE IInv
  OBVIOUS
<1>1. Typed
  BY DeduplicatorAssumption DEF Init, Typed, EmptySlots, EmptySeqIds, Indices
<1>2. ASSUME NEW r \in Ids PROVE lastFlushed[r] = -1 /\ \A i \in Indices : Place(r, i)
  BY <1>2, DeduplicatorAssumption DEF Init, Place, EmptySlots, EmptySeqIds, Indices
<1>3. QED
  BY <1>1, <1>2, PlaceByPlace DEF IInv

\* An accepted token takes the place of the one a round before it.
LEMMA AcceptWindow ==
  ASSUME IInv, NEW r \in Ids, NEW seq \in Int, NEW t \in Tokens, FilterAccept(r, seq, t)
  PROVE  IInv'
<1>1. Capacity \in Nat /\ Capacity > 0 /\ NoToken \notin Tokens
  BY DeduplicatorAssumption
<1>2. /\ seq = lastFlushed[r] + 1
      /\ slots' = [slots EXCEPT ![r] = [@ EXCEPT ![Index(seq)] = t]]
      /\ seqIds' = [seqIds EXCEPT ![r] = [@ EXCEPT ![Index(seq)] = seq]]
      /\ lastFlushed' = [lastFlushed EXCEPT ![r] = seq]
  BY DEF FilterAccept, Put
<1>3. Typed /\ seq \in Nat /\ Index(seq) \in Indices
  BY <1>2, IndexIsPlace DEF IInv, RingIsWindow
<1>4. Typed'
  BY <1>2, <1>3 DEF Typed
<1>5. ASSUME NEW q \in Ids, q # r
      PROVE  lastFlushed'[q] \in Nat \cup {-1} /\ \A i \in Indices : Place(q, i)'
  <2>1. /\ lastFlushed'[q] = lastFlushed[q]
        /\ slots'[q] = slots[q]
        /\ seqIds'[q] = seqIds[q]
    BY <1>2, <1>3, <1>5 DEF Typed
  <2>2. QED
    BY <1>5, <2>1, PlaceByPlace DEF IInv, Place
<1>6. lastFlushed'[r] = seq
  BY <1>2, <1>3 DEF Typed
<1>7. ASSUME NEW i \in Indices PROVE Place(r, i)'
  <2>1. CASE i = Index(seq)
    <3>1. seqIds'[r][i] = seq /\ slots'[r][i] = t
      BY <1>2, <1>3, <2>1 DEF Typed
    <3>2. seq % Capacity = i
      BY <2>1 DEF Index
    <3>3. QED
      BY <1>1, <1>3, <1>6, <3>1, <3>2 DEF Place
  <2>2. CASE i # Index(seq)
    <3>1. seqIds'[r][i] = seqIds[r][i] /\ slots'[r][i] = slots[r][i]
      BY <1>2, <1>3, <1>7, <2>2 DEF Typed
    <3>2. seqIds[r][i] \in Int
      BY <1>3, <1>7 DEF Typed
    <3>3. Place(r, i)
      BY <1>7, PlaceByPlace DEF IInv
    <3>4. CASE seqIds[r][i] \in 0 .. lastFlushed[r]
      <4>1. /\ seqIds[r][i] + Capacity > lastFlushed[r]
            /\ seqIds[r][i] % Capacity = i
            /\ slots[r][i] \in Tokens
        BY <3>3, <3>4 DEF Place
      <4>2. seqIds[r][i] + Capacity # seq
        BY <2>2, <3>2, <4>1, RoundLater DEF Index
      <4>3. seqIds[r][i] + Capacity > seq /\ seqIds[r][i] \in 0 .. seq
        <5>1. lastFlushed[r] \in Int
          BY <1>3 DEF Typed
        <5>2. QED
          BY <1>1, <1>2, <1>3, <3>2, <3>4, <4>1, <4>2, <5>1
      <4>4. QED
        BY <1>6, <3>1, <4>1, <4>3 DEF Place
    <3>5. CASE seqIds[r][i] \notin 0 .. lastFlushed[r]
      <4>1. lastFlushed[r] < i /\ seqIds[r][i] = -1 /\ slots[r][i] = NoToken
        BY <3>3, <3>5 DEF Place
      <4>2. seq # i
        BY <1>7, <2>2, FirstRound DEF Index
      <4>3. lastFlushed[r] \in Int /\ i \in Int
        BY <1>1, <1>3, <1>7 DEF Typed, Indices
      <4>4. seq < i
        BY <1>2, <4>1, <4>2, <4>3
      <4>5. QED
        BY <1>6, <3>1, <4>1, <4>4 DEF Place
    <3>6. QED
      BY <3>4, <3>5
  <2>3. QED
    BY <2>1, <2>2
<1>8. \A q \in Ids : lastFlushed'[q] \in Nat \cup {-1} /\ \A i \in Indices : Place(q, i)'
  BY <1>3, <1>5, <1>6, <1>7
<1>9. RingIsWindow'
  BY <1>8 DEF RingIsWindow, Place
<1>10. QED
  BY <1>4, <1>9 DEF IInv

LEMMA ResetWindow ==
  ASSUME IInv, NEW r \in Ids, ResetRequest(r)
  PROVE  IInv'
<1>1. /\ lastFlushed' = [lastFlushed EXCEPT ![r] = -1]
      /\ slots' = [slots EXCEPT ![r] = EmptySlots]
      /\ seqIds' = [seqIds EXCEPT ![r] = EmptySeqIds]
  BY DEF ResetRequest
<1>2. Typed /\ Capacity \in Nat /\ Capacity > 0
  BY DeduplicatorAssumption DEF IInv
<1>3. /\ EmptySlots \in [Indices -> Tokens \cup {NoToken}]
      /\ EmptySeqIds \in [Indices -> Int]
  BY DEF EmptySlots, EmptySeqIds
<1>4. Typed'
  BY <1>1, <1>2, <1>3 DEF Typed
<1>5. ASSUME NEW q \in Ids, q # r
      PROVE  lastFlushed'[q] \in Nat \cup {-1} /\ \A i \in Indices : Place(q, i)'
  <2>1. /\ lastFlushed'[q] = lastFlushed[q]
        /\ slots'[q] = slots[q]
        /\ seqIds'[q] = seqIds[q]
    BY <1>1, <1>2, <1>5 DEF Typed
  <2>2. QED
    BY <1>5, <2>1, PlaceByPlace DEF IInv, Place
<1>6. lastFlushed'[r] = -1 /\ slots'[r] = EmptySlots /\ seqIds'[r] = EmptySeqIds
  BY <1>1, <1>2 DEF Typed
<1>7. ASSUME NEW i \in Indices PROVE Place(r, i)'
  BY <1>2, <1>6, <1>7 DEF Place, EmptySlots, EmptySeqIds, Indices
<1>8. \A q \in Ids : lastFlushed'[q] \in Nat \cup {-1} /\ \A i \in Indices : Place(q, i)'
  BY <1>5, <1>6, <1>7
<1>9. RingIsWindow'
  BY <1>8 DEF RingIsWindow, Place
<1>10. QED
  BY <1>4, <1>9 DEF IInv

LEMMA NextWindow == IInv /\ [Next]_vars => IInv'
<1> SUFFICES ASSUME IInv, [Next]_vars PROVE IInv'
  OBVIOUS
<1>1. CASE UNCHANGED <<lastFlushed, slots, seqIds>>
  BY <1>1 DEF IInv, Typed, RingIsWindow
<1>2. ASSUME NEW r \in Ids, NEW seq \in Numbers, FilterDuplicate(r, seq) PROVE IInv'
  BY <1>1, <1>2 DEF FilterDuplicate
<1>3. ASSUME NEW r \in Ids, NEW seq \in Numbers, FilterGap(r, seq) PROVE IInv'
  BY <1>1, <1>3 DEF FilterGap
<1>4. ASSUME NEW r \in Ids, NEW seq \in Numbers, NEW t \in Tokens, FilterAccept(r, seq, t)
      PROVE  IInv'
  BY <1>4, AcceptWindow, DeduplicatorAssumption
<1>5. ASSUME NEW r \in Ids, NEW first \in Numbers, NEW last \in Numbers,
             GetSlice(r, first, last)
      PROVE  IInv'
  BY <1>1, <1>5 DEF GetSlice
<1>6. ASSUME NEW r \in Ids, ResetRequest(r) PROVE IInv'
  BY <1>6, ResetWindow
<1>7. CASE UNCHANGED vars
  BY <1>1, <1>7 DEF vars
<1>8. QED
  BY <1>2, <1>3, <1>4, <1>5, <1>6, <1>7 DEF Next

\* Whatever calls are made, the ring of a request holds the last tokens accepted
\* of it, at the places put gives them, and nothing of an earlier request.
THEOREM WindowKept == Spec => []RingIsWindow
<1>1. Init => IInv
  BY InitWindow
<1>2. IInv /\ [Next]_vars => IInv'
  BY NextWindow
<1>3. IInv => RingIsWindow
  BY DEF IInv
<1>4. QED
  BY <1>1, <1>2, <1>3, PTL DEF Spec

------------------------------------------------------------------------------
(* The deduplicator implements the log.                                    *)

\* The numbers a ring holds of a request.
Oldest(r) == lastFlushed[r] - Held(r) + 1

LEMMA HeldType ==
  ASSUME IInv, NEW r \in Ids
  PROVE  /\ lastFlushed[r] \in Int /\ lastFlushed[r] >= -1
         /\ Held(r) \in Nat /\ Held(r) <= Capacity
         /\ Oldest(r) \in Nat
  BY DeduplicatorAssumption DEF IInv, RingIsWindow, Held, Oldest

\* A number in the window is found at its place.
LEMMA InWindow ==
  ASSUME IInv, NEW r \in Ids, NEW s \in Int, Oldest(r) <= s, s <= lastFlushed[r]
  PROVE  seqIds[r][Index(s)] = s /\ slots[r][Index(s)] \in Tokens
<1> DEFINE i == Index(s)
           u == seqIds[r][i]
<1>1. i \in Indices /\ i \in Int /\ Capacity \in Nat
  BY IndexIsPlace, DeduplicatorAssumption DEF Indices
<1>2. s \in Nat /\ i <= s
  BY HeldType, NoLaterThanNumber
<1>3. Place(r, i)
  BY <1>1, PlaceByPlace DEF IInv
<1>4. lastFlushed[r] \in Int
  BY HeldType
<1>5. ~(lastFlushed[r] < i)
  BY <1>1, <1>2, <1>4
<1>6. /\ u \in 0 .. lastFlushed[r] /\ u + Capacity > lastFlushed[r]
      /\ u % Capacity = i /\ slots[r][i] \in Tokens
  BY <1>3, <1>5 DEF Place
<1>7. s + Capacity > lastFlushed[r]
  BY <1>1, <1>4, HeldType DEF Oldest
<1>8. u \in Int /\ Index(u) = Index(s)
  BY <1>6 DEF Index
<1> HIDE DEF u, i
<1>9. u - s < Capacity /\ s - u < Capacity
  BY <1>1, <1>4, <1>6, <1>7, <1>8
<1>10. u = s
  BY <1>8, <1>9, PlacesDiffer
<1>11. QED
  BY <1>6, <1>10 DEF u, i

\* get finds the numbers of the window and no others.
LEMMA GetFinds ==
  ASSUME IInv, NEW r \in Ids, NEW s \in Int
  PROVE  /\ Get(r, s) # NoToken <=> Oldest(r) <= s /\ s <= lastFlushed[r]
         /\ Get(r, s) # NoToken => Get(r, s) = slots[r][Index(s)] /\ Get(r, s) \in Tokens
<1>1. CASE Oldest(r) <= s /\ s <= lastFlushed[r]
  BY <1>1, InWindow, DeduplicatorAssumption DEF Get
<1>2. CASE ~(Oldest(r) <= s /\ s <= lastFlushed[r])
  <2>1. Index(s) \in Indices /\ Capacity \in Nat
    BY IndexIsPlace, DeduplicatorAssumption
  <2>2. Place(r, Index(s))
    BY <2>1, PlaceByPlace DEF IInv
  <2>3. lastFlushed[r] \in Int /\ lastFlushed[r] >= -1
    BY HeldType
  <2>4. ASSUME Get(r, s) # NoToken PROVE FALSE
    <3>1. seqIds[r][Index(s)] = s /\ slots[r][Index(s)] # NoToken
      BY <2>4 DEF Get
    <3>2. s \in 0 .. lastFlushed[r] /\ s + Capacity > lastFlushed[r]
      BY <2>2, <3>1 DEF Place
    <3>3. Oldest(r) <= s
      BY <2>1, <2>3, <3>2 DEF Oldest, Held
    <3>4. QED
      BY <1>2, <2>3, <3>2, <3>3
  <2>5. QED
    BY <1>2, <2>4
<1>3. QED
  BY <1>1, <1>2

LEMMA RecentIsQueue ==
  ASSUME IInv, NEW r \in Ids
  PROVE  /\ Recent[r] \in Seq(Tokens)
         /\ Len(Recent[r]) = Held(r)
         /\ \A k \in 1 .. Held(r) : Recent[r][k] = slots[r][Index(Oldest(r) + k - 1)]
<1>1. /\ lastFlushed[r] \in Int /\ Held(r) \in Nat /\ Oldest(r) \in Nat
      /\ Oldest(r) + Held(r) = lastFlushed[r] + 1
  BY HeldType DEF Oldest
<1>2. ASSUME NEW k \in 1 .. Held(r)
      PROVE  /\ slots[r][Index(Oldest(r) + k - 1)] \in Tokens
             /\ lastFlushed[r] - Held(r) + k = Oldest(r) + k - 1
  <2>1. lastFlushed[r] - Held(r) + k = Oldest(r) + k - 1
    BY <1>1, <1>2 DEF Oldest
  <2>2. Oldest(r) + k - 1 \in Int /\ Oldest(r) <= Oldest(r) + k - 1
        /\ Oldest(r) + k - 1 <= lastFlushed[r]
    BY <1>1, <1>2
  <2>3. QED
    BY <2>1, <2>2, InWindow
<1>3. Recent[r] = [k \in 1 .. Held(r) |-> slots[r][Index(lastFlushed[r] - Held(r) + k)]]
  BY DEF Recent
<1>4. Recent[r] \in [1 .. Held(r) -> Tokens]
  BY <1>2, <1>3
<1>5. Recent[r] \in Seq(Tokens)
  BY <1>1, <1>4, SeqDef
<1>6. Len(Recent[r]) = Held(r)
  BY <1>1, <1>4, <1>5
<1>7. QED
  BY <1>2, <1>3, <1>5, <1>6

\* Both, as a state predicate that can be said of the next state.
Queue ==
  \A r \in Ids :
    /\ Held(r) \in Nat /\ Held(r) <= Capacity
    /\ Recent[r] \in Seq(Tokens)
    /\ Len(Recent[r]) = Held(r)
    /\ \A k \in 1 .. Held(r) : Recent[r][k] = slots[r][Index(Oldest(r) + k - 1)]

LEMMA QueueNow == IInv => Queue
  BY HeldType, RecentIsQueue DEF Queue

LEMMA QueueNext == IInv' => Queue'
  BY QueueNow, PTL

LEMMA AcceptImplements ==
  ASSUME IInv, NEW r \in Ids, NEW seq \in Int, NEW t \in Tokens, FilterAccept(r, seq, t)
  PROVE  Log!Accept(r, t)
<1>1. Capacity \in Nat /\ Capacity > 0
  BY DeduplicatorAssumption
<1>2. /\ seq = lastFlushed[r] + 1
      /\ slots' = [slots EXCEPT ![r] = [@ EXCEPT ![Index(seq)] = t]]
      /\ lastFlushed' = [lastFlushed EXCEPT ![r] = seq]
  BY DEF FilterAccept, Put
<1>3. Typed /\ Index(seq) \in Indices
  BY IndexIsPlace DEF IInv
<1>4. IInv'
  BY AcceptWindow
<1>5. Count' = [Count EXCEPT ![r] = @ + 1]
  BY <1>2, <1>3 DEF Count, Typed
<1>6. ASSUME NEW q \in Ids, q # r PROVE Recent'[q] = Recent[q]
  <2>1. lastFlushed'[q] = lastFlushed[q] /\ slots'[q] = slots[q]
    BY <1>2, <1>3, <1>6 DEF Typed
  <2>2. Held(q)' = Held(q)
    BY <2>1 DEF Held
  <2>3. QED
    BY <2>1, <2>2 DEF Recent
<1>7. /\ lastFlushed'[r] = lastFlushed[r] + 1
      /\ lastFlushed[r] \in Int /\ lastFlushed[r] >= -1
      /\ slots'[r] = [slots[r] EXCEPT ![Index(seq)] = t]
      /\ slots[r] \in [Indices -> Tokens \cup {NoToken}]
  BY <1>2, <1>3, HeldType DEF Typed
<1>8. /\ Recent[r] \in Seq(Tokens) /\ Len(Recent[r]) = Held(r)
      /\ \A k \in 1 .. Held(r) : Recent[r][k] = slots[r][Index(Oldest(r) + k - 1)]
  BY RecentIsQueue
<1>9. /\ Recent'[r] \in Seq(Tokens) /\ Len(Recent'[r]) = Held(r)'
      /\ \A k \in 1 .. Held(r)' : Recent'[r][k] = slots'[r][Index(Oldest(r)' + k - 1)]
  BY <1>4, QueueNext DEF Queue
<1>10. ASSUME NEW s \in Int, Oldest(r)' <= s, s <= lastFlushed[r]
       PROVE  slots'[r][Index(s)] = slots[r][Index(s)]
  <2>1. Index(s) \in Indices
    BY IndexIsPlace
  <2>2. seq - s < Capacity /\ s - seq < Capacity /\ s # seq
    <3>1. Oldest(r)' = lastFlushed'[r] - Held(r)' + 1 /\ Held(r)' \in Nat /\ Held(r)' <= Capacity
      BY <1>4, QueueNext DEF Queue, Oldest
    <3>2. QED
      BY <1>1, <1>2, <1>7, <1>10, <3>1
  <2>3. Index(s) # Index(seq)
    BY <1>2, <1>7, <2>2, PlacesDiffer
  <2>4. QED
    BY <1>7, <2>1, <2>3
<1>11. slots'[r][Index(seq)] = t
  BY <1>3, <1>7
<1>12. Recent'[r] = Log!Push(Recent[r], t)
  <2> DEFINE pushed == Log!Push(Recent[r], t)
  <2>1. CASE Held(r) < Capacity
    <3>1. pushed = Append(Recent[r], t)
      BY <1>8, <2>1 DEF Log!Push
    <3>2. /\ Held(r) = lastFlushed[r] + 1 /\ Held(r)' = Held(r) + 1
          /\ Oldest(r) = 0 /\ Oldest(r)' = 0
      BY <1>1, <1>7, <2>1 DEF Held, Oldest
    <3>3. /\ pushed \in Seq(Tokens) /\ Len(pushed) = Held(r) + 1
          /\ \A k \in 1 .. Held(r) : pushed[k] = Recent[r][k]
          /\ pushed[Held(r) + 1] = t
      BY <1>8, <3>1, AppendProperties
    <3>4. ASSUME NEW k \in 1 .. Held(r) + 1 PROVE Recent'[r][k] = pushed[k]
      <4>1. Recent'[r][k] = slots'[r][Index(k - 1)]
        BY <1>9, <3>2, <3>4
      <4>2. CASE k = Held(r) + 1
        BY <1>2, <1>7, <1>11, <3>2, <3>3, <4>1, <4>2
      <4>3. CASE k # Held(r) + 1
        <5>1. k \in 1 .. Held(r) /\ k - 1 \in Int /\ 0 <= k - 1 /\ k - 1 <= lastFlushed[r]
          BY <1>7, <3>2, <3>4, <4>3
        <5>2. slots'[r][Index(k - 1)] = slots[r][Index(k - 1)]
          BY <1>10, <3>2, <5>1
        <5>3. Recent[r][k] = slots[r][Index(k - 1)]
          BY <1>8, <3>2, <5>1
        <5>4. QED
          BY <3>3, <4>1, <5>1, <5>2, <5>3
      <4>4. QED
        BY <4>2, <4>3
    <3> HIDE DEF pushed
    <3>5. QED
      BY <1>9, <3>2, <3>3, <3>4, SeqEqual DEF pushed
  <2>2. CASE ~(Held(r) < Capacity)
    <3>1. pushed = Append(Tail(Recent[r]), t)
      BY <1>8, <2>2 DEF Log!Push
    <3>2. /\ Held(r) = Capacity /\ Held(r)' = Capacity
          /\ Oldest(r)' = Oldest(r) + 1 /\ Oldest(r) \in Int
          /\ Oldest(r) + Capacity = lastFlushed[r] + 1
      BY <1>1, <1>7, <2>2 DEF Held, Oldest
    <3>3. /\ Tail(Recent[r]) \in Seq(Tokens) /\ Len(Tail(Recent[r])) = Capacity - 1
          /\ \A k \in 1 .. Capacity - 1 : Tail(Recent[r])[k] = Recent[r][k + 1]
      <4>1. Recent[r] # <<>>
        BY <1>1, <1>8, <3>2
      <4>2. QED
        BY <1>8, <3>2, <4>1, HeadTailProperties
    <3>4. /\ pushed \in Seq(Tokens) /\ Len(pushed) = Capacity
          /\ \A k \in 1 .. Capacity - 1 : pushed[k] = Recent[r][k + 1]
          /\ pushed[Capacity] = t
      BY <1>1, <3>1, <3>3, AppendProperties
    <3>5. ASSUME NEW k \in 1 .. Capacity PROVE Recent'[r][k] = pushed[k]
      <4>1. Recent'[r][k] = slots'[r][Index(Oldest(r) + k)]
        <5>1. Oldest(r)' + k - 1 = Oldest(r) + k
          BY <1>1, <3>2, <3>5
        <5>2. QED
          BY <1>9, <3>2, <3>5, <5>1
      <4>2. CASE k = Capacity
        BY <1>2, <1>7, <1>11, <3>2, <3>4, <4>1, <4>2
      <4>3. CASE k # Capacity
        <5>1. /\ k \in 1 .. Capacity - 1 /\ k + 1 \in 1 .. Capacity
              /\ Oldest(r) + k \in Int
              /\ Oldest(r)' <= Oldest(r) + k /\ Oldest(r) + k <= lastFlushed[r]
              /\ Oldest(r) + (k + 1) - 1 = Oldest(r) + k
          BY <1>1, <1>7, <3>2, <3>5, <4>3
        <5>2. slots'[r][Index(Oldest(r) + k)] = slots[r][Index(Oldest(r) + k)]
          BY <1>10, <5>1
        <5>3. Recent[r][k + 1] = slots[r][Index(Oldest(r) + k)]
          BY <1>8, <3>2, <5>1
        <5>4. QED
          BY <3>4, <4>1, <5>1, <5>2, <5>3
      <4>4. QED
        BY <4>2, <4>3
    <3> HIDE DEF pushed
    <3>6. Len(Recent'[r]) = Len(pushed) /\ \A k \in 1 .. Len(Recent'[r]) : Recent'[r][k] = pushed[k]
      BY <1>9, <3>2, <3>4, <3>5
    <3>7. Recent'[r] = pushed
      BY <1>9, <3>4, <3>6, SeqEqual
    <3>8. QED
      BY <3>7 DEF pushed
  <2>3. QED
    BY <2>1, <2>2
<1>13. Recent' = [Recent EXCEPT ![r] = Log!Push(@, t)]
  <2>1. Recent = [q \in Ids |-> Recent[q]] /\ Recent' = [q \in Ids |-> Recent'[q]]
    BY DEF Recent
  <2>2. QED
    BY <1>6, <1>12, <2>1
<1>14. answer' = Log!Says("accepted")
  BY DEF FilterAccept, Says, Log!Says
<1>15. QED
  BY <1>5, <1>13, <1>14 DEF Log!Accept

LEMMA ResetImplements ==
  ASSUME IInv, NEW r \in Ids, ResetRequest(r)
  PROVE  Log!Forget(r)
<1>1. /\ lastFlushed' = [lastFlushed EXCEPT ![r] = -1]
      /\ slots' = [slots EXCEPT ![r] = EmptySlots]
      /\ Typed
  BY DEF ResetRequest, IInv
<1>2. Count' = [Count EXCEPT ![r] = 0]
  <2>1. lastFlushed'[r] + 1 = 0 /\ \A q \in Ids \ {r} : lastFlushed'[q] = lastFlushed[q]
    BY <1>1 DEF Typed
  <2>2. QED
    BY <2>1 DEF Count
<1>3. ASSUME NEW q \in Ids, q # r PROVE Recent'[q] = Recent[q]
  <2>1. lastFlushed'[q] = lastFlushed[q] /\ slots'[q] = slots[q]
    BY <1>1, <1>3 DEF Typed
  <2>2. Held(q)' = Held(q)
    BY <2>1 DEF Held
  <2>3. QED
    BY <2>1, <2>2 DEF Recent
<1>4. Recent'[r] = <<>>
  <2>1. IInv'
    BY ResetWindow
  <2>2. Recent'[r] \in Seq(Tokens) /\ Len(Recent'[r]) = Held(r)'
    BY <2>1, QueueNext DEF Queue
  <2>3. lastFlushed'[r] = -1
    BY <1>1 DEF Typed
  <2>4. Held(r)' = 0
    BY <2>3, DeduplicatorAssumption DEF Held
  <2>5. QED
    BY <2>2, <2>4, EmptySeq
<1>5. Recent' = [Recent EXCEPT ![r] = <<>>]
  <2>1. Recent = [q \in Ids |-> Recent[q]] /\ Recent' = [q \in Ids |-> Recent'[q]]
    BY DEF Recent
  <2>2. QED
    BY <1>3, <1>4, <2>1
<1>6. QED
  BY <1>2, <1>5 DEF Log!Forget, ResetRequest, Says, Log!Says

LEMMA RefuseImplements ==
  ASSUME IInv, NEW r \in Ids, NEW seq \in Numbers,
         FilterDuplicate(r, seq) \/ FilterGap(r, seq)
  PROVE  Log!Refuse(r, seq)
<1>1. UNCHANGED <<lastFlushed, slots>> /\ seq \in Int /\ lastFlushed[r] \in Int
  BY HeldType, DeduplicatorAssumption DEF FilterDuplicate, FilterGap
<1>2. UNCHANGED <<Count, Recent>>
  BY <1>1 DEF Count, Recent, Held
<1>3. Count[r] = lastFlushed[r] + 1
  BY DEF Count
<1>4. seq # Count[r]
  BY <1>1, <1>3 DEF FilterDuplicate, FilterGap
<1>5. answer' = Says(IF seq < Count[r] THEN "duplicate" ELSE "gap")
  BY <1>1, <1>3 DEF FilterDuplicate, FilterGap
<1>6. QED
  BY <1>2, <1>4, <1>5 DEF Log!Refuse, Says, Log!Says

\* get_slice returns what the window holds of the range.
LEMMA SliceImplements ==
  ASSUME IInv, NEW r \in Ids, NEW first \in Int, NEW last \in Int, GetSlice(r, first, last)
  PROVE  Log!Recall(r, first, last)
<1> DEFINE span == IF first <= last THEN last - first + 1 ELSE 0
           final == IF last < Count[r] THEN last ELSE Count[r] - 1
           got(n) == [k \in 1 .. n |-> Get(r, first + k - 1)]
<1>1. PICK n \in 0 .. span :
        /\ \A k \in 1 .. n : Get(r, first + k - 1) # NoToken
        /\ first + n <= last => Get(r, first + n) = NoToken
        /\ answer' = [says |-> "slice", tokens |-> got(n)]
        /\ UNCHANGED <<lastFlushed, slots, seqIds>>
  BY DEF GetSlice
<1>2. UNCHANGED <<Count, Recent>>
  BY <1>1 DEF Count, Recent, Held
<1>3. /\ lastFlushed[r] \in Int /\ Held(r) \in Nat /\ Oldest(r) \in Nat
      /\ Count[r] = lastFlushed[r] + 1
      /\ Oldest(r) = Count[r] - Held(r)
  BY HeldType DEF Count, Oldest
<1>4. Recent[r] \in Seq(Tokens) /\ Len(Recent[r]) = Held(r)
  BY RecentIsQueue
<1>5. span \in Nat /\ final \in Int /\ n \in Nat /\ n <= span
  BY <1>1, <1>3
<1>6. CASE first < Oldest(r)
  <2>1. Get(r, first) = NoToken
    BY <1>3, <1>6, GetFinds
  <2>2. n = 0
    <3>1. CASE n >= 1
      <4>1. 1 \in 1 .. n /\ first + 1 - 1 = first
        BY <1>5, <3>1
      <4>2. QED
        BY <1>1, <2>1, <4>1
    <3>2. QED
      BY <1>5, <3>1
  <2>3. got(n) = <<>>
    BY <2>2
  <2>4. QED
    BY <1>1, <1>2, <1>3, <1>4, <1>6, <2>3 DEF Log!Recall
<1>7. CASE first >= Oldest(r)
  <2>1. n = IF first <= final THEN final - first + 1 ELSE 0
    <3>1. CASE first > final
      <4>1. CASE first > last
        BY <1>3, <1>5, <3>1, <4>1
      <4>2. CASE first <= last
        <5>1. final = lastFlushed[r]
          BY <1>3, <3>1, <4>2
        <5>2. Get(r, first) = NoToken
          BY <1>3, <3>1, <5>1, GetFinds
        <5>3. CASE n >= 1
          <6>1. 1 \in 1 .. n /\ first + 1 - 1 = first
            BY <1>5, <5>3
          <6>2. QED
            BY <1>1, <5>2, <6>1
        <5>4. QED
          BY <1>5, <3>1, <5>3
      <4>3. QED
        BY <4>1, <4>2
    <3>2. CASE first <= final
      <4>1. final <= last /\ final <= lastFlushed[r]
        BY <1>3
      <4>2. ~(n < final - first + 1)
        <5>1. ASSUME n < final - first + 1 PROVE FALSE
          <6>1. /\ first + n \in Int /\ first + n <= last
                /\ Oldest(r) <= first + n /\ first + n <= lastFlushed[r]
            BY <1>3, <1>5, <1>7, <4>1, <5>1
          <6>2. QED
            BY <1>1, <6>1, GetFinds
        <5>2. QED
          BY <5>1
      <4>3. ~(n > final - first + 1)
        <5>1. ASSUME n > final - first + 1 PROVE FALSE
          <6>1. /\ n \in 1 .. n /\ n >= 1
                /\ first + n - 1 \in Int /\ first + n - 1 > final /\ first + n - 1 <= last
            BY <1>3, <1>5, <3>2, <4>1, <5>1
          <6>2. final = lastFlushed[r]
            BY <1>3, <1>5, <6>1
          <6>3. Get(r, first + n - 1) = NoToken
            BY <1>3, <6>1, <6>2, GetFinds
          <6>4. QED
            BY <1>1, <6>1, <6>3
        <5>2. QED
          BY <5>1
      <4>4. QED
        BY <1>5, <3>2, <4>2, <4>3
    <3>3. QED
      BY <1>5, <3>1, <3>2
  <2> DEFINE a == first - Oldest(r) + 1
             b == final - Oldest(r) + 1
             sub == SubSeq(Recent[r], a, b)
  <2>2. a \in Int /\ b \in Int /\ a >= 1 /\ b <= Held(r)
    BY <1>3, <1>5, <1>7
  <2>3. \A k \in a .. b : k \in 1 .. Len(Recent[r])
    BY <1>3, <1>4, <2>2
  <2>4. \A k \in a .. b : Recent[r][k] \in Tokens
    BY <1>4, <2>3, ElementOfSeq
  <2>5. /\ sub \in Seq(Tokens)
        /\ Len(sub) = IF a <= b THEN b - a + 1 ELSE 0
        /\ \A k \in 1 .. b - a + 1 : sub[k] = Recent[r][a + k - 1]
    <3> HIDE DEF a, b
    <3>1. QED
      BY <2>2, <2>4, SubSeqProperties
  <2>6. Len(sub) = n
    BY <1>3, <1>5, <2>1, <2>5
  <2>7. \A k \in 1 .. n : Get(r, first + k - 1) \in Tokens
    <3>1. SUFFICES ASSUME NEW k \in 1 .. n PROVE Get(r, first + k - 1) \in Tokens
      OBVIOUS
    <3>2. first + k - 1 \in Int
      BY <1>5
    <3>3. QED
      BY <1>1, <3>2, GetFinds
  <2>8. got(n) \in [1 .. n -> Tokens]
    BY <2>7
  <2>9. got(n) \in Seq(Tokens)
    BY <1>5, <2>8, SeqDef
  <2>10. Len(got(n)) = n
    BY <1>5, <2>8, <2>9
  <2>11. ASSUME NEW k \in 1 .. n PROVE got(n)[k] = sub[k]
    <3>1. got(n)[k] = Get(r, first + k - 1) /\ first + k - 1 \in Int
      BY <1>5, <2>11
    <3>2. got(n)[k] = slots[r][Index(first + k - 1)]
      BY <1>1, <2>11, <3>1, GetFinds
    <3>3. k \in 1 .. b - a + 1 /\ a + k - 1 \in 1 .. Held(r)
      BY <1>3, <1>5, <1>7, <2>1, <2>2, <2>11
    <3>4. sub[k] = Recent[r][a + k - 1]
      BY <2>5, <3>3
    <3>5. Recent[r][a + k - 1] = slots[r][Index(Oldest(r) + (a + k - 1) - 1)]
      BY <3>3, RecentIsQueue
    <3>6. Oldest(r) + (a + k - 1) - 1 = first + k - 1
      BY <1>3, <1>5, <2>11
    <3>7. QED
      BY <3>2, <3>4, <3>5, <3>6
  <2> HIDE DEF got, sub
  <2>12. got(n) = sub
    BY <2>5, <2>6, <2>9, <2>10, <2>11, SeqEqual
  <2>13. answer' = [says |-> "slice", tokens |-> SubSeq(Recent[r], a, b)]
    BY <1>1, <2>12 DEF sub
  <2>14. Count[r] - Len(Recent[r]) = Oldest(r) /\ ~(first < Oldest(r))
    BY <1>3, <1>4, <1>7
  <2>15. answer' = [says |-> "slice",
                    tokens |-> IF first < Count[r] - Len(Recent[r]) THEN <<>>
                               ELSE SubSeq(Recent[r], first - (Count[r] - Len(Recent[r])) + 1,
                                                      final - (Count[r] - Len(Recent[r])) + 1)]
    BY <2>13, <2>14
  <2>16. QED
    BY <1>2, <2>15 DEF Log!Recall
<1>8. QED
  BY <1>3, <1>6, <1>7

LEMMA InitImplements == Init => Log!Init
<1> SUFFICES ASSUME Init PROVE Log!Init
  OBVIOUS
<1>1. Count = [r \in Ids |-> 0] /\ answer = Log!Says("none")
  BY DEF Init, Count, Says, Log!Says
<1>2. ASSUME NEW r \in Ids PROVE Recent[r] = <<>>
  <2>1. Recent[r] \in Seq(Tokens) /\ Len(Recent[r]) = Held(r)
    BY InitWindow, RecentIsQueue
  <2>2. Held(r) = 0
    BY DeduplicatorAssumption DEF Init, Held
  <2>3. QED
    BY <2>1, <2>2, EmptySeq
<1>3. Recent = [r \in Ids |-> Recent[r]]
  BY DEF Recent
<1>4. Recent = [r \in Ids |-> <<>>]
  BY <1>2, <1>3
<1>5. QED
  BY <1>1, <1>4 DEF Log!Init

LEMMA StepImplements == IInv /\ [Next]_vars => [Log!Next]_(Log!vars)
<1> SUFFICES ASSUME IInv, [Next]_vars PROVE [Log!Next]_(Log!vars)
  OBVIOUS
<1>1. CASE UNCHANGED vars
  BY <1>1 DEF vars, Log!vars, Count, Recent, Held
<1>2. ASSUME NEW r \in Ids, NEW seq \in Numbers, FilterDuplicate(r, seq) \/ FilterGap(r, seq)
      PROVE  Log!Next
  BY <1>2, RefuseImplements DEF Log!Next
<1>3. ASSUME NEW r \in Ids, NEW seq \in Numbers, NEW t \in Tokens, FilterAccept(r, seq, t)
      PROVE  Log!Next
  <2>1. Log!Accept(r, t)
    BY <1>3, AcceptImplements, DeduplicatorAssumption
  <2>2. QED
    BY <2>1 DEF Log!Next
<1>4. ASSUME NEW r \in Ids, NEW first \in Numbers, NEW last \in Numbers,
             GetSlice(r, first, last)
      PROVE  Log!Next
  <2>1. Log!Recall(r, first, last)
    BY <1>4, SliceImplements, DeduplicatorAssumption
  <2>2. QED
    BY <2>1 DEF Log!Next
<1>5. ASSUME NEW r \in Ids, ResetRequest(r) PROVE Log!Next
  BY <1>5, ResetImplements DEF Log!Next
<1>6. QED
  BY <1>1, <1>2, <1>3, <1>4, <1>5 DEF Next

\* For every capacity, alphabet of tokens and set of requests: what filter_chunk
\* and get_slice answer is what the sequence of accepted tokens gives, behind any
\* number of wraps of the ring and of resets.
THEOREM RingImplementsLog == Spec => ImplementsLog
<1>1. Init => Log!Init
  BY InitImplements
<1>2. IInv /\ [Next]_vars => [Log!Next]_(Log!vars)
  BY StepImplements
<1>3. Init => IInv
  BY InitWindow
<1>4. IInv /\ [Next]_vars => IInv'
  BY NextWindow
<1>5. QED
  BY <1>1, <1>2, <1>3, <1>4, PTL DEF Spec, ImplementsLog, Log!Spec
==============================================================================
