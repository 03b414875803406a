---------------------------- MODULE Deduplicator -----------------------------
(***************************************************************************)
(* TokenDeduplicator with the RingBuffer of each request.  A token's place *)
(* in the ring is its number modulo the capacity, and the number stored    *)
(* beside it tells whether it is still the one asked for.  A request that  *)
(* has no ring yet is modelled with an empty one: the first accepted chunk *)
(* makes it, and nothing reads it before.                                  *)
(*                                                                         *)
(* An operator marked "Mutant" is a plausible bug of the one below it; no  *)
(* specification uses it.                                                  *)
(***************************************************************************)
EXTENDS Integers, Sequences

CONSTANTS
  Ids,          \* request ids
  Tokens,       \* what a chunk may carry
  NoToken,      \* None
  Numbers,      \* sequence numbers a caller may use
  Capacity      \* buffer_capacity

ASSUME DeduplicatorAssumption ==
  /\ NoToken \notin Tokens
  /\ Numbers \subseteq Int
  /\ Capacity \in Nat \ {0}

VARIABLES
  lastFlushed,  \* _last_flushed, -1 where there is no entry
  slots,        \* _slots of each request's ring
  seqIds,       \* _seq_ids of each request's ring
  answer        \* what the last call returned

vars == <<lastFlushed, slots, seqIds, answer>>

Indices == 0 .. Capacity - 1

\* A new ring, or one that was cleared.
EmptySlots == [i \in Indices |-> NoToken]
EmptySeqIds == [i \in Indices |-> -1]

Says(word) == [says |-> word, tokens |-> <<>>]

Init ==
  /\ lastFlushed = [r \in Ids |-> -1]
  /\ slots = [r \in Ids |-> EmptySlots]
  /\ seqIds = [r \in Ids |-> EmptySeqIds]
  /\ answer = Says("none")

------------------------------------------------------------------------------
(* RingBuffer.                                                             *)

\* Mutant: one place is never used.
IndexShort(seq) == seq % (Capacity - 1)

Index(seq) == seq % Capacity

Put(r, seq, t) ==
  /\ slots' = [slots EXCEPT ![r] = [@ EXCEPT ![Index(seq)] = t]]
  /\ seqIds' = [seqIds EXCEPT ![r] = [@ EXCEPT ![Index(seq)] = seq]]

\* Mutant: whatever is at the place is returned.
GetAny(r, seq) == slots[r][Index(seq)]

\* The token of this number, unless another has overwritten it.
Get(r, seq) == IF seqIds[r][Index(seq)] = seq THEN slots[r][Index(seq)] ELSE NoToken

\* get_slice takes the tokens from first on, up to last or the first one missing.
GetSlice(r, first, last) ==
  \E n \in 0 .. (IF first <= last THEN last - first + 1 ELSE 0) :
    /\ \A k \in 1 .. n : Get(r, first + k - 1) # NoToken
    /\ first + n <= last => Get(r, first + n) = NoToken
    /\ answer' = [says |-> "slice", tokens |-> [k \in 1 .. n |-> Get(r, first + k - 1)]]
    /\ UNCHANGED <<lastFlushed, slots, seqIds>>

------------------------------------------------------------------------------
(* TokenDeduplicator.                                                      *)

FilterDuplicate(r, seq) ==
  /\ seq <= lastFlushed[r]
  /\ answer' = Says("duplicate")
  /\ UNCHANGED <<lastFlushed, slots, seqIds>>

\* TokenSequenceGapError is raised.
FilterGap(r, seq) ==
  /\ seq > lastFlushed[r] + 1
  /\ answer' = Says("gap")
  /\ UNCHANGED <<lastFlushed, slots, seqIds>>

\* The chunk is stored and recorded as flushed.
FilterAccept(r, seq, t) ==
  /\ seq = lastFlushed[r] + 1
  /\ Put(r, seq, t)
  /\ lastFlushed' = [lastFlushed EXCEPT ![r] = seq]
  /\ answer' = Says("accepted")

ResetRequest(r) ==
  /\ lastFlushed' = [lastFlushed EXCEPT ![r] = -1]
  /\ slots' = [slots EXCEPT ![r] = EmptySlots]
  /\ seqIds' = [seqIds EXCEPT ![r] = EmptySeqIds]
  /\ answer' = Says("none")

Next ==
  \E r \in Ids :
    \/ \E seq \in Numbers :
         \/ FilterDuplicate(r, seq) \/ FilterGap(r, seq)
         \/ \E t \in Tokens : FilterAccept(r, seq, t)
    \/ \E first, last \in Numbers : GetSlice(r, first, last)
    \/ ResetRequest(r)

Spec == Init /\ [][Next]_vars

------------------------------------------------------------------------------
(* Properties.                                                             *)

\* The ring of a request holds the last tokens accepted and nothing else, in
\* particular nothing of an earlier request with its id: each place has the
\* number of the newest token that belongs there.
RingIsWindow ==
  \A r \in Ids :
    /\ lastFlushed[r] \in Nat \cup {-1}
    /\ \A i \in Indices :
         \/ /\ seqIds[r][i] \in 0 .. lastFlushed[r] /\ seqIds[r][i] + Capacity > lastFlushed[r]
            /\ seqIds[r][i] % Capacity = i
            /\ slots[r][i] \in Tokens
         \/ /\ lastFlushed[r] < i
            /\ seqIds[r][i] = -1 /\ slots[r][i] = NoToken

\* Number of tokens a ring holds.
Held(r) == IF lastFlushed[r] < Capacity THEN lastFlushed[r] + 1 ELSE Capacity

Count == [r \in Ids |-> lastFlushed[r] + 1]
Recent == [r \in Ids |->
            [k \in 1 .. Held(r) |-> slots[r][Index(lastFlushed[r] - Held(r) + k)]]]

Log == INSTANCE TokenLog WITH count <- Count, recent <- Recent

\* The deduplicator with its rings does what TokenLog promises: every answer of
\* filter_chunk and get_slice, behind any number of wraps, resets and reused ids,
\* is the one that the sequence of accepted tokens gives.
ImplementsLog == Log!Spec
==============================================================================
