------------------------------ MODULE StopFilter -----------------------------
(***************************************************************************)
(* SlidingWindowStopFilter of the TGI hook: text arrives in pieces, and    *)
(* neither a stop word nor the beginning of one may reach the client, also *)
(* when it is spread over pieces.                                          *)
(*                                                                         *)
(* A text is a sequence of characters.  fed and out are histories: all     *)
(* that was fed, and all that was released.                                *)
(*                                                                         *)
(* An operator marked "Mutant" is a plausible bug of the one below it; no  *)
(* specification uses it.                                                  *)
(***************************************************************************)
EXTENDS Integers, Sequences

CONSTANTS
  Chars,        \* the alphabet
  Pieces,       \* texts that one line of the engine's reply may carry
  StopLists,    \* lists of stop words that a request may come with
  MaxText       \* bound on the text fed to one filter

Text == Seq(Chars)

ASSUME FilterAssumption ==
  /\ Pieces \subseteq Text \ {<<>>}
  /\ StopLists \subseteq Seq(Text \ {<<>>})
  /\ MaxText \in Nat

VARIABLES
  stops,        \* stop_sequences
  buffer,       \* _buffer: text held back
  matched,      \* matched_stop
  flushed,      \* flush_final was called
  fed,          \* text fed so far
  out           \* text released so far

filterVars == <<stops, buffer, matched, flushed, fed, out>>

StopWords == {stops[n] : n \in 1..Len(stops)}

FilterInit ==
  /\ stops \in StopLists
  /\ buffer = <<>> /\ matched = FALSE /\ flushed = FALSE
  /\ fed = <<>> /\ out = <<>>

------------------------------------------------------------------------------
(* Words in texts.                                                         *)

\* The word w stands in the text t from position i on.
StandsAt(w, t, i) ==
  /\ 1 <= i /\ i - 1 + Len(w) <= Len(t)
  /\ \A k \in 1..Len(w) : t[i - 1 + k] = w[k]

Before(t, i) == SubSeq(t, 1, i - 1)
From(t, i) == SubSeq(t, i, Len(t))

\* The text from position i on is the beginning of a stop word.
MayBecomeStop(t, i) ==
  \E w \in StopWords :
    /\ Len(t) - i + 1 <= Len(w)
    /\ \A k \in 1..(Len(t) - i + 1) : t[i - 1 + k] = w[k]

Occurrences(w, t) == {i \in 1..Len(t) : StandsAt(w, t, i)}
IsFirst(i, S) == i \in S /\ \A j \in S : i <= j

------------------------------------------------------------------------------
(* The filter.                                                             *)

\* Mutant: what is held back is forgotten when the next piece arrives.
JoinForgetful(piece) == piece

\* The candidate: what was held back, and the new piece.
Join(piece) == buffer \o piece

\* The stop word that ends the text at position i is the first of the list that
\* occurs, which need not be the one that occurs first.
EndsAt(t, n, i) ==
  /\ IsFirst(n, {m \in 1..Len(stops) : Occurrences(stops[m], t) # {}})
  /\ IsFirst(i, Occurrences(stops[n], t))

\* Mutant: the stop word itself is released as well.
EndsBehind(t) ==
  \E n \in 1..Len(stops), i \in 1..Len(t) :
    /\ EndsAt(t, n, i)
    /\ out' = out \o Before(t, i + Len(stops[n]))
    /\ buffer' = <<>>
    /\ matched' = TRUE

Ends(t) ==
  \E n \in 1..Len(stops), i \in 1..Len(t) :
    /\ EndsAt(t, n, i)
    /\ out' = out \o Before(t, i)
    /\ buffer' = <<>>
    /\ matched' = TRUE

Goes(t) == \A w \in StopWords : Occurrences(w, t) = {}

\* Positions from which the candidate has to be held back: the whole candidate
\* is tried first, then its suffixes from the longest on.
HoldPoints(t) == {i \in 1..Len(t) : MayBecomeStop(t, i)}

\* Mutant: a candidate that only ends with the beginning of a stop word is
\* released.
ReleasesUnlessWhole(t) ==
  /\ Goes(t)
  /\ IF 1 \in HoldPoints(t) THEN out' = out /\ buffer' = t
                            ELSE out' = out \o t /\ buffer' = <<>>
  /\ UNCHANGED matched

\* Without a stop word everything before the first hold point is released.
Releases(t) ==
  /\ Goes(t)
  /\ \/ HoldPoints(t) = {} /\ out' = out \o t /\ buffer' = <<>>
     \/ \E i \in 1..Len(t) :
          IsFirst(i, HoldPoints(t)) /\ out' = out \o Before(t, i) /\ buffer' = From(t, i)
  /\ UNCHANGED matched

Feed(piece) ==
  /\ ~flushed
  /\ Len(fed) + Len(piece) <= MaxText
  /\ fed' = fed \o piece
  /\ \/ matched /\ UNCHANGED <<buffer, matched, out>>
     \/ ~matched /\ (Ends(Join(piece)) \/ Releases(Join(piece)))
  /\ UNCHANGED <<stops, flushed>>

\* Mutant: what is left in the buffer is released.
KeptAtEndAll == buffer

\* What flush_final returns: a buffer that ends with a stop word without that
\* word, nothing for the beginning of one, anything else as it is.
KeptAtEnd ==
  LET ending == {n \in 1..Len(stops) :
                   StandsAt(stops[n], buffer, Len(buffer) - Len(stops[n]) + 1)}
      first  == CHOOSE n \in ending : IsFirst(n, ending)
  IN IF matched \/ buffer = <<>> THEN <<>>
     ELSE IF ending # {} THEN Before(buffer, Len(buffer) - Len(stops[first]) + 1)
     ELSE IF MayBecomeStop(buffer, 1) THEN <<>> ELSE buffer

FlushFinal ==
  /\ ~flushed
  /\ flushed' = TRUE
  /\ out' = out \o KeptAtEnd
  /\ buffer' = <<>>
  /\ UNCHANGED <<stops, matched, fed>>

FilterNext ==
  \/ \E piece \in Pieces : Feed(piece)
  \/ FlushFinal

FilterSpec == FilterInit /\ [][FilterNext]_filterVars

------------------------------------------------------------------------------
(* Properties.                                                             *)

\* A filter's fields are texts and flags; a filter that found its stop word, or
\* was flushed, holds nothing back.
FilterTypeOK ==
  /\ stops \in StopLists
  /\ buffer \in Text /\ fed \in Text /\ out \in Text
  /\ matched \in BOOLEAN /\ flushed \in BOOLEAN
  /\ matched \/ flushed => buffer = <<>>

\* However the text is cut into pieces, nothing of it is lost, repeated or
\* moved: what was released and what is held back are the text that was fed.
Conserved == ~matched /\ ~flushed => out \o buffer = fed

\* Before a stop word is found, neither a whole one nor the beginning of one
\* that could still be completed has been released, and no more is held back
\* than that asks for: the buffer is the longest end of the whole text, not only
\* of the candidate, that begins a stop word.
HeldIsLongest ==
  ~matched /\ ~flushed =>
    /\ \A i \in 1..Len(out) : ~MayBecomeStop(fed, i)
    /\ buffer # <<>> => MayBecomeStop(fed, Len(out) + 1)

\* Until a stop word ends the stream, none has got through.
NothingLeaks ==
  ~matched => \A w \in StopWords : \A i \in 1..Len(out) : ~StandsAt(w, out, i)

\* Once the filter ended the stream, a stop word of the list follows what was
\* released; when there is only one, the client has exactly the text before its
\* first occurrence, wherever the pieces were cut.
CutAtStop ==
  matched =>
    /\ \E w \in StopWords : StandsAt(w, fed, Len(out) + 1)
    /\ out = Before(fed, Len(out) + 1)
    /\ Len(stops) = 1 => \A i \in 1..Len(out) : ~StandsAt(stops[1], fed, i)

\* At the end of a reply without a stop word exactly its longest end that begins
\* one is withheld.
OnlyStopIsWithheld ==
  flushed /\ ~matched =>
    /\ out = Before(fed, Len(out) + 1)
    /\ \A i \in 1..Len(out) : ~MayBecomeStop(fed, i)
    /\ Len(out) < Len(fed) => MayBecomeStop(fed, Len(out) + 1)
==============================================================================
