-------------------------- MODULE IntegrationProofs --------------------------
(***************************************************************************)
(* Theorems about two parts of the engine integrations: the stop filter of *)
(* TGI, for every alphabet, every list of stop words and every way to cut  *)
(* a reply into pieces, and the factory that finds out which engine runs.  *)
(***************************************************************************)
EXTENDS StopFilter, EngineDetect, SequenceTheorems, TLAPS

------------------------------------------------------------------------------
(* Words in joined texts.                                                  *)

\* Joining texts: its length and characters.
LEMMA Joined ==
  ASSUME NEW a \in Text, NEW b \in Text
  PROVE  /\ a \o b \in Text
         /\ Len(a \o b) = Len(a) + Len(b) /\ Len(a) \in Nat /\ Len(b) \in Nat
         /\ \A i \in 1..Len(a) : (a \o b)[i] = a[i]
         /\ \A i \in 1..Len(b) : (a \o b)[Len(a) + i] = b[i]
<1>1. /\ a \o b \in Text /\ Len(a \o b) = Len(a) + Len(b)
      /\ \A i \in 1..(Len(a) + Len(b)) :
           (a \o b)[i] = IF i <= Len(a) THEN a[i] ELSE b[i - Len(a)]
  BY ConcatProperties DEF Text
<1>2. Len(a) \in Nat /\ Len(b) \in Nat
  BY LenProperties DEF Text
<1>3. ASSUME NEW i \in 1..Len(a) PROVE (a \o b)[i] = a[i]
  BY <1>1, <1>2
<1>4. ASSUME NEW i \in 1..Len(b) PROVE (a \o b)[Len(a) + i] = b[i]
  <2>1. Len(a) + i \in 1..(Len(a) + Len(b)) /\ ~(Len(a) + i <= Len(a))
        /\ (Len(a) + i) - Len(a) = i
    BY <1>2
  <2>. QED BY <2>1, <1>1
<1>. QED BY <1>1, <1>2, <1>3, <1>4

\* The text before a position, and the text from it on.
LEMMA Parts ==
  ASSUME NEW t \in Text, NEW i \in 1..(Len(t) + 1)
  PROVE  /\ Before(t, i) \in Text /\ Len(Before(t, i)) = i - 1
         /\ \A k \in 1..(i - 1) : Before(t, i)[k] = t[k]
         /\ From(t, i) \in Text /\ Len(From(t, i)) = Len(t) - i + 1
         /\ \A k \in 1..(Len(t) - i + 1) : From(t, i)[k] = t[i - 1 + k]
         /\ Before(t, i) \o From(t, i) = t
<1>0. Len(t) \in Nat /\ \A k \in 1..Len(t) : t[k] \in Chars
  BY LenProperties, ElementOfSeq DEF Text
<1>1. /\ Before(t, i) \in Text /\ Len(Before(t, i)) = i - 1
      /\ \A k \in 1..(i - 1) : Before(t, i)[k] = t[k]
  <2>1. \A k \in 1..(i - 1) : t[k] \in Chars
    BY <1>0
  <2>2. /\ SubSeq(t, 1, i - 1) \in Seq(Chars)
        /\ Len(SubSeq(t, 1, i - 1)) = IF 1 <= i - 1 THEN i - 1 - 1 + 1 ELSE 0
        /\ \A k \in 1..(i - 1 - 1 + 1) : SubSeq(t, 1, i - 1)[k] = t[1 + k - 1]
    BY <2>1, <1>0, SubSeqProperties
  <2>. QED BY <2>2, <1>0 DEF Before, Text
<1>2. /\ From(t, i) \in Text /\ Len(From(t, i)) = Len(t) - i + 1
      /\ \A k \in 1..(Len(t) - i + 1) : From(t, i)[k] = t[i - 1 + k]
  <2>1. \A k \in i..Len(t) : t[k] \in Chars
    BY <1>0
  <2>2. /\ SubSeq(t, i, Len(t)) \in Seq(Chars)
        /\ Len(SubSeq(t, i, Len(t))) = IF i <= Len(t) THEN Len(t) - i + 1 ELSE 0
        /\ \A k \in 1..(Len(t) - i + 1) : SubSeq(t, i, Len(t))[k] = t[i + k - 1]
    BY <2>1, <1>0, SubSeqProperties
  <2>3. \A k \in 1..(Len(t) - i + 1) : i + k - 1 = i - 1 + k
    BY <1>0
  <2>. QED BY <2>2, <2>3, <1>0 DEF From, Text
<1>3. Before(t, i) \o From(t, i) = t
  <2>1. t \in Seq(Chars) /\ 1 \in 1..(Len(t) + 1) /\ i - 1 \in (1 - 1)..Len(t)
        /\ Len(t) \in (i - 1)..Len(t) /\ (i - 1) + 1 = i
    BY <1>0 DEF Text
  <2>2. SubSeq(t, 1, i - 1) \o SubSeq(t, (i - 1) + 1, Len(t)) = SubSeq(t, 1, Len(t))
    BY <2>1, ConcatAdjacentSubSeq
  <2>3. SubSeq(t, 1, Len(t)) = t
    BY <2>1, SubSeqFull
  <2>. QED BY <2>1, <2>2, <2>3 DEF Before, From
<1>. QED BY <1>1, <1>2, <1>3

\* A word stands in the second of two joined texts where it stands in the whole.
LEMMA StandsShift ==
  ASSUME NEW a \in Text, NEW b \in Text, NEW w \in Text, NEW j \in Nat \ {0}
  PROVE  StandsAt(w, a \o b, Len(a) + j) <=> StandsAt(w, b, j)
<1>1. /\ Len(a \o b) = Len(a) + Len(b) /\ Len(a) \in Nat /\ Len(b) \in Nat
      /\ \A i \in 1..Len(b) : (a \o b)[Len(a) + i] = b[i]
  BY Joined
<1>2. Len(w) \in Nat
  BY LenProperties DEF Text
<1>3. Len(a) + j - 1 + Len(w) <= Len(a \o b) <=> j - 1 + Len(w) <= Len(b)
  BY <1>1, <1>2
<1>4. ASSUME j - 1 + Len(w) <= Len(b), NEW k \in 1..Len(w)
      PROVE  (a \o b)[Len(a) + j - 1 + k] = b[j - 1 + k]
  <2>1. j - 1 + k \in 1..Len(b) /\ Len(a) + (j - 1 + k) = Len(a) + j - 1 + k
    BY <1>4, <1>1, <1>2
  <2>. QED BY <2>1, <1>1
<1>5. 1 <= Len(a) + j /\ 1 <= j
  BY <1>1
<1>6. ASSUME StandsAt(w, a \o b, Len(a) + j) PROVE StandsAt(w, b, j)
  <2>1. j - 1 + Len(w) <= Len(b)
    BY <1>3, <1>6 DEF StandsAt
  <2>2. \A k \in 1..Len(w) : (a \o b)[Len(a) + j - 1 + k] = w[k]
    BY <1>6 DEF StandsAt
  <2>3. \A k \in 1..Len(w) : b[j - 1 + k] = w[k]
    BY <2>1, <2>2, <1>4
  <2>. QED BY <2>1, <2>3, <1>5 DEF StandsAt
<1>7. ASSUME StandsAt(w, b, j) PROVE StandsAt(w, a \o b, Len(a) + j)
  <2>1. j - 1 + Len(w) <= Len(b) /\ \A k \in 1..Len(w) : b[j - 1 + k] = w[k]
    BY <1>7 DEF StandsAt
  <2>2. \A k \in 1..Len(w) : (a \o b)[Len(a) + j - 1 + k] = w[k]
    BY <2>1, <1>4
  <2>. QED BY <2>1, <2>2, <1>3, <1>5 DEF StandsAt
<1>. QED BY <1>6, <1>7

\* The same of the beginning of a stop word.
LEMMA BeginsShift ==
  ASSUME NEW a \in Text, NEW b \in Text, NEW j \in Nat \ {0}
  PROVE  MayBecomeStop(a \o b, Len(a) + j) <=> MayBecomeStop(b, j)
<1>1. /\ Len(a \o b) = Len(a) + Len(b) /\ Len(a) \in Nat /\ Len(b) \in Nat
      /\ \A i \in 1..Len(b) : (a \o b)[Len(a) + i] = b[i]
  BY Joined
<1>2. Len(a \o b) - (Len(a) + j) + 1 = Len(b) - j + 1
  BY <1>1
<1>3. ASSUME NEW k \in 1..(Len(b) - j + 1)
      PROVE  (a \o b)[Len(a) + j - 1 + k] = b[j - 1 + k]
  <2>1. j - 1 + k \in 1..Len(b) /\ Len(a) + (j - 1 + k) = Len(a) + j - 1 + k
    BY <1>1
  <2>. QED BY <2>1, <1>1
<1>. QED BY <1>2, <1>3 DEF MayBecomeStop

\* What more text makes of a place that began no stop word, and where a stop
\* word of the longer text can start.
LEMMA Extended ==
  ASSUME NEW a \in Text, NEW b \in Text, NEW i \in 1..Len(a),
         \A w \in StopWords : w \in Text
  PROVE  /\ MayBecomeStop(a \o b, i) => MayBecomeStop(a, i)
         /\ \A w \in StopWords : StandsAt(w, a \o b, i) =>
               StandsAt(w, a, i) \/ MayBecomeStop(a, i)
<1>1. /\ Len(a \o b) = Len(a) + Len(b) /\ Len(a) \in Nat /\ Len(b) \in Nat
      /\ \A k \in 1..Len(a) : (a \o b)[k] = a[k]
  BY Joined
<1>2. \A k \in 1..(Len(a) - i + 1) : i - 1 + k \in 1..Len(a)
  BY <1>1
<1>3. ASSUME MayBecomeStop(a \o b, i)
      PROVE  MayBecomeStop(a, i)
  <2>1. PICK w \in StopWords :
          /\ Len(a \o b) - i + 1 <= Len(w)
          /\ \A k \in 1..(Len(a \o b) - i + 1) : (a \o b)[i - 1 + k] = w[k]
    BY <1>3 DEF MayBecomeStop
  <2>2. Len(w) \in Nat
    BY LenProperties DEF Text
  <2>3. Len(a) - i + 1 <= Len(w)
    BY <1>1, <2>1, <2>2
  <2>4. \A k \in 1..(Len(a) - i + 1) : a[i - 1 + k] = w[k]
    BY <1>1, <1>2, <2>1
  <2>. QED BY <2>3, <2>4 DEF MayBecomeStop
<1>4. ASSUME NEW w \in StopWords, StandsAt(w, a \o b, i), ~StandsAt(w, a, i)
      PROVE  MayBecomeStop(a, i)
  <2>1. Len(w) \in Nat
    BY LenProperties DEF Text
  <2>2. \A k \in 1..Len(w) : (a \o b)[i - 1 + k] = w[k]
    BY <1>4 DEF StandsAt
  <2>3. ASSUME i - 1 + Len(w) <= Len(a) PROVE FALSE
    <3>1. \A k \in 1..Len(w) : i - 1 + k \in 1..Len(a)
      BY <2>1, <2>3, <1>1
    <3>2. \A k \in 1..Len(w) : a[i - 1 + k] = w[k]
      BY <3>1, <2>2, <1>1
    <3>. QED BY <3>2, <2>3, <1>4 DEF StandsAt
  <2>4. Len(a) - i + 1 <= Len(w)
    BY <2>1, <2>3, <1>1
  <2>5. \A k \in 1..(Len(a) - i + 1) : a[i - 1 + k] = w[k]
    BY <1>1, <1>2, <2>1, <2>2, <2>4
  <2>. QED BY <2>4, <2>5 DEF MayBecomeStop
<1>. QED BY <1>3, <1>4

\* What is found in a text is found in a longer one.
LEMMA Kept ==
  ASSUME NEW a \in Text, NEW b \in Text, NEW w \in Text, NEW i \in Nat \ {0},
         StandsAt(w, a, i)
  PROVE  StandsAt(w, a \o b, i)
<1>1. /\ Len(a \o b) = Len(a) + Len(b) /\ Len(a) \in Nat /\ Len(b) \in Nat
      /\ \A k \in 1..Len(a) : (a \o b)[k] = a[k]
  BY Joined
<1>2. Len(w) \in Nat
  BY LenProperties DEF Text
<1>3. i - 1 + Len(w) <= Len(a) /\ \A k \in 1..Len(w) : a[i - 1 + k] = w[k]
  BY DEF StandsAt
<1>4. \A k \in 1..Len(w) : i - 1 + k \in 1..Len(a)
  BY <1>1, <1>2, <1>3
<1>5. \A k \in 1..Len(w) : (a \o b)[i - 1 + k] = w[k]
  BY <1>1, <1>3, <1>4
<1>. QED BY <1>1, <1>2, <1>3, <1>5 DEF StandsAt

\* The text before the seam of two joined texts.
LEMMA BeforeSeam ==
  ASSUME NEW a \in Text, NEW b \in Text
  PROVE  Before(a \o b, Len(a) + 1) = a
<1>1. /\ a \o b \in Text /\ Len(a \o b) = Len(a) + Len(b)
      /\ Len(a) \in Nat /\ Len(b) \in Nat
      /\ \A k \in 1..Len(a) : (a \o b)[k] = a[k]
  BY Joined
<1>2. Len(a) + 1 \in 1..(Len(a \o b) + 1) /\ (Len(a) + 1) - 1 = Len(a)
  BY <1>1
<1>3. /\ Before(a \o b, Len(a) + 1) \in Text
      /\ Len(Before(a \o b, Len(a) + 1)) = Len(a)
      /\ \A k \in 1..Len(a) : Before(a \o b, Len(a) + 1)[k] = (a \o b)[k]
  <2>1. ASSUME NEW t \in Text, NEW i \in 1..(Len(t) + 1), i - 1 = Len(a)
        PROVE  /\ Before(t, i) \in Text /\ Len(Before(t, i)) = Len(a)
               /\ \A k \in 1..Len(a) : Before(t, i)[k] = t[k]
    <3>1. /\ Before(t, i) \in Text /\ Len(Before(t, i)) = i - 1
          /\ \A k \in 1..(i - 1) : Before(t, i)[k] = t[k]
      BY Parts, Zenon
    <3>. QED BY <2>1, <3>1, Zenon
  <2>. QED BY <1>1, <1>2, <2>1
<1>. QED BY <1>1, <1>3, SeqEqual DEF Text

\* Joining texts is associative.
LEMMA Assoc ==
  ASSUME NEW a \in Text, NEW b \in Text, NEW c \in Text
  PROVE  (a \o b) \o c = a \o (b \o c)
<1>1. a \in Seq(Chars) /\ b \in Seq(Chars) /\ c \in Seq(Chars)
  BY DEF Text
<1>. QED BY <1>1, ConcatAssociative

\* Stop words are texts, and none is empty.
LEMMA WordsAreTexts ==
  ASSUME stops \in StopLists
  PROVE  /\ Len(stops) \in Nat
         /\ \A n \in 1..Len(stops) : stops[n] \in StopWords
         /\ \A w \in StopWords : w \in Text /\ Len(w) \in Nat \ {0}
<1>1. stops \in Seq(Text \ {<<>>})
  BY FilterAssumption
<1>2. Len(stops) \in Nat /\ \A n \in 1..Len(stops) : stops[n] \in Text \ {<<>>}
  BY <1>1, LenProperties, ElementOfSeq
<1>3. \A w \in StopWords : w \in Text \ {<<>>}
  BY <1>2 DEF StopWords
<1>4. \A w \in Text \ {<<>>} : Len(w) \in Nat \ {0}
  BY EmptySeq DEF Text
<1>. QED BY <1>2, <1>3, <1>4 DEF StopWords

------------------------------------------------------------------------------
(* The invariant.                                                          *)

\* Until a stop word is found the text fed holds none, what was released begins
\* none, and what is withheld is all that begins one.
OpenInv ==
  /\ \A w \in StopWords : \A i \in 1..Len(fed) : ~StandsAt(w, fed, i)
  /\ \A i \in 1..Len(out) : ~MayBecomeStop(fed, i)
  /\ Len(out) <= Len(fed)
  /\ Len(out) < Len(fed) => MayBecomeStop(fed, Len(out) + 1)
  /\ out = Before(fed, Len(out) + 1)
  /\ ~flushed => out \o buffer = fed

FilterInv ==
  /\ FilterTypeOK
  /\ ~matched => OpenInv
  /\ CutAtStop

\* The candidate and the text: after another piece the whole text is what was
\* released followed by the candidate, no stop word starts in what was released,
\* and nothing there begins one.
LEMMA Candidate ==
  ASSUME FilterInv, ~matched, ~flushed, NEW piece \in Pieces
  PROVE  /\ Join(piece) \in Text /\ fed \o piece \in Text
         /\ fed \o piece = out \o Join(piece)
         /\ \A i \in 1..Len(out) : ~MayBecomeStop(fed \o piece, i)
         /\ \A w \in StopWords : \A i \in 1..Len(out) : ~StandsAt(w, fed \o piece, i)
<1>1. /\ buffer \in Text /\ out \in Text /\ fed \in Text /\ piece \in Text
      /\ stops \in StopLists /\ out \o buffer = fed
  BY FilterAssumption DEF FilterInv, FilterTypeOK, OpenInv
<1>2. Join(piece) \in Text /\ fed \o piece \in Text
  BY <1>1, Joined DEF Join
<1>3. fed \o piece = out \o Join(piece)
  BY <1>1, Assoc DEF Join
<1>4. \A w \in StopWords : w \in Text
  BY <1>1, WordsAreTexts
<1>5. Len(out) \in Nat /\ Len(fed) \in Nat /\ Len(out) <= Len(fed)
  BY <1>1, LenProperties DEF FilterInv, OpenInv, Text
<1>6. ASSUME NEW i \in 1..Len(out)
      PROVE  /\ ~MayBecomeStop(fed \o piece, i)
             /\ \A w \in StopWords : ~StandsAt(w, fed \o piece, i)
  <2>1. i \in 1..Len(fed)
    BY <1>5
  <2>2. ~MayBecomeStop(fed, i) /\ \A w \in StopWords : ~StandsAt(w, fed, i)
    BY <2>1 DEF FilterInv, OpenInv
  <2>. QED BY <1>1, <1>4, <2>1, <2>2, Extended
<1>. QED BY <1>2, <1>3, <1>6

\* A piece that completes a stop word.
LEMMA EndsStep ==
  ASSUME FilterInv, ~matched, ~flushed, NEW piece \in Pieces,
         fed' = fed \o piece, Ends(Join(piece)), UNCHANGED <<stops, flushed>>
  PROVE  FilterInv'
<1>. DEFINE t == Join(piece)
<1>1. PICK n \in 1..Len(stops), i \in 1..Len(t) :
        /\ EndsAt(t, n, i)
        /\ out' = out \o Before(t, i) /\ buffer' = <<>> /\ matched' = TRUE
  BY DEF Ends
<1>2. /\ t \in Text /\ fed' \in Text /\ fed' = out \o t
      /\ \A w \in StopWords : \A j \in 1..Len(out) : ~StandsAt(w, fed', j)
  BY Candidate
<1>3. /\ stops \in StopLists /\ out \in Text /\ stops[n] \in StopWords
      /\ stops[n] \in Text /\ Len(out) \in Nat /\ Len(t) \in Nat
      /\ StopWords' = StopWords
  BY <1>2, WordsAreTexts, LenProperties DEF FilterInv, FilterTypeOK, Text, StopWords
<1>4. StandsAt(stops[n], t, i) /\ \A j \in 1..Len(t) : StandsAt(stops[n], t, j) => i <= j
  BY <1>1 DEF EndsAt, IsFirst, Occurrences
<1>5. /\ Before(t, i) \in Text /\ Len(Before(t, i)) = i - 1
      /\ From(t, i) \in Text /\ Before(t, i) \o From(t, i) = t
  <2>1. i \in 1..(Len(t) + 1)
    BY <1>3
  <2>. QED BY <1>2, <2>1, Parts
<1>6. out' \in Text /\ Len(out') = Len(out) + (i - 1)
  BY <1>1, <1>3, <1>5, Joined
<1>7. fed' = out' \o From(t, i)
  <2>1. (out \o Before(t, i)) \o From(t, i) = out \o (Before(t, i) \o From(t, i))
    BY <1>3, <1>5, Assoc
  <2>. QED BY <1>1, <1>2, <1>5, <2>1
<1>8. out' = Before(fed', Len(out') + 1)
  BY <1>5, <1>6, <1>7, BeforeSeam
<1>9. StandsAt(stops[n], fed', Len(out') + 1)
  <2>1. Len(out') + 1 = Len(out) + i /\ i \in Nat \ {0}
    BY <1>3, <1>6
  <2>2. StandsAt(stops[n], out \o t, Len(out) + i)
    BY <1>2, <1>3, <1>4, <2>1, StandsShift
  <2>. QED BY <1>2, <2>1, <2>2
<1>10. ASSUME Len(stops) = 1, NEW j \in 1..Len(out') PROVE ~StandsAt(stops[1], fed', j)
  <2>1. n = 1
    BY <1>10
  <2>2. CASE j <= Len(out)
    BY <2>1, <2>2, <1>2, <1>3, <1>6
  <2>3. CASE j > Len(out)
    <3>1. j - Len(out) \in Nat \ {0} /\ j = Len(out) + (j - Len(out))
          /\ j - Len(out) < i /\ j - Len(out) \in 1..Len(t)
      BY <2>3, <1>3, <1>6
    <3>2. ~StandsAt(stops[n], t, j - Len(out))
      BY <3>1, <1>4
    <3>3. ~StandsAt(stops[n], out \o t, Len(out) + (j - Len(out)))
      BY <3>1, <3>2, <1>2, <1>3, StandsShift
    <3>. QED BY <2>1, <3>1, <3>3, <1>2
  <2>. QED BY <2>2, <2>3, <1>3, <1>6
<1>11. <<>> \in Text
  BY EmptySeq DEF Text
<1>. QED BY <1>1, <1>2, <1>3, <1>6, <1>8, <1>9, <1>10, <1>11
     DEF FilterInv, FilterTypeOK, CutAtStop

\* A piece that completes none.
LEMMA ReleasesStep ==
  ASSUME FilterInv, ~matched, ~flushed, NEW piece \in Pieces,
         fed' = fed \o piece, Releases(Join(piece)), UNCHANGED <<stops, flushed>>
  PROVE  FilterInv'
<1>. DEFINE t == Join(piece)
<1>1. /\ t \in Text /\ fed' \in Text /\ fed' = out \o t
      /\ \A j \in 1..Len(out) : ~MayBecomeStop(fed', j)
      /\ \A w \in StopWords : \A j \in 1..Len(out) : ~StandsAt(w, fed', j)
  BY Candidate
<1>2. /\ stops \in StopLists /\ out \in Text /\ Len(out) \in Nat /\ Len(t) \in Nat
      /\ \A w \in StopWords : w \in Text
      /\ StopWords' = StopWords /\ matched' = FALSE /\ flushed' = FALSE /\ stops' = stops
  BY <1>1, WordsAreTexts, LenProperties DEF FilterInv, FilterTypeOK, Text, StopWords, Releases
<1>3. Len(fed') = Len(out) + Len(t)
  BY <1>1, <1>2, Joined
<1>5. \A w \in StopWords : \A j \in 1..Len(fed') : ~StandsAt(w, fed', j)
  <2>. SUFFICES ASSUME NEW w \in StopWords, NEW j \in 1..Len(fed') PROVE ~StandsAt(w, fed', j)
    OBVIOUS
  <2>1. CASE j <= Len(out)
    BY <2>1, <1>1, <1>2
  <2>2. CASE j > Len(out)
    <3>1. j - Len(out) \in Nat \ {0} /\ j = Len(out) + (j - Len(out))
          /\ j - Len(out) \in 1..Len(t)
      BY <2>2, <1>2, <1>3
    <3>2. ~StandsAt(w, t, j - Len(out))
      BY <3>1 DEF Releases, Goes, Occurrences
    <3>. QED BY <3>1, <3>2, <1>1, <1>2, StandsShift
  <2>. QED BY <2>1, <2>2, <1>2, <1>3
<1>6. CASE HoldPoints(t) = {} /\ out' = out \o t /\ buffer' = <<>>
  <2>1. <<>> \in Text /\ fed' = out' /\ Len(out') = Len(out) + Len(t)
    BY <1>1, <1>3, <1>6, EmptySeq DEF Text
  <2>2. out' \o <<>> = fed' /\ out' = Before(fed', Len(out') + 1)
    <3>1. fed' \in Seq(Chars)
      BY <1>1 DEF Text
    <3>. QED BY <3>1, <2>1, <1>1, BeforeSeam, ConcatEmptySeq
  <2>3. \A j \in 1..Len(out') : ~MayBecomeStop(fed', j)
    <3>. SUFFICES ASSUME NEW j \in 1..Len(out') PROVE ~MayBecomeStop(fed', j)
      OBVIOUS
    <3>1. CASE j <= Len(out)
      BY <3>1, <1>1, <1>2, <2>1
    <3>2. CASE j > Len(out)
      <4>1. j - Len(out) \in Nat \ {0} /\ j = Len(out) + (j - Len(out))
            /\ j - Len(out) \in 1..Len(t)
        BY <3>2, <1>2, <2>1
      <4>2. ~MayBecomeStop(t, j - Len(out))
        BY <4>1, <1>6 DEF HoldPoints
      <4>. QED BY <4>1, <4>2, <1>1, <1>2, BeginsShift
    <3>. QED BY <3>1, <3>2, <1>2, <2>1
  <2>4. OpenInv'
    <3>1. \A w \in StopWords' : \A j \in 1..Len(fed') : ~StandsAt(w, fed', j)
      BY <1>2, <1>5
    <3>2. (\A j \in 1..Len(out) : ~MayBecomeStop(fed, j))'
      BY <1>2, <2>3 DEF MayBecomeStop
    <3>3. Len(out') <= Len(fed') /\ ~(Len(out') < Len(fed'))
      BY <1>2, <2>1
    <3>4. out' \o buffer' = fed'
      BY <1>6, <2>2
    <3>. QED BY <2>2, <3>1, <3>2, <3>3, <3>4 DEF OpenInv, StandsAt, Before
  <2>. QED BY <1>1, <1>2, <1>6, <2>1, <2>4 DEF FilterInv, FilterTypeOK, CutAtStop
<1>7. CASE \E i \in 1..Len(t) :
             IsFirst(i, HoldPoints(t)) /\ out' = out \o Before(t, i) /\ buffer' = From(t, i)
  <2>1. PICK i \in 1..Len(t) :
          IsFirst(i, HoldPoints(t)) /\ out' = out \o Before(t, i) /\ buffer' = From(t, i)
    BY <1>7
  <2>2. /\ Before(t, i) \in Text /\ Len(Before(t, i)) = i - 1
        /\ From(t, i) \in Text /\ Before(t, i) \o From(t, i) = t
    <3>1. i \in 1..(Len(t) + 1)
      BY <1>2
    <3>. QED BY <1>1, <3>1, Parts
  <2>3. out' \in Text /\ Len(out') = Len(out) + (i - 1)
    BY <1>2, <2>1, <2>2, Joined
  <2>4. fed' = out' \o buffer'
    <3>1. (out \o Before(t, i)) \o From(t, i) = out \o (Before(t, i) \o From(t, i))
      BY <1>2, <2>2, Assoc
    <3>. QED BY <1>1, <2>1, <2>2, <3>1
  <2>5. out' = Before(fed', Len(out') + 1)
    BY <2>1, <2>2, <2>3, <2>4, BeforeSeam
  <2>6. MayBecomeStop(t, i) /\ \A j \in 1..Len(t) : MayBecomeStop(t, j) => i <= j
    BY <2>1 DEF IsFirst, HoldPoints
  <2>7. MayBecomeStop(fed', Len(out') + 1)
    <3>1. Len(out') + 1 = Len(out) + i /\ i \in Nat \ {0}
      BY <1>2, <2>3
    <3>2. MayBecomeStop(out \o t, Len(out) + i)
      BY <1>1, <1>2, <2>6, <3>1, BeginsShift
    <3>. QED BY <1>1, <3>1, <3>2
  <2>8. \A j \in 1..Len(out') : ~MayBecomeStop(fed', j)
    <3>. SUFFICES ASSUME NEW j \in 1..Len(out') PROVE ~MayBecomeStop(fed', j)
      OBVIOUS
    <3>1. CASE j <= Len(out)
      BY <3>1, <1>1, <1>2, <2>3
    <3>2. CASE j > Len(out)
      <4>1. j - Len(out) \in Nat \ {0} /\ j = Len(out) + (j - Len(out))
            /\ j - Len(out) < i /\ j - Len(out) \in 1..Len(t)
        BY <3>2, <1>2, <2>3
      <4>2. ~MayBecomeStop(t, j - Len(out))
        BY <4>1, <2>6
      <4>3. ~MayBecomeStop(out \o t, Len(out) + (j - Len(out)))
        BY <4>1, <4>2, <1>1, <1>2, BeginsShift
      <4>. QED BY <4>1, <4>3, <1>1
    <3>. QED BY <3>1, <3>2, <1>2, <2>3
  <2>9. Len(out') <= Len(fed')
    BY <1>2, <1>3, <2>3
  <2>10. OpenInv'
    BY <1>2, <1>5, <2>4, <2>5, <2>7, <2>8, <2>9 DEF OpenInv, MayBecomeStop
  <2>. QED BY <1>1, <1>2, <2>1, <2>2, <2>3, <2>10 DEF FilterInv, FilterTypeOK, CutAtStop
<1>. QED BY <1>6, <1>7 DEF Releases

\* A piece that comes after the end of the text.
LEMMA IgnoredStep ==
  ASSUME FilterInv, matched, ~flushed, NEW piece \in Pieces,
         fed' = fed \o piece, UNCHANGED <<stops, buffer, matched, flushed, out>>
  PROVE  FilterInv'
<1>1. /\ fed \in Text /\ piece \in Text /\ out \in Text /\ stops \in StopLists
      /\ StopWords' = StopWords
  BY FilterAssumption DEF FilterInv, FilterTypeOK, StopWords
<1>2. /\ fed' \in Text /\ Len(fed) \in Nat /\ Len(out) \in Nat
      /\ \A k \in 1..Len(fed) : fed'[k] = fed[k]
  BY <1>1, Joined, LenProperties DEF Text
<1>3. PICK w \in StopWords : StandsAt(w, fed, Len(out) + 1)
  BY DEF FilterInv, CutAtStop
<1>4. w \in Text /\ Len(w) \in Nat \ {0} /\ Len(out) + Len(w) <= Len(fed)
  BY <1>1, <1>2, <1>3, WordsAreTexts DEF StandsAt
<1>5. StandsAt(w, fed', Len(out) + 1)
  BY <1>1, <1>2, <1>3, <1>4, Kept
<1>6. out = Before(fed', Len(out) + 1)
  <2>1. out = Before(fed, Len(out) + 1) /\ Len(out) + 1 \in 1..(Len(fed) + 1)
        /\ (Len(out) + 1) - 1 = Len(out)
    BY <1>2, <1>4 DEF FilterInv, CutAtStop
  <2>2. From(fed, Len(out) + 1) \in Text /\ out \o From(fed, Len(out) + 1) = fed
    BY <1>1, <2>1, Parts
  <2>3. fed' = out \o (From(fed, Len(out) + 1) \o piece)
        /\ From(fed, Len(out) + 1) \o piece \in Text
    <3>1. (out \o From(fed, Len(out) + 1)) \o piece
             = out \o (From(fed, Len(out) + 1) \o piece)
      BY <1>1, <2>2, Assoc
    <3>. QED BY <1>1, <2>2, <3>1, Joined
  <2>. QED BY <1>1, <2>3, BeforeSeam
<1>7. ASSUME Len(stops) = 1, NEW i \in 1..Len(out) PROVE ~StandsAt(stops[1], fed', i)
  <2>1. stops[1] = w
    BY <1>7 DEF StopWords
  <2>2. ~StandsAt(w, fed, i)
    BY <1>7, <2>1 DEF FilterInv, CutAtStop
  <2>3. i - 1 + Len(w) <= Len(fed)
    BY <1>2, <1>4
  <2>4. \A k \in 1..Len(w) : i - 1 + k \in 1..Len(fed)
    BY <1>2, <1>4, <2>3
  <2>5. \A k \in 1..Len(w) : fed'[i - 1 + k] = fed[i - 1 + k]
    BY <1>2, <2>4
  <2>. QED BY <2>1, <2>2, <2>3, <2>5 DEF StandsAt
<1>. QED BY <1>1, <1>2, <1>5, <1>6, <1>7 DEF FilterInv, FilterTypeOK, CutAtStop

\* What flush_final releases is nothing: a buffer that is not empty only begins
\* a stop word.
LEMMA NothingKept ==
  ASSUME FilterInv, ~flushed
  PROVE  KeptAtEnd = <<>>
<1>. SUFFICES ASSUME ~matched, buffer # <<>> PROVE KeptAtEnd = <<>>
  BY DEF KeptAtEnd
<1>1. /\ buffer \in Text /\ out \in Text /\ out \o buffer = fed /\ stops \in StopLists
  BY DEF FilterInv, FilterTypeOK, OpenInv
<1>2. /\ Len(fed) = Len(out) + Len(buffer) /\ Len(out) \in Nat /\ Len(buffer) \in Nat \ {0}
  BY <1>1, Joined, EmptySeq DEF Text
<1>3. MayBecomeStop(buffer, 1)
  <2>1. MayBecomeStop(out \o buffer, Len(out) + 1)
    BY <1>1, <1>2 DEF FilterInv, OpenInv
  <2>2. 1 \in Nat \ {0}
    OBVIOUS
  <2>. QED BY <1>1, <2>1, <2>2, BeginsShift
<1>4. ASSUME NEW n \in 1..Len(stops)
      PROVE  ~StandsAt(stops[n], buffer, Len(buffer) - Len(stops[n]) + 1)
  <2>1. stops[n] \in StopWords /\ stops[n] \in Text /\ Len(stops[n]) \in Nat \ {0}
    BY <1>1, WordsAreTexts
  <2>. DEFINE j == Len(buffer) - Len(stops[n]) + 1
  <2>2. SUFFICES ASSUME StandsAt(stops[n], buffer, j) PROVE FALSE
    OBVIOUS
  <2>3. j \in Nat \ {0} /\ Len(out) + j \in 1..Len(fed)
    <3>1. 1 <= j
      BY <2>2 DEF StandsAt
    <3>2. j \in Int /\ j <= Len(buffer)
      BY <1>2, <2>1
    <3>3. j \in Nat \ {0}
      BY <3>1, <3>2
    <3>4. \A x, y, z \in Nat : z <= y /\ z # 0 => x + z \in 1..(x + y)
      OBVIOUS
    <3>. HIDE DEF j
    <3>5. Len(out) + j \in 1..(Len(out) + Len(buffer))
      BY <1>2, <3>2, <3>3, <3>4
    <3>. QED BY <1>2, <3>3, <3>5
  <2>4. StandsAt(stops[n], out \o buffer, Len(out) + j)
    BY <1>1, <2>1, <2>2, <2>3, StandsShift
  <2>. QED BY <1>1, <2>1, <2>3, <2>4 DEF FilterInv, OpenInv
<1>. QED BY <1>3, <1>4 DEF KeptAtEnd

LEMMA FlushStep ==
  ASSUME FilterInv, FlushFinal
  PROVE  FilterInv'
<1>1. /\ out \in Text /\ <<>> \in Text /\ out' = out
  <2>1. out \in Seq(Chars)
    BY DEF FilterInv, FilterTypeOK, Text
  <2>. QED BY <2>1, NothingKept, ConcatEmptySeq, EmptySeq DEF FlushFinal, Text
<1>2. StopWords' = StopWords
  BY DEF FlushFinal, StopWords
<1>3. CutAtStop'
  BY <1>1, <1>2 DEF FilterInv, CutAtStop, FlushFinal
<1>4. ~matched' => OpenInv'
  BY <1>1, <1>2 DEF FilterInv, OpenInv, FlushFinal, MayBecomeStop
<1>. QED BY <1>1, <1>3, <1>4 DEF FilterInv, FilterTypeOK, FlushFinal

\* The invariant holds initially and is kept.
LEMMA FilterInvariant == FilterSpec => []FilterInv
<1>1. FilterInit => FilterInv
  <2>. SUFFICES ASSUME FilterInit PROVE FilterInv
    OBVIOUS
  <2>1. <<>> \in Text /\ Len(<<>>) = 0 /\ <<>> \o <<>> = <<>> /\ Before(<<>>, 1) = <<>>
    BY EmptySeq, ConcatEmptySeq, SubSeqEmpty DEF Text, Before
  <2>2. /\ fed = <<>> /\ out = <<>> /\ buffer = <<>> /\ matched = FALSE /\ flushed = FALSE
        /\ stops \in StopLists
    BY DEF FilterInit
  <2>3. Len(out) + 1 = 1 /\ 1..Len(out) = {} /\ 1..Len(fed) = {}
    BY <2>1, <2>2
  <2>4. OpenInv
    BY <2>1, <2>2, <2>3 DEF OpenInv
  <2>. QED BY <2>1, <2>2, <2>4 DEF FilterInv, FilterTypeOK, CutAtStop
<1>2. FilterInv /\ [FilterNext]_filterVars => FilterInv'
  <2>. SUFFICES ASSUME FilterInv, [FilterNext]_filterVars PROVE FilterInv'
    OBVIOUS
  <2>1. ASSUME NEW piece \in Pieces, Feed(piece) PROVE FilterInv'
    BY <2>1, EndsStep, ReleasesStep, IgnoredStep DEF Feed
  <2>2. CASE FlushFinal
    BY <2>2, FlushStep
  <2>3. CASE UNCHANGED filterVars
    <3>1. UNCHANGED <<stops, buffer, matched, flushed, fed, out>>
      BY <2>3 DEF filterVars
    <3>2. FilterTypeOK'
      BY <3>1 DEF FilterInv, FilterTypeOK
    <3>3. CutAtStop'
      BY <3>1 DEF FilterInv, CutAtStop, StopWords
    <3>4. ~matched' => OpenInv'
      BY <3>1 DEF FilterInv, OpenInv, MayBecomeStop, StopWords
    <3>. QED BY <3>2, <3>3, <3>4 DEF FilterInv
  <2>. QED BY <2>1, <2>2, <2>3 DEF FilterNext
<1>. QED BY <1>1, <1>2, PTL DEF FilterSpec

------------------------------------------------------------------------------
(* The theorems.                                                           *)

\* The fields of a filter keep their types, and nothing is held back behind a
\* stop word or the end of the reply.
THEOREM FilterTypeCorrect == FilterSpec => []FilterTypeOK
<1>1. FilterInv => FilterTypeOK
  BY DEF FilterInv
<1>. QED BY <1>1, FilterInvariant, PTL

\* The text that was released and the text held back are the text fed, however
\* it was cut (SlidingWindowStopFilter.feed).
THEOREM FeedConserves == FilterSpec => []Conserved
<1>1. FilterInv => Conserved
  BY DEF FilterInv, OpenInv, Conserved
<1>. QED BY <1>1, FilterInvariant, PTL

\* The buffer is the longest end of the text fed that begins a stop word.
THEOREM BufferIsLongest == FilterSpec => []HeldIsLongest
<1>1. FilterInv => HeldIsLongest
  <2>. SUFFICES ASSUME FilterInv, ~matched, ~flushed, buffer # <<>>
                PROVE  Len(out) < Len(fed)
    BY DEF FilterInv, OpenInv, HeldIsLongest
  <2>1. buffer \in Text /\ out \in Text /\ out \o buffer = fed
    BY DEF FilterInv, FilterTypeOK, OpenInv
  <2>2. Len(fed) = Len(out) + Len(buffer) /\ Len(out) \in Nat /\ Len(buffer) \in Nat \ {0}
    BY <2>1, Joined, EmptySeq DEF Text
  <2>. QED BY <2>2
<1>. QED BY <1>1, FilterInvariant, PTL

\* No whole stop word stands in the text released while none has ended the stream.
THEOREM NoLeakBeforeStop == FilterSpec => []NothingLeaks
<1>1. FilterInv => NothingLeaks
  <2>. SUFFICES ASSUME FilterInv, ~matched, NEW w \in StopWords, NEW i \in 1..Len(out),
                       StandsAt(w, out, i)
                PROVE  FALSE
    BY DEF NothingLeaks
  <2>1. /\ fed \in Text /\ out \in Text /\ stops \in StopLists
        /\ out = Before(fed, Len(out) + 1) /\ Len(out) <= Len(fed)
    BY DEF FilterInv, FilterTypeOK, OpenInv
  <2>2. Len(out) \in Nat /\ Len(fed) \in Nat /\ w \in Text
    BY <2>1, LenProperties, WordsAreTexts DEF Text
  <2>3. From(fed, Len(out) + 1) \in Text /\ out \o From(fed, Len(out) + 1) = fed
    <3>1. Len(out) + 1 \in 1..(Len(fed) + 1)
      BY <2>1, <2>2
    <3>. QED BY <2>1, <3>1, Parts
  <2>4. StandsAt(w, out \o From(fed, Len(out) + 1), i)
    <3>1. i \in Nat \ {0}
      BY <2>2
    <3>. QED BY <2>1, <2>2, <2>3, <3>1, Kept
  <2>5. StandsAt(w, fed, i)
    BY <2>3, <2>4
  <2>6. i \in 1..Len(fed)
    <3>1. \A x, y \in Nat : x <= y => 1..x \subseteq 1..y
      OBVIOUS
    <3>2. 1..Len(out) \subseteq 1..Len(fed)
      BY <2>1, <2>2, <3>1
    <3>. QED BY <3>2
  <2>. QED BY <2>5, <2>6 DEF FilterInv, OpenInv
<1>. QED BY <1>1, FilterInvariant, PTL

\* A stream that a stop word ended was cut right before that word, and with a
\* single stop word before its first occurrence.
THEOREM StreamIsCutAtStop == FilterSpec => []CutAtStop
<1>1. FilterInv => CutAtStop
  BY DEF FilterInv
<1>. QED BY <1>1, FilterInvariant, PTL

\* At the end of a reply exactly the beginning of a stop word is withheld
\* (SlidingWindowStopFilter.flush_final).
THEOREM FlushWithholdsStop == FilterSpec => []OnlyStopIsWithheld
<1>1. FilterInv => OnlyStopIsWithheld
  BY DEF FilterInv, OpenInv, OnlyStopIsWithheld
<1>. QED BY <1>1, FilterInvariant, PTL

------------------------------------------------------------------------------
(* The choice of a hook: EngineHookFactory.                                *)

LEMMA PathOfProbe ==
  ASSUME probe \in 1 .. 5
  PROVE  /\ Path \in Paths
         /\ probe = 1 => Path = "/v2/health/ready" /\ Signature[Path] = "triton"
         /\ probe = 2 => Path = "/info" /\ Signature[Path] = "tgi"
         /\ probe = 3 => Path = "/get_model_info" /\ Signature[Path] = "sglang"
         /\ probe = 4 => Path = "/version" /\ Signature[Path] = "vllm"
         /\ probe = 5 => Path = "/health"
<1>1. Path \in Paths
  BY DEF Path, Paths
<1>2. probe \in {1, 2, 3, 4, 5}
  OBVIOUS
<1>3. QED
  BY <1>1, <1>2 DEF Path, Order, Signature

LEMMA TypeInit == Init => TypeOK
<1> SUFFICES ASSUME Init PROVE TypeOK
  OBVIOUS
<1>1. stage \in {"new", "asked", "probing"}
  BY DEF Init
<1>2. http \in {"none", "open"}
  BY DEF Init
<1>3. detected = "none" /\ missed = FALSE /\ hook = "none" /\ probe = 1 /\ attempt = 0
  BY DEF Init
<1>4. /\ engine \in Engines
      /\ up \in BOOLEAN /\ given \in BOOLEAN /\ strict \in BOOLEAN
      /\ entry \in {"daemon", "create", "auto_detect"}
      /\ asked \in {"auto", "unknown"} \cup Backends
      /\ override \in {"none", "unknown"} \cup Backends
      /\ fallback \in Backends \cup {"none"}
  BY DEF Init
<1>5. stage \in Stages /\ http \in {"none", "open", "closed"}
  BY <1>1, <1>2 DEF Stages
<1>6. /\ detected \in Backends \cup {"none"} /\ hook \in Backends \cup {"none"}
      /\ probe \in 1 .. 5 /\ attempt \in Nat
  BY <1>3
<1>7. missed \in BOOLEAN
  BY <1>3
<1>8. QED
  BY <1>4, <1>5, <1>6, <1>7 DEF TypeOK

LEMMA TypeNext == TypeOK /\ [Next]_vars => TypeOK'
<1> SUFFICES ASSUME TypeOK, [Next]_vars PROVE TypeOK'
  OBVIOUS
<1> USE DEF TypeOK, Stages, call
<1>1. CASE Made \/ Started
  BY <1>1 DEF Made, Started, Backends
<1>2. CASE CreateNamed \/ CreateAuto \/ CreateFound \/ CreateFoundNothing
  <2>1. CASE CreateNamed
    <3>1. Target \in Backends \cup {"unknown"}
      BY <2>1 DEF CreateNamed, Target
    <3>2. QED
      BY <2>1, <3>1 DEF CreateNamed, Construct, CreateRaises, Backends
  <2>2. CASE CreateAuto
    BY <2>2 DEF CreateAuto
  <2>3. CASE CreateFound
    BY <2>3 DEF CreateFound, Construct, CreateRaises, Backends
  <2>4. CASE CreateFoundNothing
    BY <2>4 DEF CreateFoundNothing, Construct, CreateRaises, Backends
  <2>5. QED
    BY <1>2, <2>1, <2>2, <2>3, <2>4
<1>3. CASE Answered
  <2>1. detected' \in Backends
    <3>1. Path # "/health" => Signature[Path] \in Backends
      <4>1. probe \in {1, 2, 3, 4, 5}
        OBVIOUS
      <4>2. QED
        BY <4>1, PathOfProbe DEF Backends
    <3>2. QED
      BY <1>3, <3>1 DEF Answered, Backends
  <2>2. missed' \in BOOLEAN
    BY <1>3 DEF Answered
  <2>3. QED
    BY <1>3, <2>1, <2>2 DEF Answered, Release
<1>4. CASE NotAnswered
  <2>1. missed' \in BOOLEAN
    BY <1>4 DEF NotAnswered
  <2>2. probe' \in 1 .. 5
    BY <1>4 DEF NotAnswered
  <2>3. QED
    BY <1>4, <2>1, <2>2 DEF NotAnswered, Release
<1>5. CASE Rested
  BY <1>5 DEF Rested
<1>6. CASE EngineBoots \/ EngineDies \/ UNCHANGED vars
  BY <1>6 DEF EngineBoots, EngineDies, vars
<1>7. QED
  BY <1>1, <1>2, <1>3, <1>4, <1>5, <1>6 DEF Next, Caller, Detect

\* The daemon, the factory and the probes keep their types.
THEOREM TypeCorrect == Spec => []TypeOK
  BY TypeInit, TypeNext, PTL DEF Spec

------------------------------------------------------------------------------
(* What a round of probes has passed over.                                 *)

\* A probe behind which the round has gone was not answered; if the engine serves
\* it, it was missed.
PassedOver ==
  \A i \in 1 .. 5 : i < probe /\ Order[i] \in Serves[engine] => missed

LEMMA AnswerIsRight ==
  ASSUME TypeOK, PassedOver, Answered
  PROVE  detected' = engine \/ (detected' = "vllm" /\ (engine = "other" \/ missed'))
<1> USE DEF TypeOK
<1>1. /\ Path \in Serves[engine]
      /\ missed' = (missed \/ (engine = "mock" /\ detected' # "mock"))
  BY DEF Answered
<1>2. probe \in {1, 2, 3, 4, 5}
  OBVIOUS
<1>3. engine \in {"triton", "tgi", "sglang", "vllm", "mock", "other"}
  BY DEF Engines, Backends
<1>4. /\ Serves["triton"] = {"/v2/health/ready"}
      /\ Serves["tgi"] = {"/info", "/health"}
      /\ Serves["sglang"] = {"/get_model_info", "/health"}
      /\ Serves["vllm"] = {"/version", "/health"}
      /\ Serves["mock"] = {"/health"} /\ Serves["other"] = {"/health"}
  BY DEF Serves, Engines, Backends
<1>5. CASE Path # "/health"
  <2>1. detected' = Signature[Path]
    BY <1>5 DEF Answered
  <2>2. QED
    BY <1>1, <1>2, <1>3, <1>4, <1>5, <2>1, PathOfProbe
<1>6. CASE Path = "/health"
  <2>1. probe = 5
    BY <1>2, <1>6, PathOfProbe
  <2>2. detected' = "vllm" \/ (engine = "mock" /\ detected' = "mock")
    BY <1>6 DEF Answered
  <2>3. engine \in {"tgi", "sglang"} => missed
    <3>1. Order[2] = "/info" /\ Order[3] = "/get_model_info"
      BY DEF Order
    <3>2. QED
      BY <1>4, <2>1, <3>1 DEF PassedOver
  <2>4. engine # "triton"
    BY <1>1, <1>4, <1>6
  <2>5. missed => missed'
    BY <1>1
  <2>6. engine = "mock" /\ detected' # "mock" => missed'
    BY <1>1
  <2>7. CASE engine = "mock"
    BY <2>2, <2>6, <2>7
  <2>8. CASE engine # "mock"
    BY <1>3, <2>2, <2>3, <2>4, <2>5, <2>8
  <2>9. QED
    BY <2>7, <2>8
<1>7. QED
  BY <1>5, <1>6

DetectInv == PassedOver /\ DetectionIsRight

LEMMA DetectInit == Init => DetectInv
  BY DEF Init, DetectInv, PassedOver, DetectionIsRight

LEMMA DetectNext == TypeOK /\ DetectInv /\ [Next]_vars => DetectInv'
<1> SUFFICES ASSUME TypeOK, DetectInv, [Next]_vars PROVE DetectInv'
  OBVIOUS
<1> USE DEF TypeOK, DetectInv, PassedOver, DetectionIsRight, Exhausted, Rounds, call
<1>1. CASE Caller
  <2>1. stage' # "found" /\ UNCHANGED <<engine, probe, missed>>
    BY <1>1 DEF Caller, Made, Started, CreateNamed, CreateAuto, CreateFound,
         CreateFoundNothing, Construct, CreateRaises
  <2>2. QED
    BY <2>1
<1>2. CASE Answered
  <2>1. detected' = engine \/ (detected' = "vllm" /\ (engine = "other" \/ missed'))
    BY <1>2, AnswerIsRight
  <2>2. UNCHANGED <<engine, probe>> /\ (missed => missed')
    BY <1>2 DEF Answered
  <2>3. QED
    BY <2>1, <2>2
<1>3. CASE NotAnswered
  <2>1. /\ engine' = engine
        /\ missed' = (missed \/ Order[probe] \in Serves[engine])
    BY <1>3 DEF NotAnswered, Path
  <2>2. probe' = probe \/ (probe' = probe + 1 /\ stage' # "found")
    BY <1>3 DEF NotAnswered
  <2>3. \A i \in 1 .. 5 : i < probe' => i < probe \/ i = probe
    BY <2>2
  <2>4. PassedOver'
    BY <2>1, <2>3
  <2>5. stage' = "found" => detected' = fallback' /\ Exhausted'
    BY <1>3 DEF NotAnswered
  <2>6. QED
    BY <2>4, <2>5
<1>4. CASE Rested
  BY <1>4 DEF Rested
<1>5. CASE EngineBoots \/ EngineDies \/ UNCHANGED vars
  BY <1>5 DEF EngineBoots, EngineDies, vars
<1>6. QED
  BY <1>1, <1>2, <1>3, <1>4, <1>5 DEF Next, Detect

\* Whatever the engine does while auto_detect probes it, what is found is what
\* runs, or is taken for vLLM because the engine is unknown or missed a probe.
THEOREM DetectionErrsToVllm == Spec => []DetectionIsRight
<1>1. DetectInv => DetectionIsRight
  BY DEF DetectInv
<1>2. QED
  BY TypeInit, TypeNext, DetectInit, DetectNext, <1>1, PTL DEF Spec

------------------------------------------------------------------------------
(* The HTTP session.                                                       *)

HttpInv ==
  /\ given => http = "open"
  /\ ~given /\ stage \in {"new", "made", "asked"} => http = "none"
  /\ SessionIsReleased

LEMMA HttpInit == Init => HttpInv
  BY DEF Init, HttpInv, SessionIsReleased

LEMMA HttpNext == TypeOK /\ HttpInv /\ [Next]_vars => HttpInv'
<1> SUFFICES ASSUME TypeOK, HttpInv, [Next]_vars PROVE HttpInv'
  OBVIOUS
<1> USE DEF TypeOK, HttpInv, SessionIsReleased, call
<1>1. CASE Made \/ Started
  BY <1>1 DEF Made, Started
<1>2. CASE CreateNamed \/ CreateFound \/ CreateFoundNothing
  <2>1. UNCHANGED <<given, http>>
    BY <1>2 DEF CreateNamed, CreateFound, CreateFoundNothing
  <2>2. stage \in {"asked", "found", "nothing"}
    BY <1>2 DEF CreateNamed, CreateFound, CreateFoundNothing
  <2>3. stage' \in {"serving", "raised", "returned"}
    BY <1>2 DEF CreateNamed, CreateFound, CreateFoundNothing, Construct, CreateRaises
  <2>4. QED
    BY <2>1, <2>2, <2>3
<1>3. CASE CreateAuto
  BY <1>3 DEF CreateAuto
<1>4. CASE Answered
  BY <1>4 DEF Answered, Release
<1>5. CASE NotAnswered
  BY <1>5 DEF NotAnswered, Release
<1>6. CASE Rested
  BY <1>6 DEF Rested
<1>7. CASE EngineBoots \/ EngineDies \/ UNCHANGED vars
  BY <1>7 DEF EngineBoots, EngineDies, vars
<1>8. QED
  BY <1>1, <1>2, <1>3, <1>4, <1>5, <1>6, <1>7 DEF Next, Caller, Detect

\* auto_detect closes the HTTP session it made on every way out, and leaves one
\* that was given open.
THEOREM ProbesReleaseSession == Spec => []SessionIsReleased
<1>1. HttpInv => SessionIsReleased
  BY DEF HttpInv
<1>2. QED
  BY TypeInit, TypeNext, HttpInit, HttpNext, <1>1, PTL DEF Spec
==============================================================================
