---------------------------- MODULE MCStopFilter -----------------------------
(* Instances of StopFilter: a stop word that overlaps itself, one inside     *)
(* another, and none at all, over two letters.                               *)
EXTENDS StopFilter

TwoLetters == {"a", "b"}
UpToThree == UNION {[1..n -> TwoLetters] : n \in 1..3}

SomeLists ==
  { <<>>, <<<<"a", "a", "b">>>>, <<<<"a", "b", "a">>>>,
    <<<<"a", "b", "a", "b">>, <<"b", "b">>>> }
==============================================================================
