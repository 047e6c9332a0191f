------------------------------- MODULE MCWords -------------------------------
(* An instance of Words for TLC: "s" takes two bytes and is a plural ending, *)
(* "a" is a stop word, "." is no part of a word.                             *)
EXTENDS Words

MCWidth == [r \in Runes |-> IF r = "s" THEN 2 ELSE 1]

\* The stem of a word without its plural ending.
MCStem(word) ==
  IF Len(word) > 1 /\ word[Len(word)] = "s" THEN SubSeq(word, 1, Len(word) - 1)
                                            ELSE word

MCStopWords == {<<"a">>}
=============================================================================
