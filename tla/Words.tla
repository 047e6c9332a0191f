-------------------------------- MODULE Words --------------------------------
(***************************************************************************)
(* The words service (words/main.go, words/words/words.go) and its two     *)
(* clients: update normalises the description of a comic and stores the    *)
(* words, search normalises the phrase asked for and looks its words up.   *)
(*                                                                         *)
(* A phrase is a sequence of runes, of which only those that can be part   *)
(* of a word and their length in UTF-8 are told apart.  The stemmer and    *)
(* its list of stop words are an external library.                         *)
(***************************************************************************)
EXTENDS Integers, Sequences, SequencesExt

CONSTANTS
  Runes,          \* all runes
  WordRunes,      \* those for which IsLetter or IsDigit holds
  Width,          \* length of a rune in bytes
  Stem(_),        \* english.Stem
  StopWords,      \* the words english.IsStopWord knows
  maxPhraseLen,   \* in bytes
  MaxRunes        \* bound on the length of a phrase, in runes

ASSUME WordsAssumption ==
  /\ WordRunes \subseteq Runes
  /\ Width \in [Runes -> 1..4]
  /\ maxPhraseLen \in Nat
  /\ MaxRunes \in Nat

Phrases == SeqOf(Runes, MaxRunes)

VARIABLES
  caller,      \* "update" or "search" while one of them calls Norm
  phrase,      \* the phrase of the call
  fields,      \* Norm: words not looked at yet
  unique,      \* Norm: uniqueNormWords
  reply,       \* what the client of the service returns
  stored       \* the comic in the table: its description and its words

vars == <<caller, phrase, fields, unique, reply, stored>>

None == [ok |-> FALSE, words |-> <<>>]
NoComic == [description |-> <<>>, words |-> <<>>]

Init ==
  /\ caller = "none"
  /\ phrase = <<>>
  /\ fields = <<>>
  /\ unique = {}
  /\ reply = None
  /\ stored = NoComic

-----------------------------------------------------------------------------
(* The service.                                                            *)

\* len(phrase): bytes, not runes.
Bytes(p) == FoldLeft(LAMBDA n, r : n + Width[r], 0, p)

\* One rune of the scan: the fields that have ended, and the one being read.
Scanned(s, r) ==
  IF r \in WordRunes THEN [s EXCEPT !.field = Append(@, r)]
  ELSE [field |-> <<>>,
        ended |-> IF s.field = <<>> THEN s.ended ELSE Append(s.ended, s.field)]

\* The scan after n runes.
Scan(p) ==
  LET scan[n \in 0..Len(p)] ==
        IF n = 0 THEN [field |-> <<>>, ended |-> <<>>] ELSE Scanned(scan[n - 1], p[n])
  IN  scan

\* strings.FieldsFunc: the words between the other runes, in their order.
FieldsFunc(p) ==
  LET end == Scan(p)[Len(p)]
  IN  IF end.field = <<>> THEN end.ended ELSE Append(end.ended, end.field)

\* MUTANT of Norm: a phrase that is too long is cut instead of refused.
NormCuts(who, p) ==
  /\ caller = "none"
  /\ caller' = who
  /\ phrase' = p
  /\ \E q \in Prefixes(p) :
       /\ Bytes(q) <= maxPhraseLen
       /\ q # p => Bytes(SubSeq(p, 1, Len(q) + 1)) > maxPhraseLen
       /\ fields' = FieldsFunc(q)
  /\ unique' = {}
  /\ reply' = None
  /\ UNCHANGED stored

\* The gRPC server of the words service accepts the phrase.
Norm(who, p) ==
  /\ caller = "none"
  /\ Bytes(p) <= maxPhraseLen
  /\ caller' = who
  /\ phrase' = p
  /\ fields' = FieldsFunc(p)
  /\ unique' = {}
  /\ reply' = None
  /\ UNCHANGED stored

\* ResourceExhausted; both clients make ErrBadArguments of it.  Update stores
\* nothing: the comic will be asked for again, and refused again.
NormRefuses(p) ==
  /\ caller = "none"
  /\ Bytes(p) > maxPhraseLen
  /\ phrase' = p
  /\ reply' = None
  /\ UNCHANGED <<caller, fields, unique, stored>>

\* MUTANT of NormWord: the stop words are looked up before the stem is taken.
NormWordStopsFirst ==
  /\ fields # <<>>
  /\ unique' = IF Head(fields) \in StopWords THEN unique
                                             ELSE unique \union {Stem(Head(fields))}
  /\ fields' = Tail(fields)
  /\ UNCHANGED <<caller, phrase, reply, stored>>

\* One round of the loop of Norm.
NormWord ==
  LET word == Stem(Head(fields))
  IN  /\ fields # <<>>
      /\ unique' = IF word \in StopWords THEN unique ELSE unique \union {word}
      /\ fields' = Tail(fields)
      /\ UNCHANGED <<caller, phrase, reply, stored>>

\* The keys of the map, in any order.  The update service stores them.
NormReturns ==
  /\ caller # "none"
  /\ fields = <<>>
  /\ \E words \in SetToSeqs(unique) :
       /\ reply' = [ok |-> TRUE, words |-> words]
       /\ stored' = IF caller = "update"
                      THEN [description |-> phrase, words |-> words]
                      ELSE stored
  /\ caller' = "none"
  /\ unique' = {}
  /\ UNCHANGED <<phrase, fields>>

Next ==
  \/ \E p \in Phrases :
       \/ stored = NoComic /\ Norm("update", p)
       \/ stored # NoComic /\ Norm("search", p)
       \/ NormRefuses(p)
  \/ NormWord
  \/ NormReturns

Spec == Init /\ [][Next]_vars

-----------------------------------------------------------------------------
(* Properties.                                                             *)

\* A word of the phrase: a stretch of word runes that nothing extends.
IsWordAt(p, i, j) ==
  /\ \A k \in i..j : p[k] \in WordRunes
  /\ i = 1 \/ p[i - 1] \notin WordRunes
  /\ j = Len(p) \/ p[j + 1] \notin WordRunes

\* The first and the last rune of each word of the phrase.
WordsAt(p) ==
  {w \in (1..Len(p)) \X (1..Len(p)) : w[1] <= w[2] /\ IsWordAt(p, w[1], w[2])}

\* What Norm is for: the stems of the words of a phrase, stop words left out.
Normalised(p) ==
  {Stem(SubSeq(p, w[1], w[2])) : w \in WordsAt(p)} \ StopWords

\* Norm answers what it is for, each word once.
AnswerIsExact ==
  reply.ok => /\ ToSet(reply.words) = Normalised(phrase)
              /\ Len(reply.words) = Cardinality(ToSet(reply.words))

\* p is a stretch of whole words of d.
Quotes(p, d) ==
  \E i \in 0..Len(d) :
    LET j == i + Len(p)
    IN  /\ j <= Len(d)
        /\ p = SubSeq(d, i + 1, j)
        /\ i = 0 \/ j = i \/ d[i] \notin WordRunes \/ p[1] \notin WordRunes
        /\ j = Len(d) \/ j = i \/ d[j + 1] \notin WordRunes \/ p[Len(p)] \notin WordRunes

\* Who quotes the description of a stored comic finds it: every word the
\* search is asked for is among those update has stored, although the two
\* normalised different phrases at different times.
QuotesAreFound ==
  reply.ok /\ stored # NoComic /\ Quotes(phrase, stored.description)
    => ToSet(reply.words) \subseteq ToSet(stored.words)
=============================================================================
