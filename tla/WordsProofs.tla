----------------------------- MODULE WordsProofs -----------------------------
(***************************************************************************)
(* Theorems about Words, for every alphabet, stemmer, list of stop words   *)
(* and limit, and for phrases of every length.                             *)
(***************************************************************************)
EXTENDS Words, TLAPS, SequenceTheorems, FiniteSetTheorems, WellFoundedInduction

-----------------------------------------------------------------------------
(* The scan.  The provers cannot use the induction theorems of the         *)
(* library, whose parameter is an operator, but they can use that a set of *)
(* naturals has a least element.                                           *)

LEMMA Least ==
  ASSUME NEW S \in SUBSET Nat, S # {}
  PROVE  \E n \in S : \A m \in S : n <= m
  <1>1. IsWellFoundedOn(OpToRel(<, Nat), Nat)
    BY NatLessThanWellFounded
  <1>2. PICK x \in S : \A y \in S : ~(<<y, x>> \in OpToRel(<, Nat))
    BY <1>1, WFMin
  <1>3. \A y \in S : ~(y < x)
    BY <1>2 DEF OpToRel
  <1> QED
    BY <1>3

\* What holds of 0 and is handed on by every number below l holds up to l.
LEMMA UpTo ==
  ASSUME NEW l \in Nat, NEW Holds, 0 \in Holds,
         \A n \in 0..(l - 1) : n \in Holds => n + 1 \in Holds
  PROVE  \A n \in 0..l : n \in Holds
  <1> DEFINE Bad == {n \in 0..l : n \notin Holds}
  <1> SUFFICES ASSUME Bad # {} PROVE FALSE
    OBVIOUS
  <1>1. Bad \in SUBSET Nat
    OBVIOUS
  <1>2. PICK n \in Bad : \A m \in Bad : n <= m
    BY <1>1, Least
  <1>3. n # 0 /\ n - 1 \in 0..(l - 1)
    BY <1>2
  <1>4. n - 1 \in Holds
    BY <1>2, <1>3
  <1>5. (n - 1) + 1 \in Holds
    BY <1>3, <1>4
  <1> QED
    BY <1>2, <1>3, <1>5

Start == [field |-> <<>>, ended |-> <<>>]

\* The recursive definition of Scan defines a function: every beginning of
\* the phrase has one that satisfies it.
LEMMA ScanDefined ==
  ASSUME NEW p \in Seq(Runes)
  PROVE  Scan(p) = [n \in 0..Len(p) |->
                      IF n = 0 THEN Start ELSE Scanned(Scan(p)[n - 1], p[n])]
  <1> DEFINE Scans(g, k) ==
               g = [n \in 0..k |-> IF n = 0 THEN Start ELSE Scanned(g[n - 1], p[n])]
             Holds == {k \in Nat : \E g : Scans(g, k)}
  <1>1. Len(p) \in Nat
    BY LenProperties
  <1>2. 0 \in Holds
    <2> DEFINE g == [n \in 0..0 |-> Start]
    <2>1. Scans(g, 0)
      OBVIOUS
    <2> QED
      BY <2>1
  <1>3. ASSUME NEW k \in Nat, k \in Holds PROVE k + 1 \in Holds
    <2>1. PICK g : Scans(g, k)
      BY <1>3
    <2> DEFINE h == [n \in 0..(k + 1) |->
                       IF n <= k THEN g[n] ELSE Scanned(g[k], p[k + 1])]
    <2>2. \A n \in 0..k : g[n] = IF n = 0 THEN Start ELSE Scanned(g[n - 1], p[n])
      BY <2>1
    <2>3. \A n \in 0..k : h[n] = g[n]
      OBVIOUS
    <2>4. h[k + 1] = Scanned(g[k], p[k + 1])
      OBVIOUS
    <2> HIDE DEF Scans
    <2>5. \A n \in 0..(k + 1) : h[n] = IF n = 0 THEN Start ELSE Scanned(h[n - 1], p[n])
      <3> SUFFICES ASSUME NEW n \in 0..(k + 1)
                   PROVE  h[n] = IF n = 0 THEN Start ELSE Scanned(h[n - 1], p[n])
        OBVIOUS
      <3>1. CASE n = k + 1
        <4>1. n # 0 /\ n - 1 = k
          BY <3>1
        <4> HIDE DEF h
        <4> QED
          BY <2>3, <2>4, <3>1, <4>1
      <3>2. CASE n \in 0..k
        <4>1. n = 0 \/ n - 1 \in 0..k
          BY <3>2
        <4> HIDE DEF h
        <4> QED
          BY <2>2, <2>3, <3>2, <4>1
      <3> QED
        BY <3>1, <3>2
    <2>6. Scans(h, k + 1)
      <3>1. h = [n \in 0..(k + 1) |-> h[n]]
        OBVIOUS
      <3> HIDE DEF h
      <3> QED
        BY <2>5, <3>1 DEF Scans
    <2> QED
      BY <2>6
  <1> HIDE DEF Holds
  <1>4. Len(p) \in Holds
    <2>1. \A n \in 0..(Len(p) - 1) : n \in Holds => n + 1 \in Holds
      BY <1>1, <1>3
    <2>2. \A n \in 0..Len(p) : n \in Holds
      BY ONLY <1>1, <1>2, <2>1, UpTo
    <2> QED
      BY <1>1, <2>2
  <1>5. \E g : Scans(g, Len(p))
    BY <1>4 DEF Holds
  <1> QED
    BY <1>5 DEF Scan, Start

LEMMA ScanSteps ==
  ASSUME NEW p \in Seq(Runes)
  PROVE  /\ Scan(p)[0] = Start
         /\ \A n \in 0..(Len(p) - 1) : Scan(p)[n + 1] = Scanned(Scan(p)[n], p[n + 1])
  <1>1. Len(p) \in Nat
    BY LenProperties
  <1>2. \A n \in 0..Len(p) :
          Scan(p)[n] = IF n = 0 THEN Start ELSE Scanned(Scan(p)[n - 1], p[n])
    BY ScanDefined
  <1>3. ASSUME NEW n \in 0..(Len(p) - 1)
        PROVE  n + 1 \in 0..Len(p) /\ n + 1 # 0 /\ (n + 1) - 1 = n
    BY <1>1
  <1> QED
    BY <1>1, <1>2, <1>3

-----------------------------------------------------------------------------
(* What the scan finds.  After n runes the field being read began behind   *)
(* some rune k, and the fields that have ended are the words up to there.  *)

EndedBy(p, k) == {w \in WordsAt(p) : w[2] <= k}

Texts(p, S) == {SubSeq(p, w[1], w[2]) : w \in S}

\* The field being read begins behind rune k: a field has just ended there.
FieldFrom(p, k, n) ==
  /\ k \in 0..n
  /\ k = 0 \/ p[k] \notin WordRunes
  /\ \A m \in (k + 1)..n : p[m] \in WordRunes

Found(p, n) ==
  /\ Scan(p)[n] \in [field : Seq(Runes), ended : Seq(Seq(Runes))]
  /\ \E k \in 0..n :
       /\ FieldFrom(p, k, n)
       /\ Scan(p)[n].field = SubSeq(p, k + 1, n)
       /\ ToSet(Scan(p)[n].ended) = Texts(p, EndedBy(p, k))

\* When the field read so far ends, it is the one word that is new.
LEMMA FieldEnds ==
  ASSUME NEW p \in Seq(Runes), NEW n \in 0..Len(p), NEW k \in 0..n,
         FieldFrom(p, k, n), n = Len(p) \/ p[n + 1] \notin WordRunes
  PROVE  EndedBy(p, n) = EndedBy(p, k) \cup (IF k = n THEN {} ELSE {<<k + 1, n>>})
  <1>1. Len(p) \in Nat /\ n \in Nat /\ k \in Nat
    BY LenProperties
  <1>2. ASSUME k # n PROVE <<k + 1, n>> \in EndedBy(p, n)
    <2>1. k + 1 \in 1..Len(p) /\ n \in 1..Len(p) /\ k + 1 <= n
      BY <1>1, <1>2
    <2>2. IsWordAt(p, k + 1, n)
      BY <1>1, <1>2 DEF IsWordAt, FieldFrom
    <2> QED
      BY <2>1, <2>2 DEF EndedBy, WordsAt
  <1>3. ASSUME NEW i \in 1..Len(p), NEW j \in 1..Len(p), i <= j, j <= n, k < j,
               IsWordAt(p, i, j)
        PROVE  i = k + 1 /\ j = n
    <2>1. j = n
      <3> SUFFICES ASSUME j < n PROVE FALSE
        BY <1>1, <1>3
      <3>1. p[j + 1] \notin WordRunes
        BY <1>1, <1>3 DEF IsWordAt
      <3>2. j + 1 \in (k + 1)..n
        BY <1>1, <1>3
      <3> QED
        BY <3>1, <3>2 DEF FieldFrom
    <2>2. i > k
      <3> SUFFICES ASSUME i <= k PROVE FALSE
        BY <1>1, <1>3
      <3>1. k \in i..j /\ k # 0
        BY <1>1, <1>3
      <3> QED
        BY <1>3, <3>1 DEF IsWordAt, FieldFrom
    <2>3. i <= k + 1
      <3> SUFFICES ASSUME i > k + 1 PROVE FALSE
        BY <1>1, <1>3
      <3>1. p[i - 1] \notin WordRunes
        BY <1>1, <1>3 DEF IsWordAt
      <3>2. i - 1 \in (k + 1)..n
        BY <1>1, <1>3
      <3> QED
        BY <3>1, <3>2 DEF FieldFrom
    <2> QED
      BY <1>1, <2>1, <2>2, <2>3
  <1>4. ASSUME NEW w \in EndedBy(p, n), w \notin EndedBy(p, k)
        PROVE  k # n /\ w = <<k + 1, n>>
    <2>1. /\ w \in (1..Len(p)) \X (1..Len(p)) /\ w[1] <= w[2] /\ w[2] <= n
          /\ k < w[2] /\ IsWordAt(p, w[1], w[2])
      BY <1>1, <1>4 DEF EndedBy, WordsAt
    <2>2. w[1] = k + 1 /\ w[2] = n
      BY <1>3, <2>1
    <2> QED
      BY <1>1, <2>1, <2>2
  <1>5. EndedBy(p, k) \subseteq EndedBy(p, n)
    BY <1>1 DEF EndedBy, WordsAt
  <1> QED
    BY <1>2, <1>4, <1>5

LEMMA SetOfAppend ==
  ASSUME NEW S, NEW s \in Seq(S), NEW e \in S
  PROVE  ToSet(Append(s, e)) = ToSet(s) \cup {e}
  <1>1. Len(s) \in Nat /\ DOMAIN s = 1..Len(s)
    BY LenProperties
  <1>2. /\ Append(s, e) \in Seq(S) /\ Len(Append(s, e)) = Len(s) + 1
        /\ \A i \in 1..Len(s) : Append(s, e)[i] = s[i]
        /\ Append(s, e)[Len(s) + 1] = e
    BY AppendProperties
  <1>3. DOMAIN Append(s, e) = 1..(Len(s) + 1)
    BY <1>2, LenProperties
  <1>4. 1..(Len(s) + 1) = (1..Len(s)) \cup {Len(s) + 1}
    BY <1>1
  <1> QED
    BY <1>1, <1>2, <1>3, <1>4 DEF ToSet

\* Ending the field read so far leaves the words up to here.
LEMMA Ended ==
  ASSUME NEW p \in Seq(Runes), NEW n \in 0..Len(p), Found(p, n),
         n = Len(p) \/ p[n + 1] \notin WordRunes
  PROVE  LET s   == Scan(p)[n]
             all == IF s.field = <<>> THEN s.ended ELSE Append(s.ended, s.field)
         IN  all \in Seq(Seq(Runes)) /\ ToSet(all) = Texts(p, EndedBy(p, n))
  <1> DEFINE s == Scan(p)[n]
             all == IF s.field = <<>> THEN s.ended ELSE Append(s.ended, s.field)
  <1>1. PICK k \in 0..n :
          /\ FieldFrom(p, k, n)
          /\ s.field = SubSeq(p, k + 1, n)
          /\ ToSet(s.ended) = Texts(p, EndedBy(p, k))
    BY DEF Found
  <1>2. s.field \in Seq(Runes) /\ s.ended \in Seq(Seq(Runes))
    BY DEF Found
  <1>3. Len(p) \in Nat /\ n \in Nat /\ k \in Nat
    BY LenProperties
  <1>4. \A m \in (k + 1)..n : p[m] \in Runes
    BY <1>3, ElementOfSeq
  <1>5. Len(SubSeq(p, k + 1, n)) = n - k
    BY <1>3, <1>4, SubSeqProperties
  <1> HIDE DEF s
  <1>6. s.field = <<>> <=> k = n
    BY <1>1, <1>2, <1>3, <1>5, EmptySeq
  <1>7. EndedBy(p, n) = EndedBy(p, k) \cup (IF k = n THEN {} ELSE {<<k + 1, n>>})
    BY <1>1, FieldEnds
  <1>8. ASSUME k = n
        PROVE all \in Seq(Seq(Runes)) /\ ToSet(all) = Texts(p, EndedBy(p, n))
    <2>1. all = s.ended
      BY <1>6, <1>8
    <2>2. EndedBy(p, n) = EndedBy(p, k)
      BY <1>7, <1>8
    <2> HIDE DEF all
    <2> QED
      BY <1>1, <1>2, <2>1, <2>2
  <1>9. ASSUME k # n
        PROVE all \in Seq(Seq(Runes)) /\ ToSet(all) = Texts(p, EndedBy(p, n))
    <2>1. all = Append(s.ended, s.field)
      BY <1>6, <1>9
    <2> HIDE DEF all
    <2>2. ToSet(all) = ToSet(s.ended) \cup {s.field}
      <3> DEFINE e == s.ended
                 f == s.field
      <3>1. e \in Seq(Seq(Runes)) /\ f \in Seq(Runes)
        BY <1>2
      <3> HIDE DEF e, f
      <3>2. ToSet(Append(e, f)) = ToSet(e) \cup {f}
        BY <3>1, SetOfAppend
      <3> QED
        BY <2>1, <3>2 DEF e, f
    <2>3. EndedBy(p, n) = EndedBy(p, k) \cup {<<k + 1, n>>}
      BY <1>7, <1>9
    <2>4. Texts(p, EndedBy(p, n)) = Texts(p, EndedBy(p, k)) \cup {SubSeq(p, k + 1, n)}
      <3> DEFINE S == EndedBy(p, k)
                 w0 == <<k + 1, n>>
      <3>1. w0[1] = k + 1 /\ w0[2] = n
        OBVIOUS
      <3> HIDE DEF S, w0
      <3>2. Texts(p, S \cup {w0}) = Texts(p, S) \cup {SubSeq(p, w0[1], w0[2])}
        BY DEF Texts
      <3> QED
        BY <2>3, <3>1, <3>2 DEF S, w0
    <2>5. all \in Seq(Seq(Runes))
      BY <1>2, <2>1, AppendProperties
    <2> QED
      BY <1>1, <2>2, <2>4, <2>5
  <1>10. all \in Seq(Seq(Runes)) /\ ToSet(all) = Texts(p, EndedBy(p, n))
    BY <1>8, <1>9
  <1> QED
    BY <1>10 DEF s

LEMMA ScanFinds ==
  ASSUME NEW p \in Seq(Runes)
  PROVE  \A n \in 0..Len(p) : Found(p, n)
  <1>1. Len(p) \in Nat
    BY LenProperties
  <1>2. Found(p, 0)
    <2>1. Scan(p)[0] = Start
      BY ScanSteps
    <2>2. EndedBy(p, 0) = {}
      BY <1>1 DEF EndedBy, WordsAt
    <2>3. ToSet(<<>>) = {}
      BY DEF ToSet
    <2>4. SubSeq(p, 1, 0) = <<>>
      BY SubSeqEmpty
    <2>5. FieldFrom(p, 0, 0)
      BY DEF FieldFrom
    <2>6. Texts(p, EndedBy(p, 0)) = {}
      BY <2>2 DEF Texts
    <2>7. <<>> \in Seq(Runes) /\ <<>> \in Seq(Seq(Runes))
      BY EmptySeq
    <2>8. Start.field = <<>> /\ Start.ended = <<>>
      BY DEF Start
    <2>9. Start \in [field : Seq(Runes), ended : Seq(Seq(Runes))]
      BY <2>7 DEF Start
    <2>10. 0 \in 0..0 /\ 0 + 1 = 1
      OBVIOUS
    <2>11. \E k \in 0..0 : /\ FieldFrom(p, k, 0)
                           /\ Start.field = SubSeq(p, k + 1, 0)
                           /\ ToSet(Start.ended) = Texts(p, EndedBy(p, k))
      BY <2>3, <2>4, <2>5, <2>6, <2>8, <2>10
    <2> QED
      BY <2>1, <2>9, <2>11 DEF Found
  <1>3. ASSUME NEW n \in 0..(Len(p) - 1), Found(p, n) PROVE Found(p, n + 1)
    <2>1. n \in Nat /\ n \in 0..Len(p) /\ n + 1 \in 1..Len(p)
      BY <1>1
    <2>2. p[n + 1] \in Runes
      BY <2>1, ElementOfSeq
    <2>3. Scan(p)[n + 1] = Scanned(Scan(p)[n], p[n + 1])
      BY ScanSteps
    <2>4. Scan(p)[n] \in [field : Seq(Runes), ended : Seq(Seq(Runes))]
      BY <1>3 DEF Found
    <2>5. CASE p[n + 1] \in WordRunes
      <3>1. PICK k \in 0..n :
              /\ FieldFrom(p, k, n)
              /\ Scan(p)[n].field = SubSeq(p, k + 1, n)
              /\ ToSet(Scan(p)[n].ended) = Texts(p, EndedBy(p, k))
        BY <1>3 DEF Found
      <3>2. /\ Scan(p)[n + 1] = [Scan(p)[n] EXCEPT !.field = Append(@, p[n + 1])]
            /\ Scan(p)[n + 1].field = Append(Scan(p)[n].field, p[n + 1])
            /\ Scan(p)[n + 1].ended = Scan(p)[n].ended
        BY <2>3, <2>4, <2>5 DEF Scanned
      <3>3. Scan(p)[n + 1] \in [field : Seq(Runes), ended : Seq(Seq(Runes))]
        <4>1. Append(Scan(p)[n].field, p[n + 1]) \in Seq(Runes)
          BY <2>2, <2>4, AppendProperties
        <4> QED
          BY <2>4, <3>2, <4>1
      <3>4. FieldFrom(p, k, n + 1) /\ k \in 0..(n + 1)
        BY <2>1, <2>5, <3>1 DEF FieldFrom
      <3>5. SubSeq(p, k + 1, n + 1) = Append(SubSeq(p, k + 1, n), p[n + 1])
        <4>1. k + 1 \in 1..Len(p) /\ n + 1 \in (k + 1)..Len(p) /\ (n + 1) - 1 = n
          BY <1>1, <2>1
        <4>2. SubSeq(p, k + 1, n + 1) = SubSeq(p, k + 1, n) \o <<p[n + 1]>>
          BY <4>1, SubSeqRecursiveSecond
        <4>3. SubSeq(p, k + 1, n) \in Seq(Runes)
          BY <2>4, <3>1
        <4> QED
          BY <2>2, <4>2, <4>3, AppendIsConcat
      <3> QED
        BY <3>1, <3>2, <3>3, <3>4, <3>5 DEF Found
    <2>6. CASE p[n + 1] \notin WordRunes
      <3> DEFINE s == Scan(p)[n]
                 all == IF s.field = <<>> THEN s.ended ELSE Append(s.ended, s.field)
      <3>1. all \in Seq(Seq(Runes)) /\ ToSet(all) = Texts(p, EndedBy(p, n))
        BY <1>3, <2>1, <2>6, Ended
      <3>2. Scan(p)[n + 1] = [field |-> <<>>, ended |-> all]
        BY <2>3, <2>6 DEF Scanned
      <3> HIDE DEF all
      <3>3. EndedBy(p, n + 1) = EndedBy(p, n)
        BY <1>1, <2>1, <2>6 DEF EndedBy, WordsAt, IsWordAt
      <3>4. FieldFrom(p, n + 1, n + 1)
        BY <2>1, <2>6 DEF FieldFrom
      <3>5. SubSeq(p, (n + 1) + 1, n + 1) = <<>>
        BY <2>1, SubSeqEmpty
      <3>6. <<>> \in Seq(Runes)
        BY EmptySeq
      <3>7. n + 1 \in 0..(n + 1)
        BY <2>1
      <3> QED
        BY <3>1, <3>2, <3>3, <3>4, <3>5, <3>6, <3>7 DEF Found
    <2> QED
      BY <2>5, <2>6
  <1> DEFINE Holds == {n \in 0..Len(p) : Found(p, n)}
  <1>4. 0 \in Holds
    BY <1>1, <1>2
  <1>5. \A n \in 0..(Len(p) - 1) : n \in Holds => n + 1 \in Holds
    BY <1>1, <1>3
  <1> HIDE DEF Holds
  <1>6. \A n \in 0..Len(p) : n \in Holds
    BY ONLY <1>1, <1>4, <1>5, UpTo
  <1> QED
    BY <1>6 DEF Holds

\* What FieldsFunc cuts a phrase into: its words, and nothing else, whatever
\* the phrase begins and ends with and however many separators it holds.
THEOREM FieldsAreTheWords ==
  ASSUME NEW p \in Seq(Runes)
  PROVE  /\ FieldsFunc(p) \in Seq(Seq(Runes))
         /\ ToSet(FieldsFunc(p)) = {SubSeq(p, w[1], w[2]) : w \in WordsAt(p)}
  <1>1. Len(p) \in Nat /\ Len(p) \in 0..Len(p)
    BY LenProperties
  <1>2. Found(p, Len(p))
    BY <1>1, ScanFinds
  <1>3. /\ FieldsFunc(p) \in Seq(Seq(Runes))
        /\ ToSet(FieldsFunc(p)) = Texts(p, EndedBy(p, Len(p)))
    BY <1>1, <1>2, Ended DEF FieldsFunc
  <1>4. EndedBy(p, Len(p)) = WordsAt(p)
    BY <1>1 DEF EndedBy, WordsAt
  <1> QED
    BY <1>3, <1>4 DEF Texts

-----------------------------------------------------------------------------
(* What one call of Norm does to the words of its phrase.                  *)

Stems(S) == {Stem(f) : f \in S} \ StopWords

LEMMA NormalisedIsStems ==
  ASSUME NEW p \in Seq(Runes)
  PROVE  Normalised(p) = Stems(ToSet(FieldsFunc(p)))
  <1> DEFINE T == {SubSeq(p, w[1], w[2]) : w \in WordsAt(p)}
  <1>1. ToSet(FieldsFunc(p)) = T
    BY FieldsAreTheWords
  <1>2. {Stem(SubSeq(p, w[1], w[2])) : w \in WordsAt(p)} = {Stem(f) : f \in T}
    OBVIOUS
  <1> QED
    BY <1>1, <1>2 DEF Normalised, Stems

LEMMA SetOfHeadAndTail ==
  ASSUME NEW S, NEW s \in Seq(S), s # <<>>
  PROVE  ToSet(s) = {Head(s)} \cup ToSet(Tail(s))
  <1>1. /\ Len(s) \in Nat /\ DOMAIN s = 1..Len(s)
        /\ Tail(s) \in Seq(S) /\ Len(Tail(s)) = Len(s) - 1
        /\ \A i \in 1..Len(Tail(s)) : Tail(s)[i] = s[i + 1]
    BY LenProperties, HeadTailProperties
  <1>2. DOMAIN Tail(s) = 1..(Len(s) - 1)
    BY <1>1, LenProperties
  <1>3. Len(s) # 0
    BY EmptySeq
  <1>4. Head(s) = s[1]
    BY DEF Head
  <1>5. ASSUME NEW e \in ToSet(s) PROVE e \in {Head(s)} \cup ToSet(Tail(s))
    <2>1. PICK i \in 1..Len(s) : e = s[i]
      BY <1>1, <1>5 DEF ToSet
    <2>2. CASE i = 1
      BY <1>4, <2>1, <2>2
    <2>3. CASE i # 1
      <3>1. i - 1 \in 1..(Len(s) - 1) /\ (i - 1) + 1 = i
        BY <1>1, <2>3
      <3>2. Tail(s)[i - 1] = e
        BY <1>1, <2>1, <3>1
      <3> QED
        BY <1>2, <3>1, <3>2 DEF ToSet
    <2> QED
      BY <2>2, <2>3
  <1>6. ASSUME NEW e \in {Head(s)} \cup ToSet(Tail(s)) PROVE e \in ToSet(s)
    <2>1. CASE e = Head(s)
      <3>1. 1 \in 1..Len(s)
        BY <1>1, <1>3
      <3> QED
        BY <1>1, <1>4, <2>1, <3>1 DEF ToSet
    <2>2. CASE e \in ToSet(Tail(s))
      <3>1. PICK i \in 1..(Len(s) - 1) : e = Tail(s)[i]
        BY <1>2, <2>2 DEF ToSet
      <3>2. i + 1 \in 1..Len(s) /\ e = s[i + 1]
        BY <1>1, <3>1
      <3> QED
        BY <1>1, <3>2 DEF ToSet
    <2> QED
      BY <1>6, <2>1, <2>2
  <1> QED
    BY <1>5, <1>6

\* Any order of the keys of a map holds each of them, and holds it once.
LEMMA KeysInAnyOrder ==
  ASSUME NEW S, IsFiniteSet(S), NEW s \in SetToSeqs(S)
  PROVE  ToSet(s) = S /\ Len(s) = Cardinality(S)
  <1> DEFINE D == 1..Cardinality(S)
  <1>1. Cardinality(S) \in Nat
    BY FS_CardinalityType
  <1>2. s \in [D -> S] /\ \A i, j \in D : i # j => s[i] # s[j]
    BY DEF SetToSeqs
  <1>3. s \in Injection(D, S)
    BY <1>2 DEF Injection, IsInjective
  <1>4. IsFiniteSet(D) /\ Cardinality(D) = Cardinality(S)
    BY <1>1, FS_Interval
  <1> HIDE DEF D
  <1>5. s \in Surjection(D, S)
    BY <1>3, <1>4, FS_Injection
  <1>6. ToSet(s) = S
    BY <1>2, <1>5 DEF Surjection, ToSet
  <1>7. s \in Seq(S)
    BY <1>1, <1>2 DEF D
  <1>8. Len(s) = Cardinality(S)
    <2>1. Len(s) \in Nat /\ DOMAIN s = 1..Len(s)
      BY <1>7, LenProperties
    <2>2. DOMAIN s = 1..Cardinality(S)
      BY <1>2 DEF D
    <2> QED
      BY <1>1, <2>1, <2>2
  <1> QED
    BY <1>6, <1>8

-----------------------------------------------------------------------------
(* The invariant: between two rounds of its loop Norm has the stems of the *)
(* words it has looked at, those it has not are still to come, and every   *)
(* comic was stored with the words of its description.                     *)

WordsInv ==
  /\ phrase \in Seq(Runes) /\ stored.description \in Seq(Runes)
  /\ fields \in Seq(Seq(Runes)) /\ IsFiniteSet(unique)
  /\ caller = "none" => fields = <<>>
  /\ caller # "none" => ~reply.ok /\ unique \cup Stems(ToSet(fields)) = Normalised(phrase)
  /\ AnswerIsExact
  /\ ToSet(stored.words) = Normalised(stored.description)

LEMMA WordsInitially == Init => WordsInv
  <1> SUFFICES ASSUME Init PROVE WordsInv
    OBVIOUS
  <1> USE DEF Init
  <1>1. <<>> \in Seq(Runes) /\ <<>> \in Seq(Seq(Runes)) /\ IsFiniteSet({})
    BY EmptySeq, FS_EmptySet
  <1>2. AnswerIsExact
    BY DEF AnswerIsExact, None
  <1>3. ToSet(<<>>) = Normalised(<<>>)
    <2>1. Len(<<>>) = 0
      BY EmptySeq
    <2>2. WordsAt(<<>>) = {}
      BY <2>1 DEF WordsAt
    <2>3. ToSet(<<>>) = {}
      BY DEF ToSet
    <2> QED
      BY <2>2, <2>3 DEF Normalised
  <1> QED
    BY <1>1, <1>2, <1>3 DEF WordsInv, NoComic, None

LEMMA PhrasesAreSequences == Phrases \subseteq Seq(Runes)
  <1>1. ASSUME NEW p \in Phrases PROVE p \in Seq(Runes)
    <2>1. PICK m \in 0..MaxRunes : p \in [1..m -> Runes]
      BY DEF Phrases, SeqOf
    <2>2. m \in Nat
      BY WordsAssumption
    <2> QED
      BY <2>1, <2>2
  <1> QED
    BY <1>1

LEMMA NormKeeps ==
  ASSUME WordsInv, NEW who \in {"update", "search"}, NEW p \in Phrases, Norm(who, p)
  PROVE  WordsInv'
  <1>1. p \in Seq(Runes)
    BY PhrasesAreSequences
  <1>2. /\ caller' = who /\ phrase' = p /\ fields' = FieldsFunc(p)
        /\ unique' = {} /\ reply' = None /\ stored' = stored
    BY DEF Norm
  <1>3. fields' \in Seq(Seq(Runes))
    BY <1>1, <1>2, FieldsAreTheWords
  <1>4. unique' \cup Stems(ToSet(fields')) = Normalised(phrase')
    BY <1>1, <1>2, NormalisedIsStems
  <1>5. IsFiniteSet(unique')
    BY <1>2, FS_EmptySet
  <1>6. ~reply'.ok
    BY <1>2 DEF None
  <1>7. AnswerIsExact'
    BY <1>6 DEF AnswerIsExact
  <1>8. caller' # "none"
    BY <1>2
  <1>9. /\ stored'.description \in Seq(Runes)
        /\ ToSet(stored'.words) = Normalised(stored'.description)
    BY <1>2 DEF WordsInv
  <1> QED
    BY <1>1, <1>2, <1>3, <1>4, <1>5, <1>6, <1>7, <1>8, <1>9 DEF WordsInv

LEMMA NormRefusesKeeps ==
  ASSUME WordsInv, NEW p \in Phrases, NormRefuses(p)
  PROVE  WordsInv'
  <1>1. p \in Seq(Runes)
    BY PhrasesAreSequences
  <1>2. /\ caller = "none" /\ phrase' = p /\ reply' = None
        /\ caller' = caller /\ fields' = fields /\ unique' = unique /\ stored' = stored
    BY DEF NormRefuses
  <1>3. AnswerIsExact'
    BY <1>2 DEF AnswerIsExact, None
  <1> QED
    BY <1>1, <1>2, <1>3 DEF WordsInv

LEMMA NormWordKeeps ==
  ASSUME WordsInv, NormWord
  PROVE  WordsInv'
  <1> DEFINE word == Stem(Head(fields))
             rest == Tail(fields)
  <1>1. /\ fields # <<>> /\ fields' = rest
        /\ unique' = IF word \in StopWords THEN unique ELSE unique \cup {word}
        /\ caller' = caller /\ phrase' = phrase /\ reply' = reply /\ stored' = stored
    BY DEF NormWord
  <1>2. /\ fields \in Seq(Seq(Runes)) /\ caller # "none" /\ ~reply.ok
        /\ unique \cup Stems(ToSet(fields)) = Normalised(phrase)
    BY <1>1 DEF WordsInv
  <1>3. rest \in Seq(Seq(Runes))
    BY <1>1, <1>2, HeadTailProperties
  <1>4. Stems(ToSet(fields)) = (IF word \in StopWords THEN {} ELSE {word}) \cup Stems(ToSet(rest))
    <2> DEFINE first == Head(fields)
               set == ToSet(rest)
    <2>1. ToSet(fields) = {first} \cup set
      BY <1>1, <1>2, SetOfHeadAndTail
    <2> HIDE DEF first, set
    <2>2. Stems({first} \cup set)
            = (IF Stem(first) \in StopWords THEN {} ELSE {Stem(first)}) \cup Stems(set)
      BY DEF Stems
    <2> QED
      BY <2>1, <2>2 DEF first, set
  <1>5. IsFiniteSet(unique')
    BY <1>1, FS_AddElement DEF WordsInv
  <1> HIDE DEF word, rest
  <1>6. unique' \cup Stems(ToSet(fields')) = Normalised(phrase')
    BY <1>1, <1>2, <1>4
  <1>7. AnswerIsExact'
    BY <1>1 DEF WordsInv, AnswerIsExact
  <1> QED
    BY <1>1, <1>2, <1>3, <1>5, <1>6, <1>7 DEF WordsInv

LEMMA NormReturnsKeeps ==
  ASSUME WordsInv, NormReturns
  PROVE  WordsInv'
  <1>1. PICK words \in SetToSeqs(unique) :
          /\ caller # "none" /\ fields = <<>>
          /\ reply' = [ok |-> TRUE, words |-> words]
          /\ stored' = IF caller = "update" THEN [description |-> phrase, words |-> words]
                                            ELSE stored
          /\ caller' = "none" /\ unique' = {} /\ phrase' = phrase /\ fields' = fields
    BY DEF NormReturns
  <1>2. ToSet(words) = unique /\ Len(words) = Cardinality(unique)
    BY KeysInAnyOrder DEF WordsInv
  <1>3. unique = Normalised(phrase)
    <2>1. ToSet(fields) = {}
      BY <1>1 DEF ToSet
    <2>2. Stems({}) = {}
      BY DEF Stems
    <2> QED
      BY <1>1, <2>1, <2>2 DEF WordsInv
  <1>4. reply'.words = words
    BY <1>1
  <1>5. AnswerIsExact'
    BY <1>1, <1>2, <1>3, <1>4 DEF AnswerIsExact
  <1>6. /\ stored'.description \in Seq(Runes)
        /\ ToSet(stored'.words) = Normalised(stored'.description)
    BY <1>1, <1>2, <1>3 DEF WordsInv
  <1>7. IsFiniteSet(unique')
    BY <1>1, FS_EmptySet
  <1> QED
    BY <1>1, <1>5, <1>6, <1>7 DEF WordsInv

\* The invariant, of every behaviour.
THEOREM WordsInvariant == Spec => []WordsInv
  <1>1. WordsInv /\ [Next]_vars => WordsInv'
    <2> SUFFICES ASSUME WordsInv, [Next]_vars PROVE WordsInv'
      OBVIOUS
    <2>1. CASE \E p \in Phrases : \/ stored = NoComic /\ Norm("update", p)
                                  \/ stored # NoComic /\ Norm("search", p)
      BY <2>1, NormKeeps
    <2>2. CASE \E p \in Phrases : NormRefuses(p)
      BY <2>2, NormRefusesKeeps
    <2>3. CASE NormWord
      BY <2>3, NormWordKeeps
    <2>4. CASE NormReturns
      BY <2>4, NormReturnsKeeps
    <2>5. CASE UNCHANGED vars
      BY <2>5 DEF vars, WordsInv, AnswerIsExact
    <2> QED
      BY <2>1, <2>2, <2>3, <2>4, <2>5 DEF Next
  <1> QED
    BY <1>1, WordsInitially, PTL DEF Spec

\* The service answers with the stems of the words of the phrase, stop words
\* left out and each once, whatever the stemmer makes of two words.
THEOREM AnswersAreExact == Spec => []AnswerIsExact
  <1>1. WordsInv => AnswerIsExact
    BY DEF WordsInv
  <1> QED
    BY <1>1, WordsInvariant, PTL

-----------------------------------------------------------------------------
(* Two calls, two phrases.                                                 *)

\* The words of a quotation are words of what it is taken from.
LEMMA QuotationsKeepWords ==
  ASSUME NEW p \in Seq(Runes), NEW d \in Seq(Runes), Quotes(p, d)
  PROVE  Normalised(p) \subseteq Normalised(d)
  <1>1. Len(p) \in Nat /\ Len(d) \in Nat
    BY LenProperties
  <1>2. PICK i \in 0..Len(d) :
          /\ i + Len(p) <= Len(d)
          /\ p = SubSeq(d, i + 1, i + Len(p))
          /\ i = 0 \/ i + Len(p) = i \/ d[i] \notin WordRunes \/ p[1] \notin WordRunes
          /\ \/ i + Len(p) = Len(d)
             \/ i + Len(p) = i
             \/ d[i + Len(p) + 1] \notin WordRunes
             \/ p[Len(p)] \notin WordRunes
    BY DEF Quotes
  <1>3. i \in Nat
    BY <1>1
  <1>4. \A n \in 1..Len(p) : p[n] = d[i + n]
    <2>1. \A n \in (i + 1)..(i + Len(p)) : d[n] \in Runes
      BY <1>1, <1>2, <1>3, ElementOfSeq
    <2>2. \A n \in 1..((i + Len(p)) - (i + 1) + 1) :
            SubSeq(d, i + 1, i + Len(p))[n] = d[(i + 1) + n - 1]
      BY <1>1, <1>3, <2>1, SubSeqProperties
    <2> DEFINE q == SubSeq(d, i + 1, i + Len(p))
    <2>3. q = p
      BY <1>2
    <2> SUFFICES ASSUME NEW n \in 1..Len(p) PROVE q[n] = d[i + n]
      BY <2>3
    <2>4. /\ n \in 1..((i + Len(p)) - (i + 1) + 1)
          /\ (i + 1) + n - 1 = i + n
      BY <1>1, <1>3
    <2>5. q[n] = d[(i + 1) + n - 1]
      BY <2>2, <2>4
    <2> HIDE DEF q
    <2> QED
      BY <2>4, <2>5
  <1>5. ASSUME NEW a \in 1..Len(p), NEW b \in 1..Len(p), a <= b, IsWordAt(p, a, b)
        PROVE  /\ <<i + a, i + b>> \in WordsAt(d)
               /\ SubSeq(p, a, b) = SubSeq(d, i + a, i + b)
    <2>1. /\ a \in Nat /\ b \in Nat
          /\ i + a \in 1..Len(d) /\ i + b \in 1..Len(d) /\ i + a <= i + b
      <3>1. i + Len(p) <= Len(d)
        BY <1>2
      <3> QED
        BY <1>1, <1>3, <1>5, <3>1
    <2>2. \A k \in (i + a)..(i + b) : d[k] \in WordRunes
      <3> SUFFICES ASSUME NEW k \in (i + a)..(i + b) PROVE d[k] \in WordRunes
        OBVIOUS
      <3>1. k - i \in a..b /\ k - i \in 1..Len(p) /\ i + (k - i) = k
        BY <1>1, <1>3, <2>1
      <3> QED
        BY <1>4, <1>5, <3>1 DEF IsWordAt
    <2>3. i + a = 1 \/ d[(i + a) - 1] \notin WordRunes
      <3>1. CASE a = 1
        <4>1. p[1] \in WordRunes
          BY <1>5, <2>1, <3>1 DEF IsWordAt
        <4>2. (i + a) - 1 = i
          BY <1>3, <3>1
        <4>3. i + Len(p) # i
          BY <1>1, <1>3
        <4> QED
          BY <1>2, <1>3, <3>1, <4>1, <4>2, <4>3
      <3>2. CASE a # 1
        <4>1. a - 1 \in 1..Len(p) /\ (i + a) - 1 = i + (a - 1)
          BY <1>1, <1>3, <2>1, <3>2
        <4>2. p[a - 1] \notin WordRunes
          BY <1>5, <3>2 DEF IsWordAt
        <4> QED
          BY <1>4, <4>1, <4>2
      <3> QED
        BY <3>1, <3>2
    <2>4. i + b = Len(d) \/ d[(i + b) + 1] \notin WordRunes
      <3>1. CASE b = Len(p)
        <4>1. p[Len(p)] \in WordRunes
          BY <1>5, <2>1, <3>1 DEF IsWordAt
        <4>2. i + Len(p) # i
          BY <1>1, <1>3
        <4> QED
          BY <1>2, <3>1, <4>1, <4>2
      <3>2. CASE b # Len(p)
        <4>1. b + 1 \in 1..Len(p) /\ (i + b) + 1 = i + (b + 1)
          BY <1>1, <1>3, <2>1, <3>2
        <4>2. p[b + 1] \notin WordRunes
          BY <1>5, <3>2 DEF IsWordAt
        <4> QED
          BY <1>4, <4>1, <4>2
      <3> QED
        BY <3>1, <3>2
    <2>5. <<i + a, i + b>> \in WordsAt(d)
      BY <2>1, <2>2, <2>3, <2>4 DEF WordsAt, IsWordAt
    <2>6. SubSeq(p, a, b) = SubSeq(d, i + a, i + b)
      <3> DEFINE u == SubSeq(p, a, b)
                 v == SubSeq(d, i + a, i + b)
      <3>1. /\ \A n \in a..b : p[n] \in Runes
            /\ \A n \in (i + a)..(i + b) : d[n] \in Runes
        BY <1>1, <1>3, <2>1, ElementOfSeq
      <3>2. /\ u \in Seq(Runes) /\ Len(u) = b - a + 1
            /\ \A n \in 1..(b - a + 1) : u[n] = p[a + n - 1]
        BY <1>5, <2>1, <3>1, SubSeqProperties
      <3>3. /\ v \in Seq(Runes) /\ Len(v) = (i + b) - (i + a) + 1
            /\ \A n \in 1..((i + b) - (i + a) + 1) : v[n] = d[(i + a) + n - 1]
        BY <1>3, <2>1, <3>1, SubSeqProperties
      <3>4. (i + b) - (i + a) + 1 = b - a + 1
        BY <1>3, <2>1
      <3>5. ASSUME NEW n \in 1..(b - a + 1) PROVE u[n] = v[n]
        <4>1. a + n - 1 \in 1..Len(p) /\ i + (a + n - 1) = (i + a) + n - 1
          BY <1>1, <1>3, <2>1
        <4>2. p[a + n - 1] = d[(i + a) + n - 1]
          BY <1>4, <4>1
        <4> QED
          BY <3>2, <3>3, <3>4, <4>2
      <3> HIDE DEF u, v
      <3>6. u = v
        BY <3>2, <3>3, <3>4, <3>5, SeqEqual
      <3> QED
        BY <3>6 DEF u, v
    <2> QED
      BY <2>5, <2>6
  <1>6. ASSUME NEW x \in Normalised(p) PROVE x \in Normalised(d)
    <2>1. PICK w \in WordsAt(p) : x = Stem(SubSeq(p, w[1], w[2])) /\ x \notin StopWords
      BY <1>6 DEF Normalised
    <2>2. /\ w[1] \in 1..Len(p) /\ w[2] \in 1..Len(p) /\ w[1] <= w[2]
          /\ IsWordAt(p, w[1], w[2])
      BY <2>1 DEF WordsAt
    <2> DEFINE v == <<i + w[1], i + w[2]>>
    <2>3. v \in WordsAt(d) /\ SubSeq(p, w[1], w[2]) = SubSeq(d, i + w[1], i + w[2])
      BY <1>5, <2>2
    <2>4. v[1] = i + w[1] /\ v[2] = i + w[2]
      OBVIOUS
    <2> HIDE DEF v
    <2>5. x = Stem(SubSeq(d, v[1], v[2]))
      BY <2>1, <2>3, <2>4
    <2> QED
      BY <2>1, <2>3, <2>5 DEF Normalised
  <1> QED
    BY <1>6

\* A search for whole words of a stored description asks only for words the
\* update has stored with it, whichever of the two came with which separators.
THEOREM QuotationsAreFound == Spec => []QuotesAreFound
  <1>1. WordsInv => QuotesAreFound
    BY QuotationsKeepWords DEF WordsInv, AnswerIsExact, QuotesAreFound
  <1> QED
    BY <1>1, WordsInvariant, PTL

=============================================================================
