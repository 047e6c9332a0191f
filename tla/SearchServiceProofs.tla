------------------------ MODULE SearchServiceProofs ------------------------
(***************************************************************************)
(* Theorems about SearchService, for every number of searches, ids, words  *)
(* and limits, and about its composition with the update service in        *)
(* SearchSystem.                                                           *)
(***************************************************************************)
EXTENDS SearchSystem, TLAPS, FiniteSetTheorems, SequenceTheorems,
        WellFoundedInduction

-----------------------------------------------------------------------------
(* Operators the model is built from.                                      *)

\* A set of naturals has a least element: induction in the form the provers
\* can use.
LEMMA Least ==
  ASSUME NEW S \in SUBSET Nat, S # {}
  PROVE  \E n \in S : \A m \in S : n <= m
  <1>1. IsWellFoundedOn(OpToRel(<, Nat), Nat)
    BY NatLessThanWellFounded
  <1>2. PICK x \in S : \A y \in S : ~(<<y, x>> \in OpToRel(<, Nat))
    BY <1>1, WFMin
  <1>3. \A y \in S : ~(y < x)
    BY <1>2 DEF OpToRel
  <1> QED
    BY <1>3

\* coalesce(max(id), 0) is defined, and no row lies beyond it.
LEMMA LastStoredIsLast ==
  ASSUME NEW t
  PROVE  /\ LastStored(t) \in 0..MaxID
         /\ \A id \in IDs : id > LastStored(t) => t[id] = Absent
  <1> DEFINE Bounds == {n \in 0..MaxID : \A id \in Stored(t) : id <= n}
  <1>1. MaxID \in Nat /\ Stored(t) \subseteq 1..MaxID
    BY TableAssumption DEF Stored, IDs
  <1>2. Bounds \in SUBSET Nat /\ MaxID \in Bounds
    BY <1>1
  <1> HIDE DEF Bounds
  <1>3. PICK n \in Bounds : \A m \in Bounds : n <= m
    BY <1>2, Least
  <1>4. n \in 0..MaxID /\ \A id \in Stored(t) : id <= n
    BY <1>3 DEF Bounds
  <1>5. n = 0 \/ n \in Stored(t)
    <2> SUFFICES ASSUME n # 0, n \notin Stored(t) PROVE FALSE
      OBVIOUS
    <2>1. n - 1 \in 0..MaxID /\ \A id \in Stored(t) : id <= n - 1
      BY <1>1, <1>4
    <2>2. n <= n - 1
      BY <1>3, <2>1 DEF Bounds
    <2> QED
      BY <1>1, <1>4, <2>2
  <1>6. \E m \in 0..MaxID : (m = 0 \/ m \in Stored(t)) /\ \A id \in Stored(t) : id <= m
    BY <1>4, <1>5
  <1>7. /\ LastStored(t) \in 0..MaxID
        /\ \A id \in Stored(t) : id <= LastStored(t)
    BY <1>6 DEF LastStored
  <1> QED
    BY <1>1, <1>7 DEF Stored, IDs

\* Cutting a sequence off leaves a sequence that starts like it.
LEMMA FirstNStarts ==
  ASSUME NEW S, NEW order \in Seq(S), NEW n \in Nat
  PROVE  /\ FirstN(order, n) \in Seq(S)
         /\ Len(FirstN(order, n)) = IF n < Len(order) THEN n ELSE Len(order)
         /\ \A i \in 1..Len(FirstN(order, n)) : FirstN(order, n)[i] = order[i]
  <1> DEFINE k == IF n < Len(order) THEN n ELSE Len(order)
  <1>1. Len(order) \in Nat /\ k \in 0..Len(order)
    BY LenProperties
  <1>2. \A i \in 1..k : order[i] \in S
    BY <1>1, ElementOfSeq
  <1> HIDE DEF k
  <1>3. /\ SubSeq(order, 1, k) \in Seq(S)
        /\ Len(SubSeq(order, 1, k)) = IF 1 <= k THEN k - 1 + 1 ELSE 0
        /\ \A i \in 1..(k - 1 + 1) : SubSeq(order, 1, k)[i] = order[1 + i - 1]
    BY <1>1, <1>2, SubSeqProperties
  <1>4. Len(SubSeq(order, 1, k)) = k /\ \A i \in 1..k : SubSeq(order, 1, k)[i] = order[i]
    BY <1>1, <1>3
  <1> QED
    BY <1>3, <1>4 DEF FirstN, k

\* Moving the head of a sequence to the end of another.
LEMMA MoveHead ==
  ASSUME NEW S, NEW a \in Seq(S), NEW b \in Seq(S), b # <<>>
  PROVE  Append(a, Head(b)) \o Tail(b) = a \o b
  <1>1. Head(b) \in S /\ Head(b) = b[1]
        /\ Tail(b) \in Seq(S) /\ Len(Tail(b)) = Len(b) - 1
        /\ \A i \in 1..Len(Tail(b)) : Tail(b)[i] = b[i + 1]
    BY HeadTailProperties
  <1>2. Len(a) \in Nat /\ Len(b) \in Nat \ {0}
    BY LenProperties, EmptySeq
  <1>3. /\ Append(a, Head(b)) \in Seq(S) /\ Len(Append(a, Head(b))) = Len(a) + 1
        /\ \A i \in 1..Len(a) : Append(a, Head(b))[i] = a[i]
        /\ Append(a, Head(b))[Len(a) + 1] = b[1]
    BY <1>1, <1>2
  <1>4. /\ a \o b \in Seq(S) /\ Len(a \o b) = Len(a) + Len(b)
        /\ \A i \in 1..(Len(a) + Len(b)) :
             (a \o b)[i] = IF i <= Len(a) THEN a[i] ELSE b[i - Len(a)]
    BY ConcatProperties
  <1> DEFINE c == Append(a, Head(b))
  <1>5. c \in Seq(S) /\ Tail(b) \in Seq(S)
    BY <1>1, <1>3
  <1> HIDE DEF c
  <1>6. /\ c \o Tail(b) \in Seq(S) /\ Len(c \o Tail(b)) = Len(c) + Len(Tail(b))
        /\ \A i \in 1..(Len(c) + Len(Tail(b))) :
             (c \o Tail(b))[i] = IF i <= Len(c) THEN c[i] ELSE Tail(b)[i - Len(c)]
    BY ONLY <1>5, ConcatProperties
  <1>7. Len(c) = Len(a) + 1 /\ Len(c \o Tail(b)) = Len(a) + Len(b)
    BY <1>1, <1>2, <1>3, <1>6 DEF c
  <1>8. ASSUME NEW i \in 1..(Len(a) + Len(b))
        PROVE  (c \o Tail(b))[i] = (a \o b)[i]
    <2>1. CASE i <= Len(a)
      BY <1>1, <1>2, <1>3, <1>4, <1>6, <1>7, <2>1 DEF c
    <2>2. CASE i = Len(a) + 1
      BY <1>1, <1>2, <1>3, <1>4, <1>6, <1>7, <2>2 DEF c
    <2>3. CASE i > Len(a) + 1
      <3>1. i - Len(c) \in 1..Len(Tail(b)) /\ i - Len(c) + 1 = i - Len(a)
        BY <1>1, <1>2, <1>7, <2>3
      <3> QED
        BY <1>1, <1>2, <1>4, <1>6, <1>7, <2>3, <3>1
    <2>4. i <= Len(a) \/ i = Len(a) + 1 \/ i > Len(a) + 1
      BY ONLY <1>2, i \in 1..(Len(a) + Len(b))
    <2> QED
      BY ONLY <2>1, <2>2, <2>3, <2>4
  <1> QED
    BY <1>4, <1>6, <1>7, <1>8, SeqEqual DEF c

LEMMA FiniteIDs == IsFiniteSet(IDs) /\ \A S \in SUBSET IDs : IsFiniteSet(S)
  <1>1. IsFiniteSet(IDs)
    BY FS_Interval, TableAssumption DEF IDs
  <1> QED
    BY <1>1, FS_Subset

\* What Sort can leave: a sequence of all the ids that match, once each.
LEMMA SortingsAreSequences ==
  ASSUME NEW score, NEW order \in Sortings(score)
  PROVE  LET hits == {id \in IDs : score[id] > 0}
         IN  /\ order \in Seq(hits) /\ order \in Seq(IDs)
             /\ Len(order) = Cardinality(hits)
             /\ \A id \in hits : \E i \in 1..Len(order) : order[i] = id
             /\ \A i, j \in 1..Len(order) : i < j => /\ order[i] # order[j]
                                                     /\ score[order[i]] >= score[order[j]]
  <1> DEFINE hits == {id \in IDs : score[id] > 0}
             n == Cardinality(hits)
  <1>1. IsFiniteSet(hits) /\ n \in Nat
    BY FiniteIDs, FS_CardinalityType
  <1>2. /\ order \in [1..n -> hits]
        /\ \A i, j \in DOMAIN order : i < j => order[i] # order[j]
        /\ \A i, j \in DOMAIN order : i < j => score[order[i]] >= score[order[j]]
    BY DEF Sortings
  <1> HIDE DEF n, hits
  <1>3. order \in Seq(hits) /\ Len(order) = n
    BY <1>1, <1>2
  <1>4. order \in Seq(IDs)
    BY <1>3, SeqMonotonic DEF hits
  <1>5. order \in Injection(1..n, hits)
    BY <1>1, <1>2 DEF Injection, IsInjective
  <1>6. Cardinality(1..n) = Cardinality(hits)
    BY <1>1, FS_Interval DEF n
  <1>7. order \in Surjection(1..n, hits)
    BY <1>1, <1>5, <1>6, FS_Injection
  <1>8. \A id \in hits : \E i \in 1..n : order[i] = id
    BY <1>7 DEF Surjection
  <1> QED
    BY <1>2, <1>3, <1>4, <1>8 DEF hits, n

-----------------------------------------------------------------------------
(* Types.  A match is counted once for a word, so that the counters are    *)
(* bounded by the words looked up.                                         *)

CountsBounded ==
  \A s \in Searches, id \in IDs :
    matches[s][id] <= Cardinality(Words \ left[s])

SearchTypes == TypeOK /\ CountsBounded

LEMMA WordCounts ==
  /\ Cardinality(Words) \in Nat
  /\ \A S \in SUBSET Words : /\ IsFiniteSet(S) /\ Cardinality(S) \in Nat
                             /\ Cardinality(S) <= Cardinality(Words)
  BY SearchAssumption, FS_Subset, FS_CardinalityType

\* Looking one more word up.
LEMMA OneWordMore ==
  ASSUME NEW S \in SUBSET Words, NEW word \in S
  PROVE  Cardinality(Words \ (S \ {word})) = Cardinality(Words \ S) + 1
  <1>1. Words \ (S \ {word}) = (Words \ S) \cup {word} /\ word \notin Words \ S
    OBVIOUS
  <1>2. IsFiniteSet(Words \ S)
    BY SearchAssumption, FS_Difference
  <1> QED
    BY <1>1, <1>2, FS_AddElement

\* Nothing of the search is touched.
LEMMA CountsFrame ==
  ASSUME CountsBounded, UNCHANGED <<matches, left>>
  PROVE  CountsBounded'
  BY DEF CountsBounded

\* The counters of one search are cleared.
LEMMA CountsCleared ==
  ASSUME CountsBounded, NEW s \in Searches, DOMAIN matches = Searches,
         matches' = [matches EXCEPT ![s] = [id \in IDs |-> 0]],
         \A r \in Searches \ {s} : left'[r] = left[r]
  PROVE  CountsBounded'
  <1> SUFFICES ASSUME NEW r \in Searches, NEW id \in IDs
               PROVE  matches'[r][id] <= Cardinality(Words \ left'[r])
    BY DEF CountsBounded
  <1>1. CASE r = s
    <2>1. Cardinality(Words \ left'[r]) \in Nat
      BY WordCounts
    <2>2. matches'[r][id] = 0
      BY <1>1
    <2> QED
      BY <2>1, <2>2
  <1>2. CASE r # s
    BY <1>2 DEF CountsBounded
  <1> QED
    BY <1>1, <1>2

LEMMA SearchTypesStep == SearchTypes /\ [Next]_vars => SearchTypes'
  <1> SUFFICES ASSUME SearchTypes, [Next]_vars PROVE SearchTypes'
    OBVIOUS
  <1> USE DEF SearchTypes, TypeOK, buildVars, searchVars, dropVars, histVars
  <1>0. EmptyIndex \in [Words -> SUBSET IDs] /\ MaxID \in Nat /\ MaxLimit \in Nat \ {0}
        /\ Truncated \in Table /\ 1 \in 1..(MaxID + 1) /\ 0 \in 0..MaxID
    BY TableAssumption, SearchAssumption DEF EmptyIndex, Truncated, Table, Row
  <1>1. CASE BuildStart
    <2>1. LastStored(table) \in 0..MaxID
      BY LastStoredIsLast
    <2> QED
      BY <1>0, <1>1, <2>1, CountsFrame DEF BuildStart
  <1>2. CASE BuildRow
    <2>1. newIndex' \in [Words -> SUBSET IDs]
      BY <1>0, <1>2 DEF BuildRow, Added, IDs
    <2> QED
      BY <1>0, <1>2, <2>1, CountsFrame DEF BuildRow
  <1>3. CASE BuildPublish
    <2>1. steady' \in [Searches -> BOOLEAN] /\ dropIndex' \in BOOLEAN
      BY <1>3 DEF BuildPublish
    <2> QED
      BY <1>0, <1>3, <2>1, CountsFrame DEF BuildPublish
  <1>4. CASE BuildStartFails
    BY <1>4, CountsFrame DEF BuildStartFails
  <1>5. CASE BuildRowFails
    BY <1>0, <1>5, CountsFrame DEF BuildRowFails, IDs
  <1>6. ASSUME NEW s \in Searches, SearchStart(s) PROVE SearchTypes'
    <2>1. PICK words \in SUBSET Words :
            /\ phrase' = [phrase EXCEPT ![s] = words]
            /\ left' = [left EXCEPT ![s] = words]
      BY <1>6 DEF SearchStart
    <2>2. matches' = [matches EXCEPT ![s] = [id \in IDs |-> 0]]
      BY <1>6 DEF SearchStart
    <2>3. CountsBounded'
      BY <2>1, <2>2, CountsCleared
    <2>4. matches' \in [Searches -> [IDs -> 0..Cardinality(Words)]]
      BY <2>2, WordCounts
    <2>5. <<>> \in Seq(IDs)
      BY EmptySeq
    <2>6. steady' \in [Searches -> BOOLEAN] /\ dropSearch' \in [Searches -> BOOLEAN]
      BY <1>6 DEF SearchStart
    <2> QED
      BY <1>6, <2>1, <2>3, <2>4, <2>5, <2>6 DEF SearchStart
  <1>7. ASSUME NEW s \in Searches, NEW word \in Words, Lookup(s, word)
        PROVE  SearchTypes'
    <2>1. /\ word \in left[s] /\ left[s] \in SUBSET Words
          /\ left' = [left EXCEPT ![s] = left[s] \ {word}]
      BY <1>7 DEF Lookup
    <2>2. matches' = [matches EXCEPT ![s] =
                        [id \in IDs |-> IF id \in index[word] THEN matches[s][id] + 1
                                                              ELSE matches[s][id]]]
      BY <1>7 DEF Lookup
    <2>3. \A r \in Searches, id \in IDs : matches[r][id] \in Nat
      BY WordCounts
    <2>4. CountsBounded'
      <3> SUFFICES ASSUME NEW r \in Searches, NEW id \in IDs
                   PROVE  matches'[r][id] <= Cardinality(Words \ left'[r])
        BY DEF CountsBounded
      <3>1. CASE r = s
        <4>1. Cardinality(Words \ left'[s]) = Cardinality(Words \ left[s]) + 1
          BY <2>1, OneWordMore
        <4>2. Cardinality(Words \ left[s]) \in Nat
              /\ matches[s][id] <= Cardinality(Words \ left[s])
          BY WordCounts DEF CountsBounded
        <4>3. matches'[s][id] <= matches[s][id] + 1
          BY <2>2, <2>3
        <4>4. matches'[s][id] \in Nat
          BY <2>2, <2>3
        <4> QED
          BY <2>3, <3>1, <4>1, <4>2, <4>3, <4>4
      <3>2. CASE r # s
        BY <2>1, <2>2, <3>2 DEF CountsBounded
      <3> QED
        BY <3>1, <3>2
    <2>5. matches' \in [Searches -> [IDs -> 0..Cardinality(Words)]]
      <3>1. \A r \in Searches : matches'[r] \in [IDs -> Nat]
        BY <2>2, <2>3
      <3>2. \A r \in Searches, id \in IDs : matches'[r][id] <= Cardinality(Words)
        <4> SUFFICES ASSUME NEW r \in Searches, NEW id \in IDs
                     PROVE  matches'[r][id] <= Cardinality(Words)
          OBVIOUS
        <4>1. /\ matches'[r][id] <= Cardinality(Words \ left'[r])
              /\ matches'[r][id] \in Nat
          BY <2>4, <3>1 DEF CountsBounded
        <4>2. /\ Cardinality(Words \ left'[r]) \in Nat
              /\ Cardinality(Words \ left'[r]) <= Cardinality(Words)
          BY WordCounts
        <4>3. Cardinality(Words) \in Nat
          BY WordCounts
        <4> QED
          BY ONLY <4>1, <4>2, <4>3
      <3>3. \A r \in Searches : matches'[r] \in [IDs -> 0..Cardinality(Words)]
        BY <3>1, <3>2, WordCounts
      <3>4. matches' = [r \in Searches |-> matches'[r]]
        BY <2>2
      <3> QED
        BY <3>3, <3>4
    <2>6. left' \in [Searches -> SUBSET Words]
      BY <2>1
    <2> QED
      BY <1>7, <2>4, <2>5, <2>6 DEF Lookup
  <1>8. ASSUME NEW s \in Searches, Sort(s) PROVE SearchTypes'
    <2>1. PICK order \in Sortings(matches[s]), n \in 1..MaxLimit :
            /\ sorted' = [sorted EXCEPT ![s] = FirstN(order, n)]
            /\ limit' = [limit EXCEPT ![s] = n]
      BY <1>8 DEF Sort
    <2>2. FirstN(order, n) \in Seq(IDs)
      <3>1. n \in Nat
        BY <1>0
      <3>2. order \in Sortings(matches[s])
        BY <2>1
      <3>3. order \in Seq(IDs)
        BY ONLY <3>2, SortingsAreSequences
      <3> QED
        BY <3>1, <3>3, FirstNStarts
    <2>3. matches' = [matches EXCEPT ![s] = [id \in IDs |-> 0]] /\ left' = left
      BY <1>8 DEF Sort
    <2>4. CountsBounded'
      BY <2>3, CountsCleared
    <2>5. matches' \in [Searches -> [IDs -> 0..Cardinality(Words)]]
      BY <2>3, WordCounts
    <2> QED
      BY <1>8, <2>1, <2>2, <2>4, <2>5 DEF Sort
  <1>9. ASSUME NEW s \in Searches, FetchRow(s) PROVE SearchTypes'
    <2>1. Head(sorted[s]) \in IDs /\ Tail(sorted[s]) \in Seq(IDs)
      BY <1>9, HeadTailProperties DEF FetchRow
    <2>2. Append(comics[s], Head(sorted[s])) \in Seq(IDs)
      BY <2>1
    <2> QED
      BY <1>9, <2>1, <2>2, CountsFrame DEF FetchRow
  <1>10. ASSUME NEW s \in Searches, SearchEnd(s) PROVE SearchTypes'
    <2>1. matches' = [matches EXCEPT ![s] = [id \in IDs |-> 0]]
          /\ left' = [left EXCEPT ![s] = {}]
      BY <1>10 DEF SearchEnd
    <2>2. CountsBounded'
      BY <2>1, CountsCleared
    <2>3. matches' \in [Searches -> [IDs -> 0..Cardinality(Words)]]
      BY <2>1, WordCounts
    <2>4. 1 \in 1..MaxLimit /\ <<>> \in Seq(IDs)
      BY <1>0, EmptySeq
    <2> QED
      BY <1>10, <2>2, <2>3, <2>4 DEF SearchEnd
  <1>11. ASSUME NEW t \in Table, Write(t) PROVE SearchTypes'
    BY <1>11, CountsFrame DEF Write
  <1>12. CASE AddComic
    BY <1>11, <1>12 DEF AddComic, Upsert, Table
  <1>13. CASE DropComics
    BY <1>0, <1>11, <1>13 DEF DropComics
  <1>14. CASE Shutdown
    BY <1>14, CountsFrame DEF Shutdown
  <1>15. CASE Restart
    <2>1. matches' = [s \in Searches |-> [id \in IDs |-> 0]]
          /\ left' = [s \in Searches |-> {}]
      BY <1>15 DEF Restart
    <2>2. CountsBounded'
      <3> SUFFICES ASSUME NEW r \in Searches, NEW id \in IDs
                   PROVE  matches'[r][id] <= Cardinality(Words \ left'[r])
        BY DEF CountsBounded
      <3>1. Cardinality(Words \ left'[r]) \in Nat
        BY WordCounts
      <3> QED
        BY <2>1, <3>1
    <2>3. matches' \in [Searches -> [IDs -> 0..Cardinality(Words)]]
      BY <2>1, WordCounts
    <2>4. 1 \in 1..MaxLimit /\ <<>> \in Seq(IDs)
      BY <1>0, EmptySeq
    <2> QED
      BY <1>0, <1>15, <2>2, <2>3, <2>4 DEF Restart
  <1>16. CASE UNCHANGED vars
    BY <1>16, CountsFrame DEF vars
  <1> QED
    BY <1>1, <1>2, <1>3, <1>4, <1>5, <1>6, <1>7, <1>8, <1>9, <1>10, <1>12,
       <1>13, <1>14, <1>15, <1>16
    DEF Next, Progress, BuildStep, BuildFailure, SearchStep, SearchReturns, SearchFails

LEMMA SearchTypesInvariant == Spec => []SearchTypes
  <1>1. Init => SearchTypes
    <2> SUFFICES ASSUME Init PROVE SearchTypes
      OBVIOUS
    <2>1. CountsBounded
      <3> SUFFICES ASSUME NEW r \in Searches, NEW id \in IDs
                   PROVE  matches[r][id] <= Cardinality(Words \ left[r])
        BY DEF CountsBounded
      <3>1. Cardinality(Words \ left[r]) \in Nat
        BY WordCounts
      <3> QED
        BY <3>1 DEF Init
    <2>2. matches \in [Searches -> [IDs -> 0..Cardinality(Words)]]
      BY WordCounts DEF Init
    <2>3. 1 \in 1..MaxLimit /\ 0 \in 0..MaxID /\ 1 \in 1..(MaxID + 1) /\ <<>> \in Seq(IDs)
      BY TableAssumption, SearchAssumption, EmptySeq
    <2> QED
      BY <2>1, <2>2, <2>3 DEF Init, SearchTypes, TypeOK, EmptyIndex
  <1> QED
    BY <1>1, SearchTypesStep, PTL DEF Spec

\* Every variable of the search service stays in its domain; in particular
\* no match is counted more often than there are words.
THEOREM SearchTypeCorrect == Spec => []TypeOK
  BY SearchTypesInvariant, PTL DEF SearchTypes

-----------------------------------------------------------------------------
(* The index.  While it is built it agrees with the table on every id that *)
(* was read and not written since, and holds no other; beyond the last id  *)
(* there was no row when the build began.                                  *)

IndexInv ==
  building =>
    /\ \A id \in IDs \ unsure : id < next =>
         \A w \in Words : id \in newIndex[w] <=> w \in WordsOf(table[id])
    /\ \A id \in IDs \ unsure : id > last => table[id] = Absent
    /\ \A w \in Words : \A id \in newIndex[w] : id < next

\* Steps that neither build nor write.
LEMMA IndexFrame ==
  ASSUME IndexInv, UNCHANGED <<table, buildVars>>
  PROVE  IndexInv'
  BY DEF IndexInv, buildVars

LEMMA IndexStep == TypeOK /\ IndexInv /\ [Next]_vars => IndexInv'
  <1> SUFFICES ASSUME TypeOK, IndexInv, [Next]_vars PROVE IndexInv'
    OBVIOUS
  <1> USE DEF TypeOK, searchVars, dropVars, histVars
  <1>0. MaxID \in Nat /\ IDs \subseteq Nat \ {0} /\ next \in Nat \ {0} /\ last \in Nat
    BY TableAssumption DEF IDs
  <1>1. CASE BuildStart
    <2>1. /\ next' = 1 /\ last' = LastStored(table) /\ newIndex' = EmptyIndex
          /\ table' = table
      BY <1>1 DEF BuildStart
    <2>2. \A id \in IDs : ~(id < next') /\ (id > last' => table'[id] = Absent)
      BY <1>0, <2>1, LastStoredIsLast
    <2>3. \A w \in Words : newIndex'[w] = {}
      BY <2>1 DEF EmptyIndex
    <2> QED
      BY <2>2, <2>3 DEF IndexInv
  <1>2. CASE BuildRow
    <2>1. /\ building /\ next \in IDs /\ next' = next + 1
          /\ newIndex' = Added(newIndex, next, WordsOf(table[next]))
          /\ UNCHANGED <<table, building, last, unsure>>
      BY <1>0, <1>2 DEF BuildRow, IDs
    <2>2. \A w \in Words, id \in IDs :
            id \in newIndex'[w] <=> id \in newIndex[w] \/ (id = next /\ w \in WordsOf(table[next]))
      BY <2>1 DEF Added
    <2>3. \A w \in Words : newIndex'[w] \subseteq IDs
      BY <2>1 DEF Added
    <2>4. \A id \in IDs : (id < next' <=> id < next \/ id = next) /\ ~(next < next)
      BY <1>0, <2>1
    <2> QED
      BY <2>1, <2>2, <2>3, <2>4 DEF IndexInv
  <1>3. CASE BuildPublish
    BY <1>3 DEF BuildPublish, IndexInv
  <1>4. CASE BuildStartFails
    BY <1>4, IndexFrame DEF BuildStartFails
  <1>5. CASE BuildRowFails
    <2>1. /\ building /\ next' = next + 1 /\ unsure' = unsure \cup {next}
          /\ UNCHANGED <<table, building, last, newIndex>>
      BY <1>5 DEF BuildRowFails
    <2>2. \A id \in IDs : (id < next' <=> id < next \/ id = next) /\ ~(next < next)
      BY <1>0, <2>1
    <2> QED
      BY <1>0, <2>1, <2>2 DEF IndexInv
  <1>6. ASSUME NEW s \in Searches, SearchStart(s) \/ SearchStep(s) PROVE IndexInv'
    BY <1>6, IndexFrame DEF SearchStart, SearchStep, Lookup, Sort, FetchRow,
       SearchReturns, SearchFails, SearchEnd
  <1>7. CASE AddComic \/ DropComics
    <2>1. \A id \in IDs : building /\ id \notin unsure' =>
                            id \notin unsure /\ table'[id] = table[id]
      BY <1>7 DEF AddComic, DropComics, Write
    <2>2. UNCHANGED <<building, next, last, newIndex>>
      BY <1>7 DEF AddComic, DropComics, Write
    <2> QED
      BY <2>1, <2>2 DEF IndexInv
  <1>8. CASE Shutdown \/ UNCHANGED vars
    BY <1>8, IndexFrame DEF Shutdown, vars
  <1>9. CASE Restart
    BY <1>9 DEF Restart, IndexInv
  <1> QED
    BY <1>1, <1>2, <1>3, <1>4, <1>5, <1>6, <1>7, <1>8, <1>9
    DEF Next, Progress, BuildStep, BuildFailure

\* Whatever is written and dropped while the index is built, the published
\* index is exact for every id that was read and not written meanwhile.
THEOREM IndexExactWhenPublished == Spec => PublishedIndexIsExact
  <1> DEFINE Exact ==
        building /\ ~building' /\ initiator' = "ticking" =>
          \A id \in IDs \ unsure, w \in Words :
            id \in index'[w] <=> w \in WordsOf(table[id])
  <1>1. TypeOK /\ IndexInv /\ [Next]_vars => [Exact]_vars
    <2> SUFFICES ASSUME TypeOK, IndexInv, Next,
                        building, ~building', initiator' = "ticking",
                        NEW id \in IDs \ unsure, NEW w \in Words
                 PROVE  id \in index'[w] <=> w \in WordsOf(table[id])
      OBVIOUS
    <2>1. BuildPublish
      BY DEF Next, Progress, BuildStep, BuildFailure, SearchStep, BuildStart,
         BuildRow, BuildStartFails, BuildRowFails, SearchStart, Lookup, Sort,
         FetchRow, SearchReturns, SearchFails, SearchEnd, AddComic, DropComics,
         Write, Shutdown, Restart, buildVars
    <2>2. index' = newIndex /\ next > last
      BY <2>1 DEF BuildPublish
    <2>3. id \in Nat /\ next \in Nat /\ last \in Nat
      BY TableAssumption DEF TypeOK, IDs
    <2>4. CASE id < next
      BY <2>2, <2>4 DEF IndexInv
    <2>5. CASE ~(id < next)
      <3>1. id > last /\ id \notin newIndex[w]
        BY <2>2, <2>3, <2>5 DEF IndexInv
      <3>2. WordsOf(table[id]) = {}
        BY <3>1, TableAssumption DEF IndexInv, WordsOf
      <3> QED
        BY <2>2, <3>1, <3>2
    <2> QED
      BY <2>4, <2>5
  <1>2. [](TypeOK /\ IndexInv) /\ [][Next]_vars => [][Exact]_vars
    BY <1>1, PTL
  <1>3. Init => IndexInv
    BY DEF Init, IndexInv
  <1>4. Spec => [](TypeOK /\ IndexInv)
    BY <1>3, IndexStep, SearchTypeCorrect, PTL DEF Spec
  <1> QED
    BY <1>2, <1>4, PTL DEF Spec, PublishedIndexIsExact

-----------------------------------------------------------------------------
(* Missing rows.  A row only goes away in a Drop: until one is executed,   *)
(* the ids an index holds, and those a search took from it, have theirs.   *)

RowsOfIndex(ix) == \A w \in Words : \A id \in ix[w] : table[id] # Absent

DropInv ==
  /\ building /\ ~dropBuild => RowsOfIndex(newIndex)
  /\ building /\ dropBuild => dropIndex
  /\ ~dropIndex => RowsOfIndex(index)
  /\ \A s \in Searches : sPc[s] # "idle" /\ ~dropSearch[s] =>
       /\ ~dropIndex
       /\ sPc[s] = "lookup" =>
            \A id \in IDs : matches[s][id] # 0 => table[id] # Absent
       /\ sPc[s] = "fetch" =>
            \A i \in DOMAIN sorted[s] : table[sorted[s][i]] # Absent

LEMMA DropInvStep == TypeOK /\ DropInv /\ [Next]_vars => DropInv'
  <1> SUFFICES ASSUME TypeOK, DropInv, [Next]_vars PROVE DropInv'
    OBVIOUS
  <1> USE DEF TypeOK, buildVars, searchVars, dropVars, histVars
  <1>0. EmptyIndex \in [Words -> SUBSET IDs] /\ \A w \in Words : EmptyIndex[w] = {}
    BY DEF EmptyIndex
  <1>1. CASE BuildStart
    BY <1>0, <1>1 DEF BuildStart, DropInv, RowsOfIndex
  <1>2. CASE BuildRow
    <2>1. /\ next \in IDs /\ newIndex' = Added(newIndex, next, WordsOf(table[next]))
          /\ UNCHANGED <<table, building, dropVars, index, sPc, matches, sorted>>
      BY <1>2, TableAssumption DEF BuildRow, IDs
    <2>2. ASSUME building, ~dropBuild PROVE RowsOfIndex(newIndex')
      <3>1. \A w \in Words : \A id \in newIndex'[w] :
              id \in newIndex[w] \/ (id = next /\ w \in WordsOf(table[next]))
        BY <2>1 DEF Added
      <3>2. \A w \in WordsOf(table[next]) : table[next] # Absent
        BY TableAssumption DEF WordsOf
      <3> QED
        BY <2>2, <3>1, <3>2 DEF DropInv, RowsOfIndex
    <2> QED
      BY <2>1, <2>2 DEF DropInv, RowsOfIndex
  <1>3. CASE BuildPublish
    BY <1>3 DEF BuildPublish, DropInv, RowsOfIndex
  <1>4. CASE BuildStartFails \/ BuildRowFails
    BY <1>4 DEF BuildStartFails, BuildRowFails, DropInv, RowsOfIndex
  <1>5. ASSUME NEW s \in Searches, SearchStart(s) PROVE DropInv'
    BY <1>5 DEF SearchStart, DropInv, RowsOfIndex
  <1>6. ASSUME NEW s \in Searches, NEW word \in Words, Lookup(s, word) PROVE DropInv'
    <2>1. \A id \in IDs : matches'[s][id] # 0 => matches[s][id] # 0 \/ id \in index[word]
      BY <1>6 DEF Lookup
    <2>2. \A r \in Searches \ {s} : matches'[r] = matches[r]
      BY <1>6 DEF Lookup
    <2>3. sPc[s] = "lookup"
          /\ UNCHANGED <<table, building, newIndex, dropVars, index, sPc, sorted>>
      BY <1>6 DEF Lookup
    <2>4. ASSUME ~dropSearch[s], NEW id \in IDs, matches'[s][id] # 0
          PROVE  table[id] # Absent
      <3>1. ~dropIndex /\ (matches[s][id] # 0 => table[id] # Absent)
        BY <2>3, <2>4 DEF DropInv
      <3>2. id \in index[word] => table[id] # Absent
        BY <3>1 DEF DropInv, RowsOfIndex
      <3> QED
        BY <2>1, <2>4, <3>1, <3>2
    <2>5. /\ building /\ ~dropBuild => RowsOfIndex(newIndex)'
          /\ building /\ dropBuild => dropIndex
          /\ ~dropIndex => RowsOfIndex(index)'
      BY <2>3 DEF DropInv, RowsOfIndex
    <2>6. ASSUME NEW r \in Searches, NEW id \in IDs, sPc[r] = "lookup",
                 ~dropSearch[r], matches'[r][id] # 0
          PROVE  table[id] # Absent
      <3>1. CASE r = s
        BY <2>4, <2>6, <3>1
      <3>2. CASE r # s
        <4>1. matches[r][id] # 0
          BY <2>2, <2>6, <3>2
        <4> QED
          BY <2>6, <4>1 DEF DropInv
      <3> QED
        BY <3>1, <3>2
    <2>7. \A r \in Searches : sPc[r] # "idle" /\ ~dropSearch[r] => ~dropIndex
      BY DEF DropInv
    <2>8. \A r \in Searches : sPc[r] = "fetch" /\ ~dropSearch[r] =>
            \A i \in DOMAIN sorted[r] : table[sorted[r][i]] # Absent
      BY DEF DropInv
    <2> QED
      BY <2>3, <2>5, <2>6, <2>7, <2>8 DEF DropInv
  <1>7. ASSUME NEW s \in Searches, Sort(s) PROVE DropInv'
    <2>1. PICK order \in Sortings(matches[s]), n \in 1..MaxLimit :
            sorted' = [sorted EXCEPT ![s] = FirstN(order, n)]
      BY <1>7 DEF Sort
    <2>2. /\ sPc[s] = "lookup" /\ sPc' = [sPc EXCEPT ![s] = "fetch"]
          /\ matches' = [matches EXCEPT ![s] = [id \in IDs |-> 0]]
          /\ UNCHANGED <<table, building, newIndex, dropVars, index>>
      BY <1>7 DEF Sort
    <2> DEFINE hits == {id \in IDs : matches[s][id] > 0}
    <2>3. order \in Seq(hits)
      BY ONLY <2>1, SortingsAreSequences
    <2>4. FirstN(order, n) \in Seq(hits)
      BY <2>3, SearchAssumption, FirstNStarts
    <2>5. \A i \in DOMAIN FirstN(order, n) : FirstN(order, n)[i] \in hits
      BY <2>4
    <2>6. ASSUME ~dropSearch[s]
          PROVE  \A i \in DOMAIN sorted'[s] : table[sorted'[s][i]] # Absent
      <3>1. \A id \in hits : table[id] # Absent
        BY <2>2, <2>6, WordCounts DEF DropInv
      <3> QED
        BY <2>1, <2>5, <3>1
    <2>7. \A r \in Searches \ {s} : sorted'[r] = sorted[r]
      BY <2>1
    <2> QED
      BY <2>2, <2>6, <2>7 DEF DropInv, RowsOfIndex
  <1>8. ASSUME NEW s \in Searches, FetchRow(s) PROVE DropInv'
    <2>1. sorted' = [sorted EXCEPT ![s] = Tail(sorted[s])]
          /\ UNCHANGED <<table, building, newIndex, dropVars, index, sPc, matches>>
      BY <1>8 DEF FetchRow
    <2>2. \A i \in DOMAIN Tail(sorted[s]) :
            i + 1 \in DOMAIN sorted[s] /\ Tail(sorted[s])[i] = sorted[s][i + 1]
      BY <1>8 DEF FetchRow
    <2>3. ASSUME NEW r \in Searches, ~dropSearch[r], sPc[r] = "fetch"
          PROVE  \A i \in DOMAIN sorted'[r] : table[sorted'[r][i]] # Absent
      <3>1. \A i \in DOMAIN sorted[r] : table[sorted[r][i]] # Absent
        BY <2>3 DEF DropInv
      <3>2. CASE r = s
        <4>1. sorted'[r] = Tail(sorted[s])
          BY <2>1, <3>2
        <4>2. \A i \in DOMAIN Tail(sorted[s]) : table[Tail(sorted[s])[i]] # Absent
          BY <2>2, <3>1, <3>2
        <4> QED
          BY <4>1, <4>2
      <3>3. CASE r # s
        BY <2>1, <3>1, <3>3
      <3> QED
        BY <3>2, <3>3
    <2>4. /\ building /\ ~dropBuild => RowsOfIndex(newIndex)'
          /\ building /\ dropBuild => dropIndex
          /\ ~dropIndex => RowsOfIndex(index)'
      BY <2>1 DEF DropInv, RowsOfIndex
    <2> QED
      BY <2>1, <2>3, <2>4 DEF DropInv
  <1>9. ASSUME NEW s \in Searches, SearchEnd(s) PROVE DropInv'
    BY <1>9 DEF SearchEnd, DropInv, RowsOfIndex
  <1>10. ASSUME NEW t \in Table, Write(t),
                t = Truncated \/ \A id \in IDs : table[id] # Absent => t[id] # Absent
         PROVE  DropInv'
    <2>1. /\ table' = t
          /\ dropBuild' = (dropBuild \/ (building /\ t = Truncated))
          /\ dropIndex' = (dropIndex \/ t = Truncated)
          /\ \A s \in Searches : dropSearch'[s] =
               (dropSearch[s] \/ (sPc[s] # "idle" /\ t = Truncated))
          /\ UNCHANGED <<index, building, newIndex, sPc, matches, sorted>>
      BY <1>10 DEF Write
    <2>2. CASE t = Truncated
      BY <2>1, <2>2 DEF DropInv, RowsOfIndex
    <2>3. CASE t # Truncated
      <3>1. \A id \in IDs : table[id] # Absent => table'[id] # Absent
        BY <1>10, <2>1, <2>3
      <3>2. (dropBuild' <=> dropBuild) /\ (dropIndex' <=> dropIndex)
            /\ \A s \in Searches : dropSearch'[s] <=> dropSearch[s]
        BY <2>1, <2>3
      <3>3. \A s \in Searches : \A i \in DOMAIN sorted[s] : sorted[s][i] \in IDs
        OBVIOUS
      <3> QED
        BY <2>1, <3>1, <3>2, <3>3 DEF DropInv, RowsOfIndex
    <2> QED
      BY <2>2, <2>3
  <1>11. CASE AddComic
    <2>1. PICK id \in IDs, row \in Row \ {Absent} : Write(Upsert(table, id, row))
      BY <1>11 DEF AddComic
    <2>2. /\ Upsert(table, id, row) \in Table
          /\ \A i \in IDs : table[i] # Absent => Upsert(table, id, row)[i] # Absent
      BY DEF Upsert, Table
    <2> QED
      BY <1>10, <2>1, <2>2
  <1>12. CASE DropComics
    <2>1. Truncated \in Table
      BY DEF Truncated, Table, Row
    <2> QED
      BY <1>10, <1>12, <2>1 DEF DropComics
  <1>13. CASE Shutdown \/ UNCHANGED vars
    BY <1>13 DEF Shutdown, vars, DropInv, RowsOfIndex
  <1>14. CASE Restart
    BY <1>0, <1>14 DEF Restart, DropInv, RowsOfIndex
  <1> QED
    BY <1>1, <1>2, <1>3, <1>4, <1>5, <1>6, <1>7, <1>8, <1>9, <1>11, <1>12,
       <1>13, <1>14
    DEF Next, Progress, BuildStep, BuildFailure, SearchStep, SearchReturns, SearchFails

\* A search finds a row missing only if a Drop was executed since the build of
\* the index it was answered from began.
THEOREM RowsMissOnlyAfterDrop == Spec => []MissingRowMeansDropped
  <1>1. Init => DropInv
    BY DEF Init, DropInv, RowsOfIndex, EmptyIndex
  <1>2. DropInv => MissingRowMeansDropped
    BY DEF DropInv, MissingRowMeansDropped
  <1> QED
    BY <1>1, <1>2, DropInvStep, SearchTypeCorrect, PTL DEF Spec

-----------------------------------------------------------------------------
(* Agreement.  While the index is exact, a search has counted for an id    *)
(* the words of the phrase looked up so far that its row holds; what it    *)
(* makes of the counts is then what Search may answer.                     *)

Common(id, words) == Cardinality(WordsOf(table[id]) \cap words)

AgreeInv ==
  \A s \in Searches : steady[s] =>
    /\ index = IndexOf(table)
    /\ sPc[s] = "lookup" =>
         /\ left[s] \subseteq phrase[s]
         /\ comics[s] = <<>>
         /\ \A id \in IDs : matches[s][id] = Common(id, phrase[s] \ left[s])
    /\ sPc[s] = "fetch" => comics[s] \o sorted[s] \in Find(table, phrase[s], limit[s])

\* The matches of the words, cut off after n, are a result of Find.
LEMMA SortedIsFound ==
  ASSUME NEW words \in SUBSET Words, NEW n \in Nat \ {0}, NEW score,
         \A id \in IDs : score[id] = Common(id, words),
         NEW order \in Sortings(score)
  PROVE  FirstN(order, n) \in Seq(IDs) /\ FirstN(order, n) \in Find(table, words, n)
  <1> DEFINE hits == {id \in IDs : score[id] > 0}
             found == {id \in Fetched(table) : Common(id, words) > 0}
             answer == FirstN(order, n)
             size == IF n < Cardinality(found) THEN n ELSE Cardinality(found)
  <1>1. hits = found
    <2>1. \A id \in IDs : table[id] \notin Contents => Common(id, words) = 0
      BY FS_EmptySet DEF Common, WordsOf
    <2> QED
      BY <2>1 DEF Fetched
  <1>2. /\ order \in Seq(hits) /\ order \in Seq(IDs)
        /\ Len(order) = Cardinality(hits)
        /\ \A id \in hits : \E i \in 1..Len(order) : order[i] = id
        /\ \A i, j \in 1..Len(order) : i < j => /\ order[i] # order[j]
                                                /\ score[order[i]] >= score[order[j]]
    BY ONLY order \in Sortings(score), SortingsAreSequences
  <1> HIDE DEF hits
  <1>3. Len(order) \in Nat
    BY <1>2, LenProperties
  <1>4. /\ answer \in Seq(hits) /\ answer \in Seq(IDs)
        /\ Len(answer) = size
        /\ \A i \in 1..size : answer[i] = order[i]
    <2>1. n \in Nat
      OBVIOUS
    <2>2. /\ FirstN(order, n) \in Seq(hits)
          /\ Len(FirstN(order, n)) = IF n < Len(order) THEN n ELSE Len(order)
          /\ \A i \in 1..Len(FirstN(order, n)) : FirstN(order, n)[i] = order[i]
      BY ONLY <1>2, <2>1, FirstNStarts
    <2>3. FirstN(order, n) \in Seq(IDs)
      BY ONLY <1>2, <2>1, FirstNStarts
    <2> QED
      BY <1>1, <1>2, <2>2, <2>3
  <1> HIDE DEF answer
  <1>5. size \in Nat /\ size <= Len(order) /\ (size < Len(order) => size = n)
    BY <1>1, <1>2, <1>3
  <1>6. answer \in [1..size -> found]
    BY <1>1, <1>4, LenProperties
  <1>7. \A id \in hits : id \in IDs /\ score[id] = Common(id, words)
    BY DEF hits
  <1> HIDE DEF found, size
  <1>8. \A i \in 1..size : order[i] \in hits
    BY <1>2, <1>3, <1>5, ElementOfSeq
  <1>9. \A i, j \in 1..size : i < j =>
           /\ answer[i] # answer[j]
           /\ Common(answer[i], words) >= Common(answer[j], words)
    BY <1>2, <1>3, <1>4, <1>5, <1>7, <1>8
  <1>10. ASSUME NEW id \in found \ {answer[i] : i \in 1..size}, NEW i \in 1..size
         PROVE  Common(id, words) <= Common(answer[i], words)
    <2>1. PICK j \in 1..Len(order) : order[j] = id
      BY <1>1, <1>2, <1>10
    <2>2. j \notin 1..size
      BY <1>4, <2>1, <1>10
    <2>3. i \in 1..Len(order) /\ i < j
      BY <1>3, <1>5, <2>2
    <2>4. score[order[i]] >= score[order[j]]
      BY <1>2, <2>3
    <2> QED
      BY <1>1, <1>4, <1>7, <1>8, <2>1, <2>4
  <1> QED
    BY <1>4, <1>6, <1>9, <1>10 DEF Find, Common, found, size, answer

\* The search of a slot whose index is exact is not touched.
LEMMA AgreeFrame ==
  ASSUME AgreeInv, UNCHANGED <<table, index>>,
         \A s \in Searches : steady'[s] =>
           /\ steady[s]
           /\ phrase'[s] = phrase[s] /\ limit'[s] = limit[s] /\ left'[s] = left[s]
           /\ sPc'[s] = sPc[s] /\ matches'[s] = matches[s]
           /\ comics'[s] = comics[s] /\ sorted'[s] = sorted[s]
  PROVE  AgreeInv'
  <1> SUFFICES ASSUME NEW s \in Searches, steady'[s]
               PROVE  /\ index = IndexOf(table)
                      /\ sPc[s] = "lookup" =>
                           /\ left[s] \subseteq phrase[s]
                           /\ comics[s] = <<>>
                           /\ \A id \in IDs : matches[s][id] = Common(id, phrase[s] \ left[s])
                      /\ sPc[s] = "fetch" =>
                           comics[s] \o sorted[s] \in Find(table, phrase[s], limit[s])
    BY DEF AgreeInv, Common
  <1> QED
    BY DEF AgreeInv

LEMMA AgreeStep == TypeOK /\ AgreeInv /\ [Next]_vars => AgreeInv'
  <1> SUFFICES ASSUME TypeOK, AgreeInv, [Next]_vars PROVE AgreeInv'
    OBVIOUS
  <1> USE DEF TypeOK, buildVars, searchVars, dropVars, histVars
  <1>1. CASE BuildStart \/ BuildRow \/ BuildStartFails \/ BuildRowFails
    BY <1>1, AgreeFrame DEF BuildStart, BuildRow, BuildStartFails, BuildRowFails
  <1>2. CASE BuildPublish \/ AddComic \/ DropComics \/ Restart
    <2>1. \A s \in Searches : ~steady'[s]
      BY <1>2 DEF BuildPublish, AddComic, DropComics, Write, Restart
    <2> QED
      BY <2>1 DEF AgreeInv
  <1>3. ASSUME NEW s \in Searches, SearchStart(s) PROVE AgreeInv'
    <2>1. PICK words \in SUBSET Words :
            /\ phrase' = [phrase EXCEPT ![s] = words]
            /\ left' = [left EXCEPT ![s] = words]
      BY <1>3 DEF SearchStart
    <2>2. /\ matches' = [matches EXCEPT ![s] = [id \in IDs |-> 0]]
          /\ comics' = [comics EXCEPT ![s] = <<>>]
          /\ steady' = [steady EXCEPT ![s] = (index = IndexOf(table))]
          /\ sPc' = [sPc EXCEPT ![s] = "lookup"]
          /\ UNCHANGED <<table, index, limit, sorted>>
      BY <1>3 DEF SearchStart
    <2>3. \A id \in IDs : Common(id, words \ words) = 0
      BY FS_EmptySet DEF Common
    <2> QED
      BY <2>1, <2>2, <2>3 DEF AgreeInv, Common
  <1>4. ASSUME NEW s \in Searches, NEW word \in Words, Lookup(s, word) PROVE AgreeInv'
    <2>1. /\ word \in left[s] /\ sPc[s] = "lookup"
          /\ left' = [left EXCEPT ![s] = left[s] \ {word}]
          /\ matches' = [matches EXCEPT ![s] =
                           [id \in IDs |-> IF id \in index[word] THEN matches[s][id] + 1
                                                                 ELSE matches[s][id]]]
          /\ UNCHANGED <<table, index, sPc, phrase, limit, sorted, comics, steady>>
      BY <1>4 DEF Lookup
    <2>2. ASSUME steady[s], NEW id \in IDs
          PROVE  matches'[s][id] = Common(id, phrase[s] \ left'[s])
      <3> DEFINE seen == WordsOf(table[id]) \cap (phrase[s] \ left[s])
      <3>1. index = IndexOf(table) /\ word \in phrase[s]
            /\ matches[s][id] = Cardinality(seen)
        BY <2>1, <2>2 DEF AgreeInv, Common
      <3>2. id \in index[word] <=> word \in WordsOf(table[id])
        BY <3>1 DEF IndexOf
      <3>3. WordsOf(table[id]) \cap (phrase[s] \ left'[s])
              = IF word \in WordsOf(table[id]) THEN seen \cup {word} ELSE seen
        BY <2>1, <3>1
      <3>4. word \notin seen
        BY <2>1
      <3>5. IsFiniteSet(seen)
        BY WordCounts
      <3>6. Cardinality(seen \cup {word}) = Cardinality(seen) + 1
        BY <3>4, <3>5, FS_AddElement
      <3>7. matches'[s][id] = IF id \in index[word] THEN matches[s][id] + 1
                                                    ELSE matches[s][id]
        BY <2>1
      <3> HIDE DEF seen
      <3> QED
        BY <3>1, <3>2, <3>3, <3>6, <3>7 DEF Common
    <2>3. ASSUME NEW r \in Searches, steady'[r]
          PROVE  /\ index = IndexOf(table)
                 /\ sPc[r] = "lookup" =>
                      /\ left'[r] \subseteq phrase[r]
                      /\ comics[r] = <<>>
                      /\ \A id \in IDs : matches'[r][id] = Common(id, phrase[r] \ left'[r])
                 /\ sPc[r] = "fetch" =>
                      comics[r] \o sorted[r] \in Find(table, phrase[r], limit[r])
      <3>1. steady[r]
        BY <2>1, <2>3
      <3>2. CASE r = s
        <4>1. left'[s] \subseteq phrase[s]
          BY <2>1, <3>1, <3>2 DEF AgreeInv
        <4> QED
          BY <2>1, <2>2, <3>1, <3>2, <4>1 DEF AgreeInv
      <3>3. CASE r # s
        <4>1. left'[r] = left[r] /\ matches'[r] = matches[r]
          BY <2>1, <3>3
        <4> QED
          BY <3>1, <4>1 DEF AgreeInv
      <3> QED
        BY <3>2, <3>3
    <2> QED
      BY <2>1, <2>3 DEF AgreeInv, Common
  <1>5. ASSUME NEW s \in Searches, Sort(s) PROVE AgreeInv'
    <2>1. PICK order \in Sortings(matches[s]), n \in 1..MaxLimit :
            /\ sorted' = [sorted EXCEPT ![s] = FirstN(order, n)]
            /\ limit' = [limit EXCEPT ![s] = n]
      BY <1>5 DEF Sort
    <2>2. /\ sPc[s] = "lookup" /\ left[s] = {}
          /\ sPc' = [sPc EXCEPT ![s] = "fetch"]
          /\ matches' = [matches EXCEPT ![s] = [id \in IDs |-> 0]]
          /\ UNCHANGED <<table, index, phrase, left, comics, steady>>
      BY <1>5 DEF Sort
    <2>3. ASSUME steady[s]
          PROVE  comics'[s] \o sorted'[s] \in Find(table, phrase[s], limit'[s])
      <3>1. /\ comics[s] = <<>>
            /\ \A id \in IDs : matches[s][id] = Common(id, phrase[s] \ left[s])
        BY <2>2, <2>3 DEF AgreeInv
      <3>2. phrase[s] \ left[s] = phrase[s] /\ phrase[s] \in SUBSET Words
        BY <2>2
      <3>3. n \in Nat \ {0}
        BY SearchAssumption
      <3>4. order \in Sortings(matches[s])
        BY <2>1
      <3>5. \A id \in IDs : matches[s][id] = Common(id, phrase[s])
        BY <3>1, <3>2
      <3>6. FirstN(order, n) \in Seq(IDs) /\ FirstN(order, n) \in Find(table, phrase[s], n)
        BY ONLY <3>2, <3>3, <3>4, <3>5, SortedIsFound
      <3>7. <<>> \o FirstN(order, n) = FirstN(order, n)
        BY <3>6, ConcatEmptySeq
      <3>8. sorted'[s] = FirstN(order, n) /\ limit'[s] = n /\ comics'[s] = <<>>
        BY <2>1, <2>2, <3>1
      <3> QED
        BY <3>6, <3>7, <3>8
    <2>4. ASSUME NEW r \in Searches, steady'[r]
          PROVE  /\ index = IndexOf(table)
                 /\ sPc'[r] = "lookup" =>
                      /\ left[r] \subseteq phrase[r]
                      /\ comics[r] = <<>>
                      /\ \A id \in IDs : matches'[r][id] = Common(id, phrase[r] \ left[r])
                 /\ sPc'[r] = "fetch" =>
                      comics'[r] \o sorted'[r] \in Find(table, phrase[r], limit'[r])
      <3>1. steady[r]
        BY <2>2, <2>4
      <3>2. CASE r = s
        BY <2>2, <2>3, <3>1, <3>2 DEF AgreeInv
      <3>3. CASE r # s
        <4>1. /\ sPc'[r] = sPc[r] /\ matches'[r] = matches[r] /\ sorted'[r] = sorted[r]
              /\ limit'[r] = limit[r] /\ comics'[r] = comics[r]
          BY <2>1, <2>2, <3>3
        <4> QED
          BY <3>1, <4>1 DEF AgreeInv
      <3> QED
        BY <3>2, <3>3
    <2> QED
      BY <2>2, <2>4 DEF AgreeInv, Common
  <1>6. ASSUME NEW s \in Searches, FetchRow(s) PROVE AgreeInv'
    <2>1. /\ sPc[s] = "fetch" /\ sorted[s] # <<>>
          /\ comics' = [comics EXCEPT ![s] = Append(comics[s], Head(sorted[s]))]
          /\ sorted' = [sorted EXCEPT ![s] = Tail(sorted[s])]
          /\ UNCHANGED <<table, index, sPc, phrase, limit, left, matches, steady>>
      BY <1>6 DEF FetchRow
    <2>2. Append(comics[s], Head(sorted[s])) \o Tail(sorted[s]) = comics[s] \o sorted[s]
      <3>1. comics[s] \in Seq(IDs) /\ sorted[s] \in Seq(IDs)
        OBVIOUS
      <3> QED
        BY ONLY <2>1, <3>1, MoveHead
    <2>3. \A r \in Searches :
            /\ comics'[r] \o sorted'[r] = comics[r] \o sorted[r]
            /\ sPc[r] = "lookup" => comics'[r] = comics[r]
      BY <2>1, <2>2
    <2> QED
      BY <2>1, <2>3 DEF AgreeInv, Common
  <1>7. ASSUME NEW s \in Searches, SearchEnd(s) PROVE AgreeInv'
    BY <1>7, AgreeFrame DEF SearchEnd
  <1>8. CASE Shutdown \/ UNCHANGED vars
    BY <1>8, AgreeFrame DEF Shutdown, vars
  <1> QED
    BY <1>1, <1>2, <1>3, <1>4, <1>5, <1>6, <1>7, <1>8
    DEF Next, Progress, BuildStep, BuildFailure, SearchStep, SearchReturns, SearchFails

\* While the index is exact, SearchIndex answers what Search may answer.
THEOREM IndexSearchAgreesWithFind == Spec => []SearchesAgree
  <1>1. Init => AgreeInv
    BY DEF Init, AgreeInv
  <1>2. AgreeInv => SearchesAgree
    BY DEF AgreeInv, SearchesAgree
  <1> QED
    BY <1>1, <1>2, AgreeStep, SearchTypeCorrect, PTL DEF Spec

-----------------------------------------------------------------------------
(* The composition.  Over the table of the real update service the search  *)
(* service does nothing it does not do over a table anybody may write, and *)
(* to the update service a search service that reads makes no difference.  *)

\* The types of ComicsStore: what a call left behind is made of rows.
StoreTypes ==
  /\ table \in Table
  /\ op \in [Calls -> {"none", "update", "drop"}]
  /\ cut \in [Calls -> BOOLEAN] /\ emptied \in [Calls -> BOOLEAN]
  /\ late \in [Calls -> Table] /\ lateDrop \in [Calls -> BOOLEAN]

\* The table ComicsStore writes is the one the search service reads.
LEMMA SameTable ==
  /\ Store!IDs = IDs /\ Store!Row = Row /\ Store!Table = Table
  /\ Store!Truncated = Truncated
  /\ \A t, id, row : Store!Upsert(t, id, row) = Upsert(t, id, row)
  BY DEF Store!IDs, IDs, Store!Row, Row, Store!Table, Table, Store!Truncated,
     Truncated, Store!Upsert, Upsert

LEMMA UpsertIsTable ==
  ASSUME NEW t \in Table, NEW id \in IDs, NEW row \in Row
  PROVE  Upsert(t, id, row) \in Table
  BY DEF Upsert, Table

LEMMA TruncatedIsTable == Truncated \in Table /\ Absent \in Row
  BY DEF Truncated, Table, Row

LEMMA StoreTypesStep == StoreTypes /\ [Store!Next]_(Store!storeVars) => StoreTypes'
  <1> SUFFICES ASSUME StoreTypes, [Store!Next]_(Store!storeVars) PROVE StoreTypes'
    OBVIOUS
  <1> USE DEF StoreTypes
  <1>1. ASSUME NEW c \in Calls, Store!Call(c) PROVE StoreTypes'
    BY <1>1 DEF Store!Call, Store!Begin
  <1>2. ASSUME NEW c \in Calls, Store!Empty(c) PROVE StoreTypes'
    BY <1>2, SameTable, TruncatedIsTable DEF Store!Empty
  <1>3. ASSUME NEW c \in Calls, Store!CutOff(c) PROVE StoreTypes'
    BY <1>3 DEF Store!CutOff
  <1>4. ASSUME NEW c \in Calls, Store!Abandon(c) PROVE StoreTypes'
    <2>1. PICK rows \in Table : late' = [late EXCEPT ![c] = rows]
      BY <1>4, SameTable DEF Store!Abandon
    <2> QED
      BY <1>4, <2>1 DEF Store!Abandon
  <1>5. ASSUME NEW c \in Calls, Store!Succeed(c) PROVE StoreTypes'
    BY <1>5 DEF Store!Succeed, Store!Ends
  <1>6. ASSUME NEW c \in Calls, Store!Fail(c) PROVE StoreTypes'
    <2>1. \/ late' = late
          \/ \E rows \in Table : late' = [late EXCEPT ![c] = rows]
      BY <1>6, SameTable DEF Store!Fail
    <2>2. late' \in [Calls -> Table]
      BY <2>1
    <2>3. lateDrop' = lateDrop \/ lateDrop' = [lateDrop EXCEPT ![c] = TRUE]
      BY <1>6, SameTable DEF Store!Fail
    <2>4. lateDrop' \in [Calls -> BOOLEAN]
      BY <2>3
    <2> QED
      BY <1>6, <2>2, <2>4 DEF Store!Fail, Store!Ends
  <1>7. ASSUME NEW c \in Calls, NEW id \in IDs, Store!StoreComic(c, id) PROVE StoreTypes'
    BY <1>7, SameTable, UpsertIsTable DEF Store!StoreComic
  <1>8. ASSUME NEW c \in Calls, NEW id \in IDs, Store!LateStep(c, id) PROVE StoreTypes'
    <2>1. late[c] \in Table /\ late[c][id] \in Row
      BY DEF Table
    <2>2. [late[c] EXCEPT ![id] = Absent] \in Table
      BY <2>1, TruncatedIsTable DEF Table
    <2>3. late' = [late EXCEPT ![c] = [late[c] EXCEPT ![id] = Absent]]
      BY <1>8, SameTable DEF Store!LateStep, Store!LateRow, Store!LateRowVanishes
    <2>4. late' \in [Calls -> Table]
      BY <2>2, <2>3
    <2>5. table' \in Table
      BY <1>8, <2>1, SameTable, UpsertIsTable DEF Store!LateStep, Store!LateRow, Store!LateRowVanishes
    <2> QED
      BY <1>8, <2>4, <2>5 DEF Store!LateStep, Store!LateRow, Store!LateRowVanishes
  <1>9. ASSUME NEW c \in Calls, Store!LateDropStep(c) PROVE StoreTypes'
    BY <1>9, SameTable, TruncatedIsTable
    DEF Store!LateDropStep, Store!LateTruncate, Store!LateTruncateVanishes
  <1>10. CASE Store!Crash
    BY <1>10, SameTable DEF Store!Crash
  <1>11. CASE UNCHANGED Store!storeVars
    BY <1>11 DEF Store!storeVars
  <1> HIDE DEF StoreTypes
  <1> QED
    BY <1>1, <1>2, <1>3, <1>4, <1>5, <1>6, <1>7, <1>8, <1>9, <1>10, <1>11, SameTable
    DEF Store!Next, Store!Progress, Store!End

\* Whatever the update service does to the table is an INSERT or a TRUNCATE.
LEMMA StoreWrites ==
  ASSUME StoreTypes, Store!Next, table' # table
  PROVE  \/ \E id \in IDs, row \in Row \ {Absent} : table' = Upsert(table, id, row)
         \/ table' = Truncated
  <1>1. ASSUME NEW c \in Calls, Store!Empty(c) PROVE table' = Truncated
    BY <1>1, SameTable DEF Store!Empty
  <1>2. ASSUME NEW c \in Calls, NEW id \in IDs, Store!StoreComic(c, id)
        PROVE  \E row \in Row \ {Absent} : table' = Upsert(table, id, row)
    BY <1>2, SameTable DEF Store!StoreComic
  <1>3. ASSUME NEW c \in Calls, NEW id \in IDs, Store!LateStep(c, id)
        PROVE  \E row \in Row \ {Absent} : table' = Upsert(table, id, row)
    <2>1. late[c][id] \in Row
      BY DEF StoreTypes, Table
    <2> QED
      BY <1>3, <2>1, SameTable DEF Store!LateStep, Store!LateRow, Store!LateRowVanishes
  <1>4. ASSUME NEW c \in Calls, Store!LateDropStep(c) PROVE table' = Truncated
    BY <1>4, SameTable DEF Store!LateDropStep, Store!LateTruncate, Store!LateTruncateVanishes
  <1>5. /\ ~Store!Crash
        /\ \A c \in Calls : /\ ~Store!Call(c) /\ ~Store!CutOff(c)
                            /\ ~Store!Abandon(c) /\ ~Store!End(c)
    BY SameTable DEF Store!Crash, Store!Call, Store!Begin, Store!CutOff, Store!Abandon,
       Store!End, Store!Succeed, Store!Fail, Store!Ends
  <1> QED
    BY <1>1, <1>2, <1>3, <1>4, <1>5, SameTable DEF Store!Next, Store!Progress

LEMMA UpdateStepIsStoreStep == UpdateStep => Store!Next
  BY DEF UpdateStep, Store!Next

\* The search service only reads the table.
LEMMA SearchOnlyReads == Progress \/ BuildFailure => UNCHANGED table
  <1>1. ASSUME NEW s \in Searches, SearchStart(s) \/ SearchStep(s) PROVE UNCHANGED table
    BY <1>1 DEF SearchStart, SearchStep, Lookup, Sort, FetchRow, SearchReturns,
       SearchFails, SearchEnd
  <1>2. ASSUME BuildStep \/ BuildFailure \/ Shutdown \/ Restart PROVE UNCHANGED table
    BY <1>2 DEF BuildStep, BuildFailure, BuildStart, BuildRow, BuildPublish,
       BuildStartFails, BuildRowFails, Shutdown, Restart
  <1> QED
    BY <1>1, <1>2 DEF Progress

\* In the composition the update service is the one ComicsStore describes.
THEOREM SystemKeepsStore == SystemSpec => Store!Spec
  <1>1. SystemInit => Store!Init
    BY DEF SystemInit
  <1>2. [SystemNext]_systemVars => [Store!Next]_(Store!storeVars)
    <2> SUFFICES ASSUME [SystemNext]_systemVars PROVE [Store!Next]_(Store!storeVars)
      OBVIOUS
    <2>1. CASE UpdateStep
      BY <2>1, UpdateStepIsStoreStep
    <2>2. CASE SearchServiceStep
      BY <2>2, SearchOnlyReads DEF SearchServiceStep, updateVars, Store!storeVars
    <2>3. CASE Quiet \/ UNCHANGED systemVars
      BY <2>3 DEF Quiet, systemVars, vars, updateVars, Store!storeVars
    <2> QED
      BY <2>1, <2>2, <2>3 DEF SystemNext
  <1> QED
    BY <1>1, <1>2, PTL DEF SystemSpec, Store!Spec

LEMMA SystemStoreTypes == SystemSpec => []StoreTypes
  <1>1. Store!Init => StoreTypes
    BY TruncatedIsTable, SameTable DEF Store!Init, StoreTypes
  <1> QED
    BY <1>1, StoreTypesStep, SystemKeepsStore, PTL DEF Store!Spec

\* In the composition the search service is the one SearchService describes:
\* its environment there, which may insert any row and empty the table at any
\* time, leaves out nothing the update service can do, late statements and
\* crashes included.
THEOREM SystemKeepsSearch == SystemSpec => Spec
  <1>1. SystemInit => Init
    BY DEF SystemInit
  <1>2. StoreTypes /\ [SystemNext]_systemVars => [Next]_vars
    <2> SUFFICES ASSUME StoreTypes, [SystemNext]_systemVars PROVE [Next]_vars
      OBVIOUS
    <2>1. CASE UpdateStep
      <3>1. CASE table' = table
        BY <2>1, <3>1 DEF UpdateStep
      <3>2. CASE table' # table
        <4>1. Write(table')
          BY <2>1, <3>2 DEF UpdateStep
        <4>2. \/ \E id \in IDs, row \in Row \ {Absent} : table' = Upsert(table, id, row)
              \/ table' = Truncated
          BY <2>1, <3>2, UpdateStepIsStoreStep, StoreWrites
        <4>3. AddComic \/ DropComics
          BY <4>1, <4>2 DEF AddComic, DropComics
        <4> QED
          BY <4>3 DEF Next
      <3> QED
        BY <3>1, <3>2
    <2>2. CASE SearchServiceStep
      BY <2>2 DEF SearchServiceStep, Next
    <2>3. CASE Quiet \/ UNCHANGED systemVars
      BY <2>3 DEF Quiet, systemVars
    <2> QED
      BY <2>1, <2>2, <2>3 DEF SystemNext
  <1> QED
    BY <1>1, <1>2, SystemStoreTypes, PTL DEF SystemSpec, Spec

\* What the search service promises alone it promises over the table of the
\* real update service.
THEOREM SystemSearchesRight ==
  SystemSpec => /\ []TypeOK
                /\ PublishedIndexIsExact
                /\ []MissingRowMeansDropped
                /\ []SearchesAgree
  BY SystemKeepsSearch, SearchTypeCorrect, IndexExactWhenPublished,
     RowsMissOnlyAfterDrop, IndexSearchAgreesWithFind, PTL

\* A row goes away in nothing but a TRUNCATE: that of a Drop in progress which
\* has not emptied the table before, or one a Drop left behind.
RowsLeaveWithDrops ==
  \A id \in IDs :
    table[id] # Absent /\ table'[id] = Absent =>
      \E c \in Calls : (op[c] = "drop" /\ ~emptied[c]) \/ lateDrop[c]

\* No row of the composition leaves the table but by such a TRUNCATE: an Update,
\* however it ends, takes none away from a search.
THEOREM SystemRowsLeaveWithDrops == SystemSpec => [][RowsLeaveWithDrops]_systemVars
  <1>1. ASSUME StoreTypes, SystemNext PROVE RowsLeaveWithDrops
    <2> SUFFICES ASSUME NEW id \in IDs, table[id] # Absent, table'[id] = Absent
                 PROVE  \E c \in Calls : (op[c] = "drop" /\ ~emptied[c]) \/ lateDrop[c]
      BY DEF RowsLeaveWithDrops
    <2>1. Store!Next
      BY <1>1, UpdateStepIsStoreStep, SearchOnlyReads
      DEF SystemNext, SearchServiceStep, Quiet, vars
    <2>2. ASSUME NEW c \in Calls, Store!Empty(c) \/ Store!LateDropStep(c)
          PROVE  (op[c] = "drop" /\ ~emptied[c]) \/ lateDrop[c]
      BY <2>2 DEF Store!Empty, Store!LateDropStep, Store!LateTruncate, Store!LateTruncateVanishes
    <2>3. ASSUME NEW c \in Calls, NEW i \in IDs, Store!StoreComic(c, i) \/ Store!LateStep(c, i)
          PROVE  FALSE
      <3>1. table' = table \/ \E row \in Row \ {Absent} : table' = Upsert(table, i, row)
        <4>1. late[c][i] \in Row
          BY <1>1 DEF StoreTypes, Table
        <4> QED
          BY <2>3, <4>1, SameTable
          DEF Store!StoreComic, Store!LateStep, Store!LateRow, Store!LateRowVanishes
      <3> QED
        BY <1>1, <3>1 DEF StoreTypes, Table, Upsert
    <2>4. /\ ~Store!Crash
          /\ \A c \in Calls : /\ ~Store!Call(c) /\ ~Store!CutOff(c)
                              /\ ~Store!Abandon(c) /\ ~Store!End(c)
      BY DEF Store!Crash, Store!Call, Store!Begin, Store!CutOff, Store!Abandon,
         Store!End, Store!Succeed, Store!Fail, Store!Ends
    <2> QED
      BY <2>1, <2>2, <2>3, <2>4, SameTable DEF Store!Next, Store!Progress
  <1>2. StoreTypes /\ [SystemNext]_systemVars => [RowsLeaveWithDrops]_systemVars
    BY <1>1
  <1> QED
    BY <1>2, SystemStoreTypes, PTL DEF SystemSpec

\* The safety half of EventuallyFresh: a build during which nothing was written
\* and no query failed publishes the index of the table.
QuietBuildsAreFresh ==
  building /\ ~building' /\ initiator' = "ticking" /\ unsure = {}
    => index' = IndexOf(table)

\* In the composition such a build leaves the search service with a fresh index.
THEOREM SystemBuildsFresh == SystemSpec => [][QuietBuildsAreFresh]_vars
  <1> DEFINE Exact ==
        building /\ ~building' /\ initiator' = "ticking" =>
          \A id \in IDs \ unsure, w \in Words :
            id \in index'[w] <=> w \in WordsOf(table[id])
  <1>1. TypeOK' /\ [Exact]_vars => [QuietBuildsAreFresh]_vars
    <2> SUFFICES ASSUME TypeOK', Exact, building, ~building',
                        initiator' = "ticking", unsure = {}
                 PROVE  index' = IndexOf(table)
      BY DEF QuietBuildsAreFresh
    <2>1. index' \in [Words -> SUBSET IDs]
      BY DEF TypeOK
    <2>2. ASSUME NEW w \in Words PROVE index'[w] = {id \in IDs : w \in WordsOf(table[id])}
      BY <2>1
    <2> QED
      BY <2>1, <2>2 DEF IndexOf
  <1>2. []TypeOK /\ [][Exact]_vars => [][QuietBuildsAreFresh]_vars
    BY <1>1, PTL
  <1> HIDE DEF Exact
  <1> QED
    BY <1>2, SystemSearchesRight, PTL DEF PublishedIndexIsExact, Exact

=============================================================================
