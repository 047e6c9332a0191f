--------------------------- MODULE SearchService ---------------------------
(***************************************************************************)
(* The search service: search-services/search/core (Service, Index), its   *)
(* storage adapter and the initiator that rebuilds the index every         *)
(* INDEX_TTL.  The update service writes the table at the same time.       *)
(*                                                                         *)
(* A row's content is the set of its words: words.Norm returns each word   *)
(* once.  The in-memory index maps a word to the ids it was added for; ids *)
(* are added in increasing order, once each, so a set holds what the slice *)
(* holds.                                                                  *)
(***************************************************************************)
EXTENDS ComicsTable, Sequences

CONSTANTS
  Words,      \* normalised words
  Searches,   \* slots for SearchIndex handlers in progress
  MaxLimit    \* bound on the limit a client asks for

ASSUME SearchAssumption ==
  /\ Contents \subseteq SUBSET Words
  /\ IsFiniteSet(Words)
  /\ MaxLimit \in Nat \ {0}

VARIABLES
  table,      \* the comics table
  index,      \* Service.index
  initiator,  \* "starting": Run's first build; "ticking"; "off": it gave up
  done,       \* the context of main is done: SIGTERM
  building,   \* a BuildIndex is past GetLastID
  next,       \* BuildIndex: i
  last,       \* BuildIndex: lastID
  newIndex,   \* BuildIndex: newIndex
  sPc,        \* where each SearchIndex is
  phrase,     \* SearchIndex: the words Norm made of the phrase
  limit,      \* SearchIndex: limit
  left,       \* SearchIndex: words not looked up yet
  matches,    \* SearchIndex: numberOfMatches, 0 for an id not in the map
  sorted,     \* SearchIndex: sortedIDs still to be read from the table
  comics      \* SearchIndex: ids read so far

\* History and environment: the code has no counterpart of these.
VARIABLES
  unsure,     \* ids written, or not read, since the current build began
  steady,     \* the index has been exact since this search began
  dropBuild,  \* a TRUNCATE was executed since the current build began
  dropIndex,  \* ... since the build of `index` began
  dropSearch  \* ... since the build of the index this search met began

buildVars == <<building, next, last, newIndex, unsure>>
searchVars == <<sPc, phrase, limit, left, matches, sorted, comics>>
dropVars == <<dropBuild, dropIndex, dropSearch>>
histVars == <<steady, dropVars>>
vars == <<table, index, initiator, done, buildVars, searchVars, histVars>>

WordsOf(row) == IF row \in Contents THEN row ELSE {}

EmptyIndex == [w \in Words |-> {}]

\* The index of a table nobody touches.
IndexOf(t) == [w \in Words |-> {id \in IDs : w \in WordsOf(t[id])}]

Init ==
  /\ table \in Table
  /\ index = EmptyIndex
  /\ initiator = "starting"
  /\ done = FALSE
  /\ building = FALSE
  /\ next = 1
  /\ last = 0
  /\ newIndex = EmptyIndex
  /\ sPc = [s \in Searches |-> "idle"]
  /\ phrase = [s \in Searches |-> {}]
  /\ limit = [s \in Searches |-> 1]
  /\ left = [s \in Searches |-> {}]
  /\ matches = [s \in Searches |-> [id \in IDs |-> 0]]
  /\ sorted = [s \in Searches |-> <<>>]
  /\ comics = [s \in Searches |-> <<>>]
  /\ unsure = {}
  /\ steady = [s \in Searches |-> FALSE]
  /\ dropBuild = FALSE
  /\ dropIndex = FALSE
  /\ dropSearch = [s \in Searches |-> FALSE]

-----------------------------------------------------------------------------
(* BuildIndex, called by the initiator alone: once before the server is    *)
(* started, then at every tick of the timer.                               *)

\* SELECT coalesce(max(id), 0)
LastStored(t) ==
  CHOOSE n \in 0..MaxID : /\ n = 0 \/ n \in Stored(t)
                          /\ \A id \in Stored(t) : id <= n

\* MUTANT of BuildStart: the ids are added to the published index.
BuildStartKeepsIndex ==
  /\ initiator \in {"starting", "ticking"}
  /\ ~building
  /\ ~done
  /\ building' = TRUE
  /\ next' = 1
  /\ last' = LastStored(table)
  /\ newIndex' = index
  /\ unsure' = {}
  /\ dropBuild' = FALSE
  /\ UNCHANGED <<table, index, initiator, done, searchVars, steady,
                 dropIndex, dropSearch>>

BuildStart ==
  /\ initiator \in {"starting", "ticking"}
  /\ ~building
  /\ ~done
  /\ building' = TRUE
  /\ next' = 1
  /\ last' = LastStored(table)
  /\ newIndex' = EmptyIndex
  /\ unsure' = {}
  /\ dropBuild' = FALSE
  /\ UNCHANGED <<table, index, initiator, done, searchVars, steady,
                 dropIndex, dropSearch>>

\* GetLastID fails.  Run returns (nil, false) if this was its first build:
\* nothing will ever build the index again.  A tick only logs it.
BuildStartFails ==
  /\ initiator = "starting"
  /\ ~building
  /\ initiator' = "off"
  /\ UNCHANGED <<table, index, done, buildVars, searchVars, histVars>>

\* newIndex.Add(i, words)
Added(ix, id, words) == [w \in Words |-> IF w \in words THEN ix[w] \cup {id} ELSE ix[w]]

\* GetById reads the row.  A missing row is an error that is only logged; its
\* empty comic is added, under no word.
BuildRow ==
  /\ building
  /\ next <= last
  /\ ~done
  /\ newIndex' = Added(newIndex, next, WordsOf(table[next]))
  /\ next' = next + 1
  /\ UNCHANGED <<table, index, initiator, done, building, last, unsure,
                 searchVars, histVars>>

\* GetById fails, as it always does once the context is done: an empty comic
\* is added all the same, and the loop goes on.
BuildRowFails ==
  /\ building
  /\ next <= last
  /\ next' = next + 1
  /\ unsure' = unsure \cup {next}
  /\ UNCHANGED <<table, index, initiator, done, building, last, newIndex,
                 searchVars, histVars>>

\* MUTANT of BuildPublish: the loop of BuildIndex runs while i < lastID.
BuildPublishEarly ==
  /\ building
  /\ next >= last
  /\ index' = newIndex
  /\ building' = FALSE
  /\ initiator' = "ticking"
  /\ next' = 1
  /\ last' = 0
  /\ newIndex' = EmptyIndex
  /\ unsure' = {}
  /\ steady' = [s \in Searches |-> FALSE]
  /\ dropIndex' = dropBuild
  /\ UNCHANGED <<table, done, searchVars, dropBuild, dropSearch>>

\* s.index = newIndex, without a lock.  Run starts the ticker after its first
\* build.
BuildPublish ==
  /\ building
  /\ next > last
  /\ index' = newIndex
  /\ building' = FALSE
  /\ initiator' = "ticking"
  /\ next' = 1
  /\ last' = 0
  /\ newIndex' = EmptyIndex
  /\ unsure' = {}
  /\ steady' = [s \in Searches |-> FALSE]
  /\ dropIndex' = dropBuild
  /\ UNCHANGED <<table, done, searchVars, dropBuild, dropSearch>>

-----------------------------------------------------------------------------
(* SearchIndex.                                                            *)

\* The server accepts calls once Run has returned, and no new ones after the
\* signal.  Norm has answered with the words; no word at all is an answer.
\* The limit of the request is chosen where it is first used, in Sort.
SearchStart(s) ==
  /\ sPc[s] = "idle"
  /\ initiator # "starting"
  /\ ~done
  /\ \E words \in SUBSET Words :
       /\ phrase' = [phrase EXCEPT ![s] = words]
       /\ left' = [left EXCEPT ![s] = words]
  /\ matches' = [matches EXCEPT ![s] = [id \in IDs |-> 0]]
  /\ comics' = [comics EXCEPT ![s] = <<>>]
  /\ steady' = [steady EXCEPT ![s] = index = IndexOf(table)]
  /\ dropSearch' = [dropSearch EXCEPT ![s] = dropIndex]
  /\ sPc' = [sPc EXCEPT ![s] = "lookup"]
  /\ UNCHANGED <<table, index, initiator, done, buildVars, limit, sorted,
                 dropBuild, dropIndex>>

\* MUTANT of Lookup: Norm returns the same word more than once.
LookupAgain(s, word) ==
  /\ sPc[s] = "lookup"
  /\ word \in left[s]
  /\ \E rest \in {left[s], left[s] \ {word}} : left' = [left EXCEPT ![s] = rest]
  /\ matches' = [matches EXCEPT ![s] =
                   [id \in IDs |-> IF id \in index[word] THEN @[id] + 1
                                                         ELSE @[id]]]
  /\ UNCHANGED <<table, index, initiator, done, buildVars, sPc, phrase, limit,
                 sorted, comics, histVars>>

\* for _, ID := range s.index.GetIDs(word): each word reads s.index anew.
Lookup(s, word) ==
  /\ sPc[s] = "lookup"
  /\ word \in left[s]
  /\ left' = [left EXCEPT ![s] = @ \ {word}]
  /\ matches' = [matches EXCEPT ![s] =
                   [id \in IDs |-> IF id \in index[word] THEN @[id] + 1
                                                         ELSE @[id]]]
  /\ UNCHANGED <<table, index, initiator, done, buildVars, sPc, phrase, limit,
                 sorted, comics, histVars>>

\* MUTANT of Sortings: the comparison of SortedFunc is the wrong way round.
SortingsAscending(score) ==
  LET hits == {id \in IDs : score[id] > 0}
  IN  {order \in [1..Cardinality(hits) -> hits] :
         /\ \A i, j \in DOMAIN order : i < j => order[i] # order[j]
         /\ \A i, j \in DOMAIN order : i < j => score[order[i]] <= score[order[j]]}

\* The ids that have a match, in every order SortedFunc can leave them in:
\* most matches first, ties in any order.
Sortings(score) ==
  LET hits == {id \in IDs : score[id] > 0}
  IN  {order \in [1..Cardinality(hits) -> hits] :
         /\ \A i, j \in DOMAIN order : i < j => order[i] # order[j]
         /\ \A i, j \in DOMAIN order : i < j => score[order[i]] >= score[order[j]]}

\* min(limit, len(sortedIDs)), and the slice taken.
FirstN(order, n) == SubSeq(order, 1, IF n < Len(order) THEN n ELSE Len(order))

Sort(s) ==
  /\ sPc[s] = "lookup"
  /\ left[s] = {}
  /\ \E order \in Sortings(matches[s]), n \in 1..MaxLimit :
       /\ sorted' = [sorted EXCEPT ![s] = FirstN(order, n)]
       /\ limit' = [limit EXCEPT ![s] = n]
  /\ matches' = [matches EXCEPT ![s] = [id \in IDs |-> 0]]
  /\ sPc' = [sPc EXCEPT ![s] = "fetch"]
  /\ UNCHANGED <<table, index, initiator, done, buildVars, phrase, left, comics,
                 histVars>>

\* GetById finds a row, whatever it holds by now.
FetchRow(s) ==
  /\ sPc[s] = "fetch"
  /\ sorted[s] # <<>>
  /\ table[Head(sorted[s])] # Absent
  /\ comics' = [comics EXCEPT ![s] = Append(@, Head(sorted[s]))]
  /\ sorted' = [sorted EXCEPT ![s] = Tail(@)]
  /\ UNCHANGED <<table, index, initiator, done, buildVars, sPc, phrase, limit,
                 left, matches, histVars>>

\* SearchIndex is over and its slot is free again.
SearchEnd(s) ==
  /\ sPc' = [sPc EXCEPT ![s] = "idle"]
  /\ phrase' = [phrase EXCEPT ![s] = {}]
  /\ limit' = [limit EXCEPT ![s] = 1]
  /\ left' = [left EXCEPT ![s] = {}]
  /\ matches' = [matches EXCEPT ![s] = [id \in IDs |-> 0]]
  /\ sorted' = [sorted EXCEPT ![s] = <<>>]
  /\ comics' = [comics EXCEPT ![s] = <<>>]
  /\ steady' = [steady EXCEPT ![s] = FALSE]
  /\ dropSearch' = [dropSearch EXCEPT ![s] = FALSE]
  /\ UNCHANGED <<table, index, initiator, done, buildVars, dropBuild,
                 dropIndex>>

\* Every id was read: the comics are returned.
SearchReturns(s) ==
  /\ sPc[s] = "fetch"
  /\ sorted[s] = <<>>
  /\ SearchEnd(s)

\* GetById finds no row, or the query fails: the whole search fails.
SearchFails(s) ==
  /\ sPc[s] = "fetch"
  /\ sorted[s] # <<>>
  /\ SearchEnd(s)

\* Search: what Find may answer.  The rows with a url and a common word, most
\* common words first, the first n of them.
Find(t, words, n) ==
  LET common(id) == Cardinality(WordsOf(t[id]) \cap words)
      hits == {id \in Fetched(t) : common(id) > 0}
      size == IF n < Cardinality(hits) THEN n ELSE Cardinality(hits)
  IN  {answer \in [1..size -> hits] :
         /\ \A i, j \in 1..size : i < j => /\ answer[i] # answer[j]
                                           /\ common(answer[i]) >= common(answer[j])
         /\ \A id \in hits \ {answer[i] : i \in 1..size}, i \in 1..size :
              common(id) <= common(answer[i])}

-----------------------------------------------------------------------------
(* The environment.                                                        *)

\* The update service executes a statement on the table.
Write(t) ==
  /\ table' = t
  /\ t # table
  /\ unsure' = unsure \cup {id \in IDs : building /\ t[id] # table[id]}
  /\ steady' = [s \in Searches |-> FALSE]
  /\ dropBuild' = (dropBuild \/ (building /\ t = Truncated))
  /\ dropIndex' = (dropIndex \/ t = Truncated)
  /\ dropSearch' = [s \in Searches |->
                      dropSearch[s] \/ (sPc[s] # "idle" /\ t = Truncated)]
  /\ UNCHANGED <<index, initiator, done, building, next, last, newIndex,
                 searchVars>>

AddComic == \E id \in IDs, row \in Row \ {Absent} : Write(Upsert(table, id, row))

DropComics == Write(Truncated)

\* SIGTERM: the initiator stops, calls in progress go on.
Shutdown ==
  /\ ~done
  /\ done' = TRUE
  /\ UNCHANGED <<table, index, initiator, buildVars, searchVars, histVars>>

\* The process is started again (restart: unless-stopped), after a shutdown
\* or a crash.
Restart ==
  /\ index' = EmptyIndex
  /\ initiator' = "starting"
  /\ done' = FALSE
  /\ building' = FALSE
  /\ next' = 1
  /\ last' = 0
  /\ newIndex' = EmptyIndex
  /\ sPc' = [s \in Searches |-> "idle"]
  /\ phrase' = [s \in Searches |-> {}]
  /\ limit' = [s \in Searches |-> 1]
  /\ left' = [s \in Searches |-> {}]
  /\ matches' = [s \in Searches |-> [id \in IDs |-> 0]]
  /\ sorted' = [s \in Searches |-> <<>>]
  /\ comics' = [s \in Searches |-> <<>>]
  /\ unsure' = {}
  /\ steady' = [s \in Searches |-> FALSE]
  /\ dropBuild' = FALSE
  /\ dropIndex' = FALSE
  /\ dropSearch' = [s \in Searches |-> FALSE]
  /\ UNCHANGED <<table>>

-----------------------------------------------------------------------------

BuildStep == BuildStart \/ BuildRow \/ BuildPublish

BuildFailure == BuildStartFails \/ BuildRowFails

SearchStep(s) ==
  \/ \E word \in Words : Lookup(s, word)
  \/ Sort(s)
  \/ FetchRow(s)
  \/ SearchReturns(s)
  \/ SearchFails(s)

\* What the search service does when no query of a build fails.
Progress ==
  \/ BuildStep
  \/ \E s \in Searches : SearchStart(s) \/ SearchStep(s)
  \/ Shutdown
  \/ Restart

Next ==
  \/ Progress
  \/ BuildFailure
  \/ AddComic
  \/ DropComics

Spec == Init /\ [][Next]_vars

-----------------------------------------------------------------------------
(* Properties.                                                             *)

TypeOK ==
  /\ table \in Table
  /\ index \in [Words -> SUBSET IDs]
  /\ initiator \in {"starting", "ticking", "off"}
  /\ {done, building, dropBuild, dropIndex} \subseteq BOOLEAN
  /\ next \in 1..(MaxID + 1)
  /\ last \in 0..MaxID
  /\ newIndex \in [Words -> SUBSET IDs]
  /\ sPc \in [Searches -> {"idle", "lookup", "fetch"}]
  /\ phrase \in [Searches -> SUBSET Words]
  /\ limit \in [Searches -> 1..MaxLimit]
  /\ left \in [Searches -> SUBSET Words]
  /\ matches \in [Searches -> [IDs -> 0..Cardinality(Words)]]
  /\ sorted \in [Searches -> Seq(IDs)]
  /\ comics \in [Searches -> Seq(IDs)]
  /\ unsure \subseteq IDs
  /\ {steady, dropSearch} \subseteq [Searches -> BOOLEAN]

\* Whatever is written and dropped while the index is built, the published
\* index is exact for every id that was read and not written meanwhile.
PublishedIndexIsExact ==
  [][building /\ ~building' /\ initiator' = "ticking" =>
       \A id \in IDs \ unsure, w \in Words :
         id \in index'[w] <=> w \in WordsOf(table[id])]_vars

\* While the index is exact, SearchIndex answers what Search may answer: the
\* ids read and still to be read are one of the results of Find, so none of
\* them is missing either.
SearchesAgree ==
  \A s \in Searches :
    steady[s] /\ sPc[s] = "fetch"
      => comics[s] \o sorted[s] \in Find(table, phrase[s], limit[s])

\* A search fails for want of a row only if a Drop emptied the table since the
\* index it was answered from began to be built: an index never offers an id
\* that was gone before, however it was swapped while the search ran.
MissingRowMeansDropped ==
  \A s \in Searches, i \in IDs :
    sPc[s] = "fetch" /\ i \in DOMAIN sorted[s] /\ table[sorted[s][i]] = Absent
      => dropSearch[s]

-----------------------------------------------------------------------------
(* README.md: the index for /api/isearch is refreshed periodically, every  *)
(* INDEX_TTL.                                                              *)

\* While the server accepts searches, something refreshes its index.
IndexRefreshedWhileServing ==
  initiator # "starting" /\ ~done => initiator = "ticking"
=============================================================================
