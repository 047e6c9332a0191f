------------------------ MODULE UpdateImplementsStore ------------------------
(***************************************************************************)
(* The update service implements ComicsStore.                              *)
(***************************************************************************)
EXTENDS UpdateService

OpOf(c) ==
  CASE pc[c] \in UpdatePCs -> "update"
    [] pc[c] \in DropPCs   -> "drop"
    [] OTHER               -> "none"

\* The caller of c has left, or connections of c break.
IsCut(c) == cancelled[c] \/ lost[c]

\* The INSERTs of call c nobody stands behind any more.
LateRows(c) == [id \in IDs |-> IF Owned(c, id) THEN Absent ELSE adding[c][id]]

Store == INSTANCE ComicsStore WITH
  op       <- [c \in Calls |-> OpOf(c)],
  cut      <- [c \in Calls |-> Critical(c) /\ IsCut(c)],
  emptied  <- [c \in Calls |-> pc[c] = "dropSent" /\ ~truncating[c]],
  late     <- [c \in Calls |-> LateRows(c)],
  lateDrop <- [c \in Calls |-> truncating[c] /\ pc[c] # "dropSent"]

\* Whatever its goroutines, its callers, its connections and the machine do,
\* what the service does to the table is what ComicsStore allows: an Update or
\* a Drop that ends with its caller waiting and its connections intact leaves
\* no statement behind, a Drop that succeeds has emptied the table, two of
\* them never overlap.
ImplementsStore == Store!Spec

\* And every call ends, every statement left behind is over some day: the
\* fairness ComicsStore promises to those who read the table.
ImplementsFairStore == Store!FairSpec
=============================================================================
