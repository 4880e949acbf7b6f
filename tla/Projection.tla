----------------------------- MODULE Projection -----------------------------
(***************************************************************************)
(* What the library promises about one collection: the in-memory cache is  *)
(* a projection of it.  `history' is the sequence of the states the        *)
(* collection has gone through, one more after each committed write; the   *)
(* cache always equals one of them, and moves along them one write at a    *)
(* time, in commit order, never skipping one and never turning back.       *)
(***************************************************************************)
EXTENDS Integers, Sequences

CONSTANTS
    Ids,                \* document ids of the collection
    Docs,               \* what a document may be
    NoDoc               \* it does not exist

VARIABLES
    history,            \* the states of the collection, oldest first
    position,           \* how many of them the cache has reached
    view                \* the content of the cache

vars == <<history, position, view>>

Init ==
    /\ history = <<[i \in Ids |-> NoDoc]>>
    /\ position = 1
    /\ view = history[1]

(* A write commits in MongoDB and touches one document.                    *)
Commit ==
    LET now == history'[Len(history')] IN
    /\ history' = Append(history, now)
    /\ now \in [Ids -> Docs \cup {NoDoc}]
    /\ \E i \in Ids : \A j \in Ids \ {i} : now[j] = history[Len(history)][j]
    /\ UNCHANGED <<position, view>>

(* The next change-stream event reaches the cache.                         *)
Apply ==
    /\ position < Len(history)
    /\ position' = position + 1
    /\ view' = history[position + 1]
    /\ UNCHANGED history

Next == Commit \/ Apply

Safety == Init /\ [][Next]_vars

(* Every event is applied in the end.                                      *)
Spec == Safety /\ WF_vars(Apply)
=============================================================================
