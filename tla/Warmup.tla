------------------------------- MODULE Warmup -------------------------------
(***************************************************************************)
(* A process starts, or starts again, beside writers that do not wait for  *)
(* it.  It opens the change stream, registers its listener and queries the *)
(* collection; what it has found is added to the cache and the indexes     *)
(* (NewInMemory), and then it begins to listen.  The stream has kept the   *)
(* events since it was opened: those of the writes the query has seen are  *)
(* replayed over their own results.                                        *)
(*                                                                         *)
(* This module has the query, the writers and what is handed to the        *)
(* Listener; Startup adds what the Listener does with it.  The cursor of   *)
(* the query is no snapshot: it passes each document at a time of its own  *)
(* (Read), as it is in its latest state.                                   *)
(***************************************************************************)
EXTENDS EntityStore

CONSTANT
    Warm            \* the documents that match the WarmupFilter

ASSUME WarmupAssumption == Warm \subseteq Docs

VARIABLES
    phase,          \* "query", "serve" (first what was found, then the stream), or
                    \* "failed": NewInMemory returned an error
    found,          \* what the query has found, to be added
    readAt          \* id -> the writes that preceded its reading, once it is read

startupVars == <<phase, found, readAt>>

(* Mutation: the stream is opened when the query is over.                  *)
feedOpenedLate ==
    found \o IF phase = "serve"
             THEN SubSeq(log, 1 + (CHOOSE n \in Maps!Range(readAt) : \A m \in Maps!Range(readAt) : m <= n),
                         Len(log))
             ELSE <<>>

(* What is handed to the Listener: first everything the query has found,   *)
(* then all events since the stream was opened.                            *)
feed == found \o IF phase = "serve" THEN log ELSE <<>>

StartupInit ==
    /\ history \in {<<c>> : c \in [Ids -> Inserts \cup {NoDoc}]}
    /\ \A x, y \in Ids :
          x # y /\ db[x] # NoDoc /\ db[y] # NoDoc =>
             KeysOf(db[x], UniqueFrom) \cap KeysOf(db[y], UniqueFrom) = {}
    /\ log = <<>>
    /\ stage = "idle" /\ todo = {} /\ taken = 0
    /\ C!Init /\ Inverse!Init /\ Unique!Init /\ Sorted!Init /\ Suffix!Init
    /\ phase = "query" /\ found = <<>> /\ readAt = <<>>

(* The Listener never looks at the collection: a write while it is at work *)
(* might as well come later.                                               *)
Write ==
    /\ phase = "query" \/ (phase = "serve" /\ taken = Len(feed) /\ stage = "idle")
    /\ \E id \in Ids : \/ \E doc \in Inserts : Insert(id, doc)
                       \/ \E u \in Updates : Modify(id, u)
                       \/ Remove(id)
    /\ UNCHANGED startupVars

Read(id) ==
    /\ phase = "query"
    /\ id \notin DOMAIN readAt
    /\ readAt' = [x \in DOMAIN readAt \cup {id} |-> IF x = id THEN Len(log) ELSE readAt[x]]
    /\ found' = IF db[id] \in Warm
                THEN Append(found, [op |-> "insert", id |-> id, fields |-> db[id], removed |-> {}])
                ELSE found
    /\ UNCHANGED <<phase, vars>>

(* The query fails, or the cursor: NewInMemory returns the error.          *)
QueryFails ==
    /\ phase = "query"
    /\ phase' = "failed"
    /\ UNCHANGED <<found, readAt, vars>>

(* Mutation: the application goes on only if there was something to load.  *)
ListenIfFound ==
    /\ phase = "query"
    /\ DOMAIN readAt = Ids
    /\ found # <<>>
    /\ phase' = "serve"
    /\ UNCHANGED <<found, readAt, vars>>

Listen ==
    /\ phase = "query"
    /\ DOMAIN readAt = Ids
    /\ phase' = "serve"
    /\ UNCHANGED <<found, readAt, vars>>

-----------------------------------------------------------------------------
(* How many events of the stream the cache has seen.                       *)
Replayed ==
    IF phase # "serve" THEN -1
    ELSE (IF stage = "before" THEN taken - 1 ELSE taken) - Len(found)

(* The documents that were created while the process started and that the  *)
(* query found all the same: the stream adds them once more.               *)
AddedTwice ==
    {found[j].id : j \in {i \in DOMAIN found :
        \E k \in 1..readAt[found[i].id] : log[k].op = "insert" /\ log[k].id = found[i].id}}

(* The process knows of a document if the query found it or the stream has *)
(* brought its insertion.                                                  *)
Known ==
    {id \in Ids : \E k \in 1..(Replayed + Len(found)) : feed[k].op = "insert" /\ feed[k].id = id}

CaughtUp == phase = "serve" /\ stage = "idle" /\ taken = Len(feed)
=============================================================================
