------------------------------ MODULE Startup ------------------------------
(***************************************************************************)
(* A start beside writers (module Warmup), with the Listener, the cache    *)
(* and the indexes of EntityStore, which are handed what the query has     *)
(* found and then the events of the stream.                                *)
(***************************************************************************)
EXTENDS Warmup

CONSTANT
    Order           \* the order in which this process has registered its indexes

ASSUME StartupAssumption ==
    Order \in [1..4 -> BeforeListeners] /\ Maps!Range(Order) = BeforeListeners

Feed == INSTANCE EntityStore WITH log <- feed

HandleFeed ==
    /\ phase = "serve"
    /\ UNCHANGED <<startupVars, mongoVars>>
    /\ Feed!Handle
    /\ \E k \in 1..5 : todo' = Lists!ToSet(SubSeq(Order, k, 4))

StartupNext ==
    \/ Write
    \/ \E id \in Ids : Read(id)
    \/ QueryFails
    \/ Listen
    \/ HandleFeed

(* The database answers, NewInMemory goes on, and so does Stream.Listen.   *)
StartupSpec ==
    /\ StartupInit /\ [][StartupNext]_<<vars, startupVars>>
    /\ WF_<<vars, startupVars>>((\E id \in Ids : Read(id)) \/ Listen \/ HandleFeed)
-----------------------------------------------------------------------------
(* The documents for which the stream has reached what the query saw.      *)
UpToDate ==
    {id \in Ids : /\ Replayed >= 0
                  /\ readAt[id] <= Replayed
                  /\ id \in Feed!Settled}

StartupTypeOK ==
    /\ history \in Seq([Ids -> Docs \cup {NoDoc}])
    /\ taken \in 0..Len(feed)
    /\ stage \in {"idle", "before", "after"}
    /\ todo \subseteq BeforeListeners
    /\ C!TypeOK /\ Inverse!TypeOK /\ Unique!TypeOK /\ Sorted!TypeOK /\ Suffix!TypeOK
    /\ phase \in {"query", "serve", "failed"}
    /\ found \in Seq([op : {"insert"}, id : Ids, fields : Warm, removed : {{}}])
    /\ DOMAIN readAt \subseteq Ids
    /\ \A id \in DOMAIN readAt : readAt[id] \in 0..Len(log)
    /\ phase = "serve" => DOMAIN readAt = Ids

(* Though old events are replayed over newer documents, the cache shows    *)
(* each document as the collection had it at the place the stream has come *)
(* to, once that is past the reading of the document; documents the filter *)
(* has left out, and only they, are missing.                               *)
Converged ==
    \A id \in UpToDate :
       cache[id] = IF id \in Known THEN history[1 + Replayed][id] ELSE NoDoc

(* Before that, the cache may mix older states with the one that the query *)
(* has read, but no others: each field is as the stream has left it, or as *)
(* it was when the document was read, and that only while the stream is    *)
(* behind the reading.                                                     *)
NothingInvented ==
    LET streamed == IF Replayed > 0 THEN Replayed ELSE 0 IN
    \A id \in Ids : cache[id] # NoDoc =>
       \A f \in Fields : \E n \in {streamed, readAt[id]} :
          /\ n >= streamed
          /\ history[n + 1][id] # NoDoc /\ cache[id][f] = history[n + 1][id][f]

(* Lookups miss no document, however it was loaded; but for a document     *)
(* added twice (or that has lost its key) the lists hold nothing else, and *)
(* hold nothing twice.                                                     *)
ListedAfterStartup ==
    \A id \in UpToDate, key \in Keys(InverseFrom) :
       LET times == Times(Inverse!Get(key), id) IN
       /\ Due(id, key) <= times
       /\ id \notin AddedTwice \cup Feed!LostKey => Due(id, key) = times

(* Before the query read the document, an update gave it a key that        *)
(* another had had since the stream was opened, and it has kept the key.   *)
(* When that update is replayed, the document has the key already: Update  *)
(* passes it over, though the replayed event by which the other gave the   *)
(* key up may have taken the entry away.                                   *)
PassedOver(id, key) ==
    \E j \in DOMAIN found : \E k \in 1..readAt[id] :
       /\ found[j].id = id
       /\ log[k].op = "update" /\ log[k].id = id /\ key \in KeysOf(log[k].fields, UniqueFrom)
       /\ \E n \in 1..k, other \in Ids \ {id} :
             history[n][other] # NoDoc /\ key \in KeysOf(history[n][other], UniqueFrom)
       /\ \A n \in k..Replayed :
             history[n + 1][id] # NoDoc /\ key \in KeysOf(history[n + 1][id], UniqueFrom)

(* The document a unique key leads to is one that has the key, and every   *)
(* document is found by its key, but for those that were passed over.      *)
UniqueAfterStartup ==
    Replayed >= 0 /\ UpToDate = Ids =>
       \A key \in Keys(UniqueFrom) :
          LET id == Unique!Get(key) IN
          /\ id # Nil => cache[id] # NoDoc /\ key \in KeysOf(cache[id], UniqueFrom)
          /\ \A holder \in Ids \ {id} :
                cache[holder] # NoDoc /\ key \in KeysOf(cache[holder], UniqueFrom)
                   => PassedOver(holder, key)

(* Every document can be found by all parts of its text, and the sorted    *)
(* index has it once, also after replays.                                  *)
FoundAfterStartup ==
    stage = "idle" => \A id \in UpToDate :
       /\ ~ locked => Times(Sorted!Intersect(Ids), id) = IF cache[id] = NoDoc THEN 0 ELSE 1
       /\ cache[id] # NoDoc =>
             \A part \in Suffix!Parts(Suffix!Contents(cache[id])) :
                Len(part) >= 3 => Lists!Contains(Suffix!Search(part), id)

(* The sorted index is blocked for good only by a document that was        *)
(* created while the process started, found, and replayed with the text it *)
(* was found with.                                                         *)
BlockedByReplay ==
    locked => \E j \in DOMAIN found : \E k \in 1..readAt[found[j].id] :
                 /\ log[k].op = "insert" /\ log[k].id = found[j].id
                 /\ Key(log[k].fields, SortedFrom) = Key(found[j].fields, SortedFrom)

(* Unless the query fails, everything the query found and everything that  *)
(* the stream has brought since is handled, or the sorted index is blocked.*)
CatchesUp == <>[](phase = "failed" \/ locked \/ CaughtUp)
=============================================================================
