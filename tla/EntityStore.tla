----------------------------- MODULE EntityStore -----------------------------
(***************************************************************************)
(* The in-memory side of one collection: the Listener, which passes every  *)
(* change event to the indexes that must see the old document, then to     *)
(* the cache, then to the indexes that must see the new one; and the       *)
(* threads of the application, which look things up in between.            *)
(*                                                                         *)
(* NewInMemory has returned, the collection was empty, and Stream.Listen   *)
(* hands over one event at a time.  There is one index of each kind; the   *)
(* suffix index is called both before and after the cache.                 *)
(***************************************************************************)
EXTENDS Documents, Intersections

Lists == INSTANCE SequencesExt

CONSTANTS
    InverseFrom, UniqueFrom, SortedFrom, SuffixFrom,    \* the indexed fields
    To,             \* the field the inverse index lists instead of the id, or Nil
    Spelling, Lower, Marks,     \* texts: see Texts and SuffixIndex
    Inserts,        \* documents that are inserted
    Updates,        \* updates, as [set, removed, nulled]: fields given a value,
                    \* fields removed, fields set to null
    MaxWrites,      \* bound on the writes of a behaviour
    MaxLag          \* bound on the writes the listener has not begun with

ASSUME EntityStoreAssumption ==
    /\ {InverseFrom, UniqueFrom, SortedFrom, SuffixFrom} \subseteq Seq(Fields)
    /\ To \in Fields \cup {Nil}
    /\ Inserts \subseteq Docs
    /\ Updates \subseteq [set : Docs, removed : SUBSET Fields, nulled : SUBSET Fields]
    /\ \A u \in Updates : u.removed \cap u.nulled = {}
                          /\ \A f \in u.removed \cup u.nulled : u.set[f] = Nil
    /\ \A v \in Values \cup Ids : Spelling[v] \in Seq(DOMAIN Lower)
    /\ Marks \subseteq DOMAIN Lower
    /\ MaxWrites \in Nat /\ MaxLag \in Nat

VARIABLES
    history,        \* states of the collection, one more per committed write
    log,            \* the change events, one per committed write
    stage,          \* where the Listener is with the event it handles
    todo,           \* the before-listeners it has yet to call
    taken,          \* how many events it has been handed
    cache, itemsByIndex, indexByID,
    inverse, inverseNil,
    unique,
    items, locked,
    postings

mongoVars    == <<history, log>>
listenerVars == <<stage, todo, taken>>
cacheVars    == <<cache, itemsByIndex, indexByID>>
inverseVars  == <<inverse, inverseNil>>
sortedVars   == <<items, locked>>
indexVars    == <<inverseVars, unique, sortedVars, postings>>
vars == <<mongoVars, listenerVars, cacheVars, indexVars>>

C       == INSTANCE Cache
Inverse == INSTANCE InverseIndex WITH From <- InverseFrom, data <- inverse, nilData <- inverseNil
Unique  == INSTANCE UniqueIndex WITH From <- UniqueFrom, To <- Nil, data <- unique
Sorted  == INSTANCE SortedIndex WITH From <- SortedFrom, To <- Nil
Suffix  == INSTANCE SuffixIndex WITH From <- SuffixFrom, To <- Nil

BeforeListeners == {"inverse", "unique", "sorted", "suffix"}

event == log[taken]
db == history[Len(history)]

Init ==
    /\ history = <<[id \in Ids |-> NoDoc]>>
    /\ log = <<>>
    /\ stage = "idle" /\ todo = {} /\ taken = 0
    /\ C!Init /\ Inverse!Init /\ Unique!Init /\ Sorted!Init /\ Suffix!Init

-----------------------------------------------------------------------------
(* MongoDB.  A unique index in the database keeps the unique keys apart.   *)

Commit(op, id, doc, set, removed) ==
    /\ Len(log) < MaxWrites
    /\ Len(log) - taken < MaxLag
    /\ doc # NoDoc =>
          \A other \in Ids \ {id} :
             db[other] # NoDoc => KeysOf(db[other], UniqueFrom) \cap KeysOf(doc, UniqueFrom) = {}
    /\ history' = Append(history, [db EXCEPT ![id] = doc])
    /\ log' = Append(log, [op |-> op, id |-> id, fields |-> set, removed |-> removed])
    /\ UNCHANGED <<listenerVars, cacheVars, indexVars>>

Insert(id, doc) ==
    /\ db[id] = NoDoc
    /\ Commit("insert", id, doc, doc, {})

Modify(id, u) ==
    /\ db[id] # NoDoc
    /\ LET doc == [f \in Fields |-> IF f \in u.removed \cup u.nulled THEN Nil
                                    ELSE IF u.set[f] # Nil THEN u.set[f]
                                    ELSE db[id][f]]
       IN doc # db[id] /\ Commit("update", id, doc, u.set, u.removed)

Remove(id) ==
    /\ db[id] # NoDoc
    /\ Commit("delete", id, NoDoc, Blank, {})

-----------------------------------------------------------------------------
(* Listener.Add, Update and Delete.                                        *)

Receive ==
    /\ stage = "idle"
    /\ taken < Len(log)
    /\ taken' = taken + 1
    /\ stage' = "before"
    /\ todo' = BeforeListeners
    /\ UNCHANGED <<mongoVars, cacheVars, indexVars>>

(* The indexes are registered in the order in which a Go map is ranged     *)
(* over: any.                                                              *)
CallBefore(listener) ==
    /\ stage = "before"
    /\ listener \in todo
    /\ todo' = todo \ {listener}
    /\ UNCHANGED <<mongoVars, stage, taken, cacheVars>>

BeforeInverse ==
    /\ CallBefore("inverse")
    /\ \E e \in {event} :
          CASE e.op = "insert" -> Inverse!Add(e.id, e.fields)
            [] e.op = "update" -> Inverse!Update(e.id, e.fields)
            [] e.op = "delete" -> Inverse!Delete(e.id)
    /\ UNCHANGED <<unique, sortedVars, postings>>

BeforeUnique ==
    /\ CallBefore("unique")
    /\ \E e \in {event} :
          CASE e.op = "insert" -> Unique!Add(e.id, e.fields)
            [] e.op = "update" -> Unique!Update(e.id, e.fields)
            [] e.op = "delete" -> Unique!Delete(e.id)
    /\ UNCHANGED <<inverseVars, sortedVars, postings>>

BeforeSorted ==
    /\ CallBefore("sorted")
    /\ \E e \in {event} :
          CASE e.op = "insert" -> Sorted!Add(e.id, e.fields)
            [] e.op = "update" -> Sorted!Update(e.id, e.fields)
            [] e.op = "delete" -> Sorted!Delete(e.id)
    /\ UNCHANGED <<inverseVars, unique, postings>>

BeforeSuffix ==
    /\ CallBefore("suffix")
    /\ \E e \in {event} :
          CASE e.op = "insert" -> Suffix!Add(e.id, e.fields)
            [] e.op = "update" -> Suffix!Update(e.id)
            [] e.op = "delete" -> Suffix!Delete(e.id)
    /\ UNCHANGED <<inverseVars, unique, sortedVars>>

(* Mutation: the cache changes while listeners that need the old document  *)
(* are still to be called.                                                 *)
ApplyEarly ==
    /\ stage = "before"
    /\ CASE event.op = "insert" -> C!Add(event.id, event.fields)
         [] event.op = "update" -> C!Update(event.id, event.fields, event.removed)
         [] event.op = "delete" -> C!Delete(event.id)
    /\ stage' = IF todo = {} THEN "after" ELSE "before"
    /\ UNCHANGED <<mongoVars, todo, taken, indexVars>>

Apply ==
    /\ stage = "before"
    /\ todo = {}
    /\ CASE event.op = "insert" -> C!Add(event.id, event.fields)
         [] event.op = "update" -> C!Update(event.id, event.fields, event.removed)
         [] event.op = "delete" -> C!Delete(event.id)
    /\ stage' = "after"
    /\ UNCHANGED <<mongoVars, todo, taken, indexVars>>

AfterSuffix ==
    /\ stage = "after"
    /\ \E e \in {event} :
          CASE e.op = "insert" -> Suffix!Add(e.id, e.fields)
            [] e.op = "update" -> Suffix!Update(e.id)
            [] e.op = "delete" -> Suffix!Delete(e.id)
    /\ stage' = "idle"
    /\ UNCHANGED <<mongoVars, todo, taken, cacheVars, inverseVars, unique, sortedVars>>

(* A thread of the application processes a document by its number.         *)
GetByIndex(n) ==
    /\ C!GetByIndex(n)
    /\ UNCHANGED <<mongoVars, listenerVars, indexVars>>

-----------------------------------------------------------------------------
Handle == Receive \/ BeforeInverse \/ BeforeUnique \/ BeforeSorted \/ BeforeSuffix
          \/ Apply \/ AfterSuffix

Next ==
    \/ \E id \in Ids : \/ \E doc \in Inserts : Insert(id, doc)
                       \/ \E u \in Updates : Modify(id, u)
                       \/ Remove(id)
    \/ Handle
    \/ \E n \in DOMAIN itemsByIndex : GetByIndex(n)

Spec == Init /\ [][Next]_vars
-----------------------------------------------------------------------------
TypeOK ==
    /\ history \in Seq([Ids -> Docs \cup {NoDoc}])
    /\ log \in Seq([op : {"insert", "update", "delete"}, id : Ids,
                    fields : Docs, removed : SUBSET Fields])
    /\ taken \in 0..Len(log)
    /\ stage \in {"idle", "before", "after"}
    /\ stage # "idle" => taken # 0
    /\ todo \subseteq BeforeListeners
    /\ C!TypeOK /\ Inverse!TypeOK /\ Unique!TypeOK /\ Sorted!TypeOK /\ Suffix!TypeOK

(* The cache is a projection of the collection (module Projection): though *)
(* events carry only the changed fields, merging them one by one gives the *)
(* documents of the collection, state by state.                            *)
Projected == INSTANCE Projection WITH
                view <- cache,
                position <- (IF stage = "before" THEN taken ELSE taken + 1)

CacheIsProjection == Projected!Safety

(* Documents that no event is changing at the moment.                      *)
Settled == IF stage = "idle" THEN Ids ELSE Ids \ {event.id}

(* How often the inverse index should list a document under a key.         *)
Due(id, key) ==
    IF cache[id] # NoDoc /\ Key(cache[id], InverseFrom) = key THEN 1 ELSE 0

(* Documents that had a key which an event took away (`$unset'): the index *)
(* keeps them under it.                                                    *)
LostKey ==
    {log[k].id : k \in {j \in 1..taken : log[j].removed \cap Lists!ToSet(InverseFrom) # {}}}

(* Under each key, the inverse index lists the cached documents with this  *)
(* key, each once, and nobody else, whatever happened to the documents     *)
(* before and whatever is happening to others; and while an event is       *)
(* changing a document, it is listed at most once, and at least once if it *)
(* has a key before and after.  What became of documents that have lost a  *)
(* key does not show in the lists of the others.                           *)
InverseExact ==
    /\ \A id \in Settled \ LostKey, key \in Keys(InverseFrom) :
          Times(Inverse!Get(key), id) = Due(id, key)
    /\ \A id \in Ids \ (Settled \cup LostKey) :
          LET listed == {key \in Keys(InverseFrom) : Times(Inverse!Get(key), id) # 0} IN
          /\ \A key \in listed : Times(Inverse!Get(key), id) = 1
          /\ Cardinality(listed) <= 1
          /\ event.op = "update" /\ cache[id] # NoDoc
                /\ Key(cache[id], InverseFrom) # <<>> => listed # {}

(* A lookup misses no document: also one that has lost its key and gained  *)
(* another, or was deleted and created again, is listed under the key it   *)
(* has now; and the list of those without a key, from which deletions take *)
(* nobody, holds every document that never had one.                        *)
InverseComplete ==
    /\ \A id \in Settled, key \in Keys(InverseFrom) :
          Due(id, key) = 1 => Times(Inverse!Get(key), id) >= 1
    /\ \A id \in Settled \ LostKey :
          Due(id, <<>>) = 1 => Times(Inverse!Get(<<Nil>>), id) >= 1

(* A lookup in the unique index finds the one cached document with the     *)
(* key, also when documents have passed the key on to each other.          *)
UniqueExact ==
    \A id \in Settled, key \in Keys(UniqueFrom) :
       Unique!Get(key) = id <=> cache[id] # NoDoc /\ key \in KeysOf(cache[id], UniqueFrom)

(* The sorted index selects every cached document of a query once; if a    *)
(* document comes before another with a smaller text, the one text begins  *)
(* with the other (only then does the appended id decide the order).       *)
SortedExact ==
    stage = "idle" =>
       LET found == Sorted!Intersect(Ids)
           text(id) == Sorted!Text(Key(cache[id], SortedFrom))
       IN /\ \A id \in Ids : Times(found, id) = IF cache[id] = NoDoc THEN 0 ELSE 1
          /\ \A j, k \in DOMAIN found :
                j < k /\ Sorted!Precedes(text(found[k]), text(found[j])) =>
                   \E n \in 0..Len(text(found[j])) : text(found[k]) = SubSeq(text(found[j]), 1, n)

(* Whatever part of a document's text somebody searches for, Search lists  *)
(* the document, once, and Find ranks it before all that lack a trigram of *)
(* the part (which must not contain a mark), unless GetByIndex has taken   *)
(* it out of the numbering.                                                *)
SuffixFinds ==
    \A id \in Settled :
       LET n == indexByID[id] IN
       cache[id] # NoDoc /\ n # 0 =>
          \A part \in Suffix!Parts(Suffix!Contents(cache[id])) :
             Len(part) >= 3 =>
                /\ Times(Suffix!Search(part), id) = 1
                /\ Lists!ToSet(part) \cap Marks = {} =>
                      Suffix!Hits(part, n) = Len(part) - 2

(* Ids and their numbers: one to one, and only for documents in the cache. *)
NumbersAgree ==
    /\ \A id \in Ids : indexByID[id] # 0 =>
          itemsByIndex[indexByID[id]] = id /\ cache[id] # NoDoc
    /\ \A n \in DOMAIN itemsByIndex : itemsByIndex[n] # Nil => indexByID[itemsByIndex[n]] = n

(* What an application gets that looks up a key and a text, intersects the *)
(* answers with the list of all documents and has the sorted index order   *)
(* the rest: the documents that have both, each once; the empty entries of *)
(* the suffix index are left out on the way.                               *)
QueryExact ==
    stage = "idle" =>
       \A id \in Ids \ LostKey, key \in Keys(InverseFrom), text \in Keys(SuffixFrom) :
          LET searched == Suffix!Search(Suffix!Text(text))
              both == Intersect(Lists!SetToSeq(C!Cached), <<Inverse!Get(key), searched>>)
              found == Sorted!Intersect(Lists!ToSet(both))
          IN Times(found, id) = IF Lists!Contains(searched, id) THEN Due(id, key) ELSE 0

(* A search finds a document only by trigrams that its text has had since  *)
(* it was inserted: those of the text before an update stay in the suffix  *)
(* index, though Update is to remove the old text, those of a document     *)
(* that was deleted and created again are lost with its number.            *)
SearchedBefore ==
    stage = "idle" =>
       \A key \in Keys(SuffixFrom) :
          \A id \in Lists!ToSet(Suffix!Search(Suffix!Text(key))) \ {Nil} :
             \A gram \in Lists!ToSet(Suffix!Grams(Suffix!Text(key))) :
                \E k \in 1..(taken + 1) :
                   /\ \A j \in k..(taken + 1) : history[j][id] # NoDoc
                   /\ gram \in Lists!ToSet(Suffix!Grams(Suffix!Contents(history[k][id])))
=============================================================================
