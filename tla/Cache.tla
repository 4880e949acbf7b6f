-------------------------------- MODULE Cache --------------------------------
(***************************************************************************)
(* The cache of one collection: documents by id, and the numbering of the  *)
(* ids (Idx) on which the suffix index relies.  Each action is one method, *)
(* which runs under the cache's lock; GetByIndex holds the read lock only, *)
(* and is taken to run alone all the same.                                 *)
(***************************************************************************)
EXTENDS Documents

VARIABLES
    cache,          \* id -> document
    itemsByIndex,   \* number -> id; its length is maxIdx
    indexByID       \* id -> number, 0 if it has none

idxVars == <<itemsByIndex, indexByID>>

Init ==
    /\ cache = [id \in Ids |-> NoDoc]
    /\ itemsByIndex = <<>>
    /\ indexByID = [id \in Ids |-> 0]

TypeOK ==
    /\ cache \in [Ids -> Docs \cup {NoDoc}]
    /\ itemsByIndex \in Seq(Ids \cup {Nil})
    /\ indexByID \in [Ids -> 0..Len(itemsByIndex)]

Cached == {id \in Ids : cache[id] # NoDoc}

(* Mutation: maxIdx is counted up twice.                                   *)
AddCountingTwice(id, doc) ==
    /\ cache' = [cache EXCEPT ![id] = doc]
    /\ itemsByIndex' = Append(itemsByIndex, id)
    /\ indexByID' = [indexByID EXCEPT ![id] = Len(itemsByIndex) + 2]

(* A number left over from an earlier Add of the same id is not taken back.*)
Add(id, doc) ==
    /\ cache' = [cache EXCEPT ![id] = doc]
    /\ itemsByIndex' = Append(itemsByIndex, id)
    /\ indexByID' = [indexByID EXCEPT ![id] = Len(itemsByIndex) + 1]

Update(id, set, removed) ==
    /\ cache' = IF cache[id] = NoDoc THEN cache
                ELSE [cache EXCEPT ![id] = Merge(@, set, removed)]
    /\ UNCHANGED idxVars

(* deleteByID, and deleteByIdx: numbers and ids are dropped in pairs.      *)
Forget(ids, numbers) ==
    /\ itemsByIndex' = [n \in DOMAIN itemsByIndex |->
                           IF n \in numbers THEN Nil ELSE itemsByIndex[n]]
    /\ indexByID' = [id \in Ids |-> IF id \in ids THEN 0 ELSE indexByID[id]]

(* Mutation: the numbering of the deleted id is kept.                      *)
DeleteKeepingNumber(id) ==
    /\ cache' = [cache EXCEPT ![id] = NoDoc]
    /\ itemsByIndex' = itemsByIndex
    /\ indexByID' = [indexByID EXCEPT ![id] = 0]

Delete(id) ==
    /\ cache' = [cache EXCEPT ![id] = NoDoc]
    /\ Forget({id}, {indexByID[id]})

(* The document a number stands for; it keeps its place in the cache, and  *)
(* loses its number.                                                       *)
GetByIndex(n) ==
    LET id == itemsByIndex[n] IN
    /\ id \in Cached
    /\ Forget({id}, {n, indexByID[id]})
    /\ UNCHANGED cache
=============================================================================
