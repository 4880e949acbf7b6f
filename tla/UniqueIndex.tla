----------------------------- MODULE UniqueIndex -----------------------------
(***************************************************************************)
(* inverseUniqueIndex: for each key, the id of the document with that key. *)
(* A field that holds a slice contributes a key for each element.          *)
(***************************************************************************)
EXTENDS Documents

CONSTANTS From, To

VARIABLES cache, data

Init == data = [key \in Keys(From) |-> Nil]

TypeOK == data \in [Keys(From) -> Ids \cup Values \cup {Nil}]

Get(key) == data[key]

Add(id, doc) ==
    data' = [key \in Keys(From) |->
                IF key \in KeysOf(doc, From) THEN Target(id, doc, To) ELSE data[key]]

(* Mutation: the keys the document gives up stay.                          *)
UpdateKeepingOld(id, set) ==
    IF cache[id] = NoDoc THEN UNCHANGED data
    ELSE data' = [key \in Keys(From) |->
                     IF key \in KeysOf(set, From) THEN Target(id, cache[id], To) ELSE data[key]]

(* Nothing happens if the document had no key before.                      *)
Update(id, set) ==
    LET new == KeysOf(set, From)
        old == IF cache[id] = NoDoc THEN {} ELSE KeysOf(cache[id], From)
    IN IF new = {} \/ old = {} THEN UNCHANGED data
       ELSE data' = [key \in Keys(From) |->
                        IF key \in new \ old THEN Target(id, cache[id], To)
                        ELSE IF key \in old \ new THEN Nil
                        ELSE data[key]]

(* The key is that of a scalar, also for a slice, and whoever holds it     *)
(* loses it.                                                               *)
Delete(id) ==
    IF cache[id] = NoDoc THEN UNCHANGED data
    ELSE data' = [key \in Keys(From) |->
                     IF key = Key(cache[id], From) THEN Nil ELSE data[key]]
=============================================================================
