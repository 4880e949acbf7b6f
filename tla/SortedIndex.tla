----------------------------- MODULE SortedIndex -----------------------------
(***************************************************************************)
(* sortedIndex and the Sorted it wraps: a B-tree of (text, id) items       *)
(* ordered by the concatenation of text and id, and the list of ids read   *)
(* off it after every change (fill), from which Intersect selects.  The    *)
(* empty strings that fill puts before the ids are left out: Intersect     *)
(* never selects them.                                                     *)
(***************************************************************************)
EXTENDS Documents, Texts

Loops == INSTANCE Intersections

CONSTANTS From, To

VARIABLES
    cache,
    items,          \* the B-tree: pairs of a key and an id
    locked          \* Sorted's lock was taken and never released

Init == items = {} /\ locked = FALSE

TypeOK ==
    /\ items \subseteq Keys(From) \X (Ids \cup Values)
    /\ locked \in BOOLEAN

Spelled(item) == Text(item[1]) \o Spelling[item[2]]

Less(item, than) == Precedes(Spelled(item), Spelled(than))

(* The items from the smallest to the greatest, as Ascend visits them.     *)
Ascending ==
    CHOOSE order \in [1..Cardinality(items) -> items] :
       \A j, k \in DOMAIN order : j < k => Less(order[j], order[k])

(* Intersect: the given ids that are indexed, in the order of the items.   *)
Intersect(in) ==
    LET order == Ascending IN Loops!Only([k \in DOMAIN order |-> order[k][2]], in)

(* An item that is there already: Sorted.Add returns with the lock held.   *)
Add(id, doc) ==
    LET item == <<Key(doc, From), Target(id, doc, To)>> IN
    IF item[1] = <<>> THEN UNCHANGED <<items, locked>>
    ELSE /\ ~ locked
         /\ items' = items \cup {item}
         /\ locked' = (item \in items)

(* Mutation: the new item is inserted, the old one stays.                  *)
UpdateKeepingOld(id, set) ==
    /\ items' = IF Key(set, From) = <<>> \/ cache[id] = NoDoc THEN items
                ELSE items \cup {<<Key(set, From), Target(id, cache[id], To)>>}
    /\ UNCHANGED locked

(* Nothing happens if the document had no key before.                      *)
Update(id, set) ==
    LET new == Key(set, From)
        old == IF cache[id] = NoDoc THEN <<>> ELSE Key(cache[id], From)
    IN IF new = <<>> \/ old = <<>> THEN UNCHANGED <<items, locked>>
       ELSE LET to == Target(id, cache[id], To) IN
            /\ ~ locked
            /\ items' = (items \ {<<old, to>>}) \cup {<<new, to>>}
            /\ UNCHANGED locked

(* Mutation: the item of a deleted document stays.                         *)
DeleteKeeping(id) == UNCHANGED <<items, locked>>

Delete(id) ==
    LET old == IF cache[id] = NoDoc THEN <<>> ELSE Key(cache[id], From)
    IN IF old = <<>> THEN UNCHANGED <<items, locked>>
       ELSE /\ ~ locked
            /\ items' = items \ {<<old, Target(id, cache[id], To)>>}
            /\ UNCHANGED locked
=============================================================================
