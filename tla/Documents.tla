----------------------------- MODULE Documents -----------------------------
(***************************************************************************)
(* Documents, what a change event says of them, and the keys the indexes   *)
(* compute from them.                                                      *)
(*                                                                         *)
(* A document gives every field a value; Nil is a nil pointer or a missing *)
(* field.  An empty string or a zero in a field that is no pointer is no   *)
(* Nil: the code makes a key of it ("" or "0") as of any other value.  A   *)
(* key is the sequence of the values that the code concatenates: two keys  *)
(* are taken to be equal only if the parts are, <<>> is the nil key.       *)
(***************************************************************************)
EXTENDS Integers, Sequences, FiniteSets

CONSTANTS
    Ids,        \* document ids
    Fields,     \* top-level fields of the entity type
    Values,     \* what a field may hold
    Nil,        \* no value, no id
    NoDoc,      \* the document does not exist
    Plain,      \* fields that are no pointer, slice or map, or that belong to a
                \* struct with a bson tag: every update overwrites them
    Nested,     \* fields of an embedded struct: their removal is not recognised
    Elements    \* Elements[v]: the elements of v if it is a slice, else {v}

ASSUME DocumentsAssumption ==
    /\ Nil \notin Values \cup Ids
    /\ Plain \subseteq Fields /\ Nested \subseteq Fields
    /\ Elements \in [Values -> SUBSET Values]
    /\ NoDoc \notin [Fields -> Values \cup {Nil}]

Docs == [Fields -> Values \cup {Nil}]

Blank == [f \in Fields |-> Nil]

(* Mutation: the removed fields are not cleared.                           *)
MergeKeepingRemoved(doc, set, removed) ==
    [f \in Fields |-> IF f \in Plain \/ set[f] # Nil THEN set[f] ELSE doc[f]]

(* Mutation: what an update does not mention is overwritten, too.          *)
MergeReplacing(doc, set, removed) == set

(* The cached document after an update event.  `set' is the decoded        *)
(* updatedFields: what the event does not mention is Nil in it, and so is  *)
(* what it sets to null.                                                   *)
Merge(doc, set, removed) ==
    [f \in Fields |->
        IF f \in removed \ Nested THEN Nil
        ELSE IF f \in Plain \/ set[f] # Nil THEN set[f]
        ELSE doc[f]]

(* updateStringFieldValuesByName, field by field: nil ones contribute      *)
(* nothing.                                                                *)
Key(doc, from) ==
    LET key[n \in 0..Len(from)] ==         \* of the first n fields
            IF n = 0 THEN <<>>
            ELSE IF doc[from[n]] = Nil THEN key[n - 1]
            ELSE Append(key[n - 1], doc[from[n]])
    IN key[Len(from)]

(* _updateStringFieldValuesByName: on a single field, the elements of a    *)
(* slice are keys of their own.                                            *)
KeysOf(doc, from) ==
    LET key == Key(doc, from) IN
    IF key = <<>> THEN {}
    ELSE IF Len(from) = 1 THEN {<<e>> : e \in Elements[doc[from[1]]]}
    ELSE {key}

Keys(from) == UNION {[1..n -> Values] : n \in 1..Len(from)}

(* What an index lists: the id, or the value of the index's `to' field.    *)
Target(id, doc, to) ==
    IF to = Nil THEN id ELSE IF doc[to] = Nil THEN id ELSE doc[to]
=============================================================================
