---------------------------- MODULE MCEntityStore ----------------------------
(***************************************************************************)
(* Instances of EntityStore for TLC: two documents, an entity type with an *)
(* indexed parent (inverse), email (unique) and title (sorted, suffix),    *)
(* and a note that is not indexed.                                         *)
(***************************************************************************)
EXTENDS EntityStore, TLC

CONSTANTS a, b, d1, d2

FourFields == {"parent", "email", "title", "note"}
ByParent == <<"parent">>
ByEmail == <<"email">>
ByTitle == <<"title">>

NoSlices == [v \in Values |-> {v}]

(* The codes are those of '0', 'A', 'a', 'b', 'c' and '-', in the order of *)
(* strings.  One text, "Abca", is the beginning of the other, "Abcab"; an  *)
(* id begins with 'c' and the other with '0', so with the ids appended     *)
(* they compare either way.                                                *)
Letters == b :> <<1, 3, 4, 2>> @@ a :> <<1, 3, 4, 2, 3>> @@ d1 :> <<4>> @@ d2 :> <<0>>

LowerCase == [c \in 0..5 |-> IF c = 1 THEN 2 ELSE c]

Doc(p, e, t, n) == [parent |-> p, email |-> e, title |-> t, note |-> n]
Set(doc) == [set |-> doc, removed |-> {}, nulled |-> {}]

(* A parent is optional; email and title are not.                          *)
Documents4 ==
    {Doc(Nil, e, b, a) : e \in {a, b}} \cup {Doc(a, e, a, a) : e \in {a, b}}

(* Events set one field or two, or set some and remove the note, or remove *)
(* the parent, by which the inverse index lists the document.              *)
PartialUpdates ==
    {[set |-> Blank, removed |-> {"parent"}, nulled |-> {}],
     Set(Doc(b, Nil, b, Nil)), Set(Doc(Nil, a, Nil, Nil)), Set(Doc(Nil, b, Nil, Nil)),
     [set |-> Doc(a, Nil, a, Nil), removed |-> {"note"}, nulled |-> {}]}

(* Processor.Update writes a pointer that has become nil as a null.        *)
ParentCleared == {[set |-> Blank, removed |-> {}, nulled |-> {"parent"}]}
=============================================================================
