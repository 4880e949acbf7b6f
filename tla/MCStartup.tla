----------------------------- MODULE MCStartup -----------------------------
(***************************************************************************)
(* Instances of Startup for TLC: the two documents of MCEntityStore's kind,*)
(* with an indexed parent (inverse), email (unique) and title (sorted,     *)
(* suffix).                                                                *)
(***************************************************************************)
EXTENDS Startup, TLC

CONSTANTS a, b, d1, d2

ThreeFields == {"parent", "email", "title"}
ByParent == <<"parent">>
ByEmail == <<"email">>
ByTitle == <<"title">>

NoSlices == [v \in Values |-> {v}]

(* See MCEntityStore: one text begins with the other.                      *)
Letters == b :> <<1, 3, 4, 2>> @@ a :> <<1, 3, 4, 2, 3>> @@ d1 :> <<4>> @@ d2 :> <<0>>

LowerCase == [c \in 0..5 |-> IF c = 1 THEN 2 ELSE c]

Doc(p, e, t) == [parent |-> p, email |-> e, title |-> t]
Set(doc) == [set |-> doc, removed |-> {}, nulled |-> {}]

Created == {Doc(Nil, a, a), Doc(a, b, a)}

Changes ==
    {[set |-> Doc(Nil, b, Nil), removed |-> {"parent"}, nulled |-> {}],
     Set(Doc(b, Nil, b)), Set(Doc(a, a, a))}

AnyOrder == <<"suffix", "inverse", "unique", "sorted">>

(* The filter leaves out the documents without a parent.                   *)
WithParent == {doc \in Docs : doc["parent"] # Nil}
=============================================================================
