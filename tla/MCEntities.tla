----------------------------- MODULE MCEntities -----------------------------
(***************************************************************************)
(* Instances of Entities for TLC: three entity types with fields of every  *)
(* kind.                                                                   *)
(***************************************************************************)
EXTENDS Entities, TLC

CONSTANTS a, b, id

Scalar == [kind |-> "scalar"]
ObjectID == [kind |-> "oid"]
Pointer == [kind |-> "ptr", of |-> Scalar]
Slice == [kind |-> "slice", of |-> Scalar]
Map == [kind |-> "map"]
Struct(fields) == [kind |-> "struct", fields |-> fields]

Field(tag, t) == [tag |-> tag, json |-> TRUE, type |-> t]
Unnamed(tag, t) == [tag |-> tag, json |-> FALSE, type |-> t]

Size == Struct([Width |-> Field("width", Scalar), Height |-> Field("height", Pointer)])
Meta == Struct([Note |-> Field("note", Pointer), Rank |-> Field("rank", Scalar)])
Base == Struct([Deleted |-> Field("deleted", Pointer)])

(* With both names for every field.                                        *)
Image ==
    [kind |-> "struct", id |-> <<"Id">>, fields |->
        [Id |-> Field("_id", ObjectID), Base |-> Field("", Base), Name |-> Field("name", Pointer),
         Tags |-> Field("tags", Slice), Attrs |-> Field("attrs", Map),
         Count |-> Field("count", Scalar), Size |-> Field("size", Size),
         Meta |-> Field(",inline", Meta), Draft |-> Field("-", Scalar)]]

(* With bson tags only: the names in events are not those of the fields.   *)
User ==
    [kind |-> "struct", id |-> <<"Id">>, fields |->
        [Id |-> Unnamed("_id", ObjectID), V |-> Unnamed("version", Pointer),
         Name |-> Field("name", Pointer)]]

(* With the id in an embedded struct.                                      *)
Config ==
    [kind |-> "struct", id |-> <<"D", "Id">>, fields |->
        [D |-> Field("", Struct([Id |-> Field("_id", ObjectID), Deleted |-> Field("deleted", Pointer)])),
         Host |-> Field("host", Pointer), Path |-> Field("path", Map)]]

AllTypes == {Image, User, Config}
ImageOnly == {Image}

(* Entities with all fields set, and with no more than the id.             *)
Sample(t) == LET RECURSIVE Filled(_, _)
                 Filled(u, v) ==
                    CASE u.kind = "struct" -> [f \in DOMAIN u.fields |-> Filled(u.fields[f].type, v)]
                      [] u.kind = "oid" -> id
                      [] u.kind = "ptr" -> IF v = Zero THEN Nil ELSE <<v>>
                      [] u.kind = "slice" -> IF v = Zero THEN Nil ELSE <<v, v>>
                      [] u.kind = "map" -> IF v = Zero THEN Nil ELSE Only("k", v)
                      [] OTHER -> v
             IN {Filled(t, a), Filled(t, Zero)}
=============================================================================
