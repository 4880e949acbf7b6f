------------------------------ MODULE Entities ------------------------------
(***************************************************************************)
(* What reflection makes of an entity: the document that Create writes,    *)
(* the $set that Update derives from the cached copy, what the decoders    *)
(* read back from events (JSON) and from queries (BSON), and how the cache *)
(* merges it.  A state holds one entity as it is stored and as it is       *)
(* cached; its version is left to module OptimisticUpdate.                 *)
(*                                                                         *)
(* Go types.  A struct is [kind |-> "struct", fields |-> F], where F[name] *)
(* has the type of the field, its bson tag and whether the JSON decoder    *)
(* knows it by that name (`json'); a struct without a tag, or tagged       *)
(* ",inline", is embedded.  Pointers and slices have the type they are     *)
(* `of'; maps hold scalars.  "oid" is an ObjectID, "scalar" anything else  *)
(* that is written and compared as a whole.  Structs nest once.            *)
(*                                                                         *)
(* Go values.  Nil, or <<v>> for a pointer to v; Nil or a sequence; Nil or *)
(* a function; a record; a scalar.  A document is a function, Null is null.*)
(***************************************************************************)
EXTENDS Integers, Sequences, FiniteSets

CONSTANTS
    Types,          \* entity types, with the path of the id (`id'); a behaviour
                    \* is about one of them
    Created(_),     \* the entities of a type that are created
    Scalars,        \* what fields are set to
    Zero, Nil, Null, NoDoc,
    MaxEdits        \* bound on the edits of a behaviour

VARIABLES
    type,
    db,             \* the document
    cached,         \* the entity in the cache, under its id
    source,         \* what has brought it there: "event" or "query"
    wanted,         \* the entity as the application has it: what it has handed to
                    \* Create or Update last, and what it has written to since
    spoilt,         \* paths of fields that were cleared, or changed in the cache
                    \* through a pointer, since then
    edits           \* how many

vars == <<type, db, cached, source, wanted, spoilt, edits>>

Empty == <<>>
Only(key, v) == [k \in {key} |-> v]
Join(docs) ==
    [key \in UNION {DOMAIN d : d \in docs} |-> (CHOOSE d \in docs : key \in DOMAIN d)[key]]

(* No bsonTagKey, or isBsonInline: the fields become those of the parent.  *)
Flat(field) == field.tag \in {"", ",inline"}

-----------------------------------------------------------------------------
(* Processor.                                                              *)

RECURSIVE PrepareCreate(_, _), FieldDoc(_, _), Value(_, _)

PrepareCreate(t, s) ==
    LET written == {f \in DOMAIN t.fields :
                       /\ t.fields[f].tag # "-"
                       /\ t.fields[f].type.kind = "map" => s[f] # Nil}
    IN Join({FieldDoc(t.fields[f], s[f]) : f \in written})

(* prepareCreateForStruct: what a field contributes to the document.       *)
FieldDoc(field, v) ==
    CASE field.type.kind = "ptr" /\ v # Nil -> FieldDoc([field EXCEPT !.type = @.of], v[1])
      [] field.type.kind = "struct" /\ Flat(field) -> PrepareCreate(field.type, v)
      [] OTHER -> Only(field.tag, Value(field.type, v))

(* prepareCreateForSlice, setSlice, setMap.  A nil slice, or a bson.D that *)
(* nothing was appended to, is encoded as null.                            *)
Value(t, v) ==
    CASE v = Nil \/ (t.kind = "map" /\ v = Empty) -> Null
      [] v # Nil /\ t.kind = "ptr" -> Value(t.of, v[1])
      [] v # Nil /\ t.kind = "slice" -> [k \in DOMAIN v |-> Value(t.of, v[k])]
      [] v # Nil /\ t.kind = "struct" -> PrepareCreate(t, v)
      [] OTHER -> v

(* isEquals.                                                               *)
RECURSIVE Same(_, _, _)
Same(t, v, w) ==
    CASE t.kind = "struct" -> \A f \in DOMAIN t.fields : Same(t.fields[f].type, v[f], w[f])
      [] t.kind \in {"ptr", "slice"} ->
            IF v = Nil \/ w = Nil THEN v = w
            ELSE Len(v) = Len(w) /\ \A k \in DOMAIN v : Same(t.of, v[k], w[k])
      [] OTHER -> v = w

(* Mutation: a pointer that has become nil is passed over.                 *)
FieldUpdateUnlessNil(field, new, old) ==
    IF Same(field.type, new, old) \/ new = Nil THEN Empty ELSE FieldDoc(field, new)

(* prepareUpdateForStruct: a field that differs is written as Create would *)
(* write it, a struct with all its fields.                                 *)
FieldUpdate(field, new, old) ==
    IF Same(field.type, new, old) THEN Empty ELSE FieldDoc(field, new)

(* Mutation: everything is written if anything has changed.                *)
PrepareUpdateAll(t, new, old) ==
    IF Same(t, new, old) THEN Empty ELSE PrepareCreate(t, new)

PrepareUpdate(t, new, old) ==
    LET looked == {f \in DOMAIN t.fields :
                      /\ t.fields[f].tag # "-"
                      /\ t.fields[f].type.kind = "map" => new[f] # Nil}
    IN Join({FieldUpdate(t.fields[f], new[f], old[f]) : f \in looked})

-----------------------------------------------------------------------------
(* The decoders: encoding/json for events, the driver's for queries.       *)

RECURSIVE ZeroOf(_)

(* Mutation: whatever a document lacks is nil.                             *)
ZeroOfNil(t) ==
    IF t.kind = "struct" THEN [f \in DOMAIN t.fields |-> ZeroOf(t.fields[f].type)] ELSE Nil

ZeroOf(t) ==
    CASE t.kind = "struct" -> [f \in DOMAIN t.fields |-> ZeroOf(t.fields[f].type)]
      [] t.kind \in {"ptr", "slice", "map"} -> Nil
      [] OTHER -> Zero

(* JSON flattens what is embedded; the driver only what is tagged ",inline".*)
RECURSIVE Decode(_, _, _), Read(_, _, _)

Decode(how, t, doc) ==
    [f \in DOMAIN t.fields |->
        LET field == t.fields[f] IN
        IF field.type.kind = "struct" /\ Flat(field)
        THEN IF how = "json" \/ field.tag = ",inline" THEN Decode(how, field.type, doc)
             ELSE ZeroOf(field.type)
        ELSE IF field.tag \in DOMAIN doc /\ (how = "json" => field.json)
        THEN Read(how, field.type, doc[field.tag])
        ELSE ZeroOf(field.type)]

Read(how, t, v) ==
    CASE v = Null -> ZeroOf(t)
      [] v # Null /\ t.kind = "ptr" -> <<Read(how, t.of, v)>>
      [] v # Null /\ t.kind = "slice" -> [k \in DOMAIN v |-> Read(how, t.of, v[k])]
      [] v # Null /\ t.kind = "struct" -> Decode(how, t, v)
      [] OTHER -> v

-----------------------------------------------------------------------------
(* The cache.                                                              *)

RECURSIVE Upd(_, _, _), Copy(_, _)

(* Mutation: what is zero in the event is kept.                            *)
UpdUnlessZero(t, it, v) ==
    [f \in DOMAIN t.fields |-> IF v[f] \in {Nil, Zero} THEN it[f] ELSE v[f]]

(* Mutation: an embedded struct is replaced as a whole.                    *)
UpdWhole(t, it, v) ==
    [f \in DOMAIN t.fields |->
        IF t.fields[f].type.kind \in {"ptr", "slice", "map"} /\ v[f] = Nil THEN it[f]
        ELSE IF t.fields[f].type.kind = "oid" /\ v[f] = Zero THEN it[f]
        ELSE v[f]]

(* _upd: `it' is the cached entity, `v' the one decoded from the event.    *)
Upd(t, it, v) ==
    [f \in DOMAIN t.fields |->
        LET field == t.fields[f] IN
        CASE field.type.kind \in {"ptr", "slice", "map"} -> IF v[f] = Nil THEN it[f] ELSE v[f]
          [] field.type.kind = "oid" -> IF v[f] = Zero THEN it[f] ELSE v[f]
          [] field.type.kind = "struct" /\ field.tag = "" -> Upd(field.type, it[f], v[f])
          [] OTHER -> v[f]]

(* Get hands out a copy, with the fields tagged "-" at zero.               *)
Copy(t, s) ==
    [f \in DOMAIN t.fields |->
        CASE t.fields[f].tag = "-" -> ZeroOf(t.fields[f].type)
          [] t.fields[f].tag # "-" /\ t.fields[f].type.kind = "struct" -> Copy(t.fields[f].type, s[f])
          [] OTHER -> s[f]]

-----------------------------------------------------------------------------
(* Fields of an entity by their paths.                                     *)

Paths(t) ==
    UNION {IF t.fields[f].type.kind = "struct"
           THEN {<<f, g>> : g \in DOMAIN t.fields[f].type.fields}
           ELSE {<<f>>} : f \in {n \in DOMAIN t.fields : t.fields[n].tag # "-"}}

FieldAt(t, path) ==
    IF Len(path) = 1 THEN t.fields[path[1]] ELSE t.fields[path[1]].type.fields[path[2]]

At(s, path) == IF Len(path) = 1 THEN s[path[1]] ELSE s[path[1]][path[2]]

Put(s, path, v) ==
    IF Len(path) = 1 THEN [s EXCEPT ![path[1]] = v] ELSE [s EXCEPT ![path[1]][path[2]] = v]

(* What the document has for a field; a missing key counts as null.        *)
Stored(t, doc, path) ==
    LET top == t.fields[path[1]]
        part == IF Len(path) = 1 \/ Flat(top) THEN doc
                ELSE IF top.tag \in DOMAIN doc THEN doc[top.tag] ELSE Empty
        key == FieldAt(t, path).tag
    IN IF key \in DOMAIN part THEN part[key] ELSE Null

(* What an application may set a field to.                                 *)
Options(t) ==
    CASE t.kind = "ptr" -> {Nil} \cup {<<v>> : v \in Scalars}
      [] t.kind = "slice" -> {Nil, Empty} \cup {<<v>> : v \in Scalars}
      [] t.kind = "map" -> {Nil, Empty} \cup {Only("k", v) : v \in Scalars}
      [] t.kind = "scalar" -> {Zero} \cup Scalars
      [] OTHER -> {}

(* Pointers to scalars, which Get's copy shares with the cache: the copy   *)
(* of *p is taken by reflection from where p points to, and so is its      *)
(* address.                                                                *)
Shared(t) ==
    {path \in Paths(t) :
        FieldAt(t, path).type.kind = "ptr" /\ FieldAt(t, path).type.of.kind \in {"scalar", "oid"}}

(* In an embedded struct without a tag; in any other struct.               *)
Embedded(t, path) == Len(path) = 2 /\ t.fields[path[1]].tag = ""
Enclosed(t, path) == Len(path) = 2 /\ t.fields[path[1]].tag # ""

-----------------------------------------------------------------------------
Init ==
    /\ type \in Types
    /\ db = NoDoc /\ cached = NoDoc /\ source = "event" /\ wanted = NoDoc
    /\ spoilt = {} /\ edits = 0

(* The cache has an entity under its id: the zero id is replaced by a new  *)
(* one as soon as ID() is called.                                          *)
Listed(entity) == IF At(entity, type.id) = Zero THEN NoDoc ELSE entity

(* Processor.Create and the insert event.                                  *)
Create ==
    /\ db = NoDoc
    /\ \E entity \in Created(type) :
          /\ db' = PrepareCreate(type, entity)
          /\ wanted' = entity
    /\ cached' = Listed(Decode("json", type, db'))
    /\ UNCHANGED <<type, source, spoilt, edits>>

(* The application gets the entity from the cache, changes a field, and    *)
(* hands it to Processor.Update; then comes the update event, with what    *)
(* has changed in the document.  Nothing to set: ErrNothingToUpdate.       *)
Edit ==
    /\ cached # NoDoc
    /\ edits < MaxEdits
    /\ edits' = edits + 1
    /\ \E path \in Paths(type) : \E v \in Options(FieldAt(type, path).type) :
          LET new == Put(Copy(type, cached), path, v)
              set == PrepareUpdate(type, new, Copy(type, cached))
              changed == {key \in DOMAIN set : key \notin DOMAIN db \/ set[key] # db[key]}
              event == [key \in changed |-> set[key]]
          IN /\ new # Copy(type, cached)
             /\ wanted' = new
             /\ spoilt' = IF v \in {Nil, Empty} THEN spoilt \cup {path} ELSE spoilt
             /\ IF set = Empty THEN UNCHANGED <<db, cached>>
                ELSE /\ db' = [key \in DOMAIN db \cup DOMAIN set |->
                                  IF key \in DOMAIN set THEN set[key] ELSE db[key]]
                     /\ cached' = Upd(type, cached, Decode("json", type, event))
    /\ UNCHANGED <<type, source>>

(* The application writes through a pointer of what it got from the cache. *)
WriteThrough ==
    /\ cached # NoDoc
    /\ edits < MaxEdits
    /\ edits' = edits + 1
    /\ \E path \in Shared(type), v \in Scalars :
          /\ At(cached, path) \notin {Nil, <<v>>}
          /\ cached' = Put(cached, path, <<v>>)
          /\ wanted' = Put(wanted, path, <<v>>)
          /\ spoilt' = spoilt \cup {path}
    /\ UNCHANGED <<type, db, source>>

(* Mutation: documents are decoded by way of JSON.                         *)
RestartByJson ==
    /\ db # NoDoc
    /\ source = "event"
    /\ source' = "query"
    /\ cached' = Listed(Decode("json", type, db))
    /\ wanted' = cached'
    /\ spoilt' = {path \in Paths(type) : Embedded(type, path)}
    /\ UNCHANGED <<type, db, edits>>

(* A new process loads the document (decodeCursorDoc), and the application *)
(* starts from what it finds; it does not find what is embedded.           *)
Restart ==
    /\ db # NoDoc
    /\ source = "event"
    /\ source' = "query"
    /\ cached' = Listed(Decode("bson", type, db))
    /\ wanted' = cached'
    /\ spoilt' = {path \in Paths(type) : Embedded(type, path)}
    /\ UNCHANGED <<type, db, edits>>

Next == Create \/ Edit \/ WriteThrough \/ Restart

Spec == Init /\ [][Next]_vars
-----------------------------------------------------------------------------
RECURSIVE HasType(_, _)
HasType(t, v) ==
    CASE t.kind = "struct" -> /\ DOMAIN v = DOMAIN t.fields
                              /\ \A f \in DOMAIN v : HasType(t.fields[f].type, v[f])
      [] t.kind \in {"ptr", "slice"} -> v = Nil \/ \A k \in DOMAIN v : HasType(t.of, v[k])
      [] t.kind = "map" -> v = Nil \/ \A k \in DOMAIN v : v[k] \in Scalars
      [] t.kind = "oid" -> v \notin {Nil, Null, NoDoc}
      [] OTHER -> v \in Scalars \cup {Zero}

TypeOK ==
    /\ type \in Types
    /\ \A entity \in {cached, wanted} \ {NoDoc} : HasType(type, entity)
    /\ source \in {"event", "query"}
    /\ spoilt \subseteq Paths(type)
    /\ edits \in 0..MaxEdits
    /\ db = NoDoc => cached = NoDoc

(* An entity is in the cache under its id after it was created if events   *)
(* carry the id under the field's JSON name, and after a restart if the id *)
(* is not embedded; else the cache has it under a new id.                  *)
FoundById ==
    db # NoDoc =>
       (cached # NoDoc <=> IF source = "event" THEN FieldAt(type, type.id).json
                           ELSE ~ Embedded(type, type.id))

(* What the application has handed to Create or Update is stored, unless   *)
(* the cache shows it (wrongly) as there already; a nil map stands for any.*)
(* Only what was written through a pointer into a struct with a tag can    *)
(* disappear, with the next event.                                         *)
HandedInOrShown ==
    cached # NoDoc =>
       \A path \in Paths(type) :
          LET t == FieldAt(type, path).type IN
          \/ Stored(type, db, path) = Value(t, At(wanted, path))
          \/ At(cached, path) = At(wanted, path)
          \/ t.kind = "map" /\ At(wanted, path) = Nil
          \/ path \in spoilt /\ Enclosed(type, path)

(* Collection, cache and application agree on every pointer, slice and map *)
(* outside structs with a tag, however many partial updates it has seen,   *)
(* until it is cleared or written to in the cache.                         *)
ViewsAgree ==
    cached # NoDoc =>
       \A path \in Paths(type) \ spoilt :
          LET field == FieldAt(type, path) IN
          field.type.kind \in {"ptr", "slice", "map"} /\ field.json /\ ~ Enclosed(type, path) =>
             /\ At(cached, path) = At(wanted, path)
             /\ Stored(type, db, path) = Value(field.type, At(wanted, path))

(* Of any other field the cache shows what was written last, or zero.      *)
ShownOrZero ==
    cached # NoDoc =>
       \A path \in Paths(type) \ spoilt :
          LET field == FieldAt(type, path) IN
          field.json =>
             At(cached, path) \in {At(wanted, path), ZeroOf(field.type)}

(* The fields an application has left as it got them.                      *)
Kept == {path \in Paths(type) : At(wanted', path) = At(Copy(type, cached), path)}

(* An edit changes in the document only the field that was edited, or      *)
(* fields of the same struct with a tag, which is written as a whole.      *)
EditsAreLocal ==
    [][cached # NoDoc /\ wanted' # wanted /\ source' = source =>
          \A path \in Kept :
             \/ Stored(type, db', path) = Stored(type, db, path)
             \/ /\ Enclosed(type, path)
                /\ \E other \in Paths(type) \ Kept : other[1] = path[1]]_vars

(* Update applies only the changed fields.                                 *)
OnlyChangedFields ==
    [][cached # NoDoc /\ wanted' # wanted /\ source' = source =>
          \A path \in Kept : Stored(type, db', path) = Stored(type, db, path)]_vars
=============================================================================
