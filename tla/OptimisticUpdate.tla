-------------------------- MODULE OptimisticUpdate --------------------------
(***************************************************************************)
(* Processor.Create, Update and Delete, and Updater.UpdateOne, used by     *)
(* several clients on the same documents: a client reads a document, edits *)
(* its copy and calls Update, which writes the difference between the copy *)
(* and the document that is cached by then, provided that the database     *)
(* still holds the version the client read.  The cache lags behind.        *)
(*                                                                         *)
(* Every write stores a clock reading as the version; readings are taken   *)
(* to be distinct, and version k is the one the k-th write stored.  All    *)
(* fields are pointers, slices or maps, the kinds of field that the cache  *)
(* keeps when an update does not mention them.                             *)
(***************************************************************************)
EXTENDS Documents

CONSTANTS
    Clients,
    Contents,       \* what clients create, and what they edit a copy into
    Overwrites,     \* updates that ask for no version: fields given a value
    MaxWrites       \* bound on the writes of a behaviour

ASSUME OptimisticUpdateAssumption ==
    /\ Contents \subseteq Docs /\ Overwrites \subseteq Docs
    /\ MaxWrites \in Nat
    /\ Plain = {}
    /\ NoDoc \notin [version : Nat, content : Docs]

VARIABLES
    history,        \* states of the collection, one more per committed write
    log,            \* change events; the k-th turned history[k] into history[k+1]
    applied,        \* how many of them have reached the cache
    cache,
    pc,             \* where each client is with its call of Update
    draft,          \* the copy it has edited
    set,            \* the fields UpdateOne is to set
    reply,          \* what Update returned
    origin,         \* ghost: where the copy was read, and what it was before the edit
    own             \* ghost: the position in log of the call's write, or 0

mongoVars  == <<history, log>>
cacheVars  == <<applied, cache>>
clientVars == <<pc, draft, set, reply, origin, own>>
vars == <<mongoVars, cacheVars, clientVars>>

db == history[Len(history)]

Stored == [version : Nat, content : Docs]

Init ==
    /\ history = <<[id \in Ids |-> NoDoc]>>
    /\ log = <<>>
    /\ applied = 0
    /\ cache = [id \in Ids |-> NoDoc]
    /\ pc = [c \in Clients |-> "idle"]
    /\ \E id \in Ids :
          draft = [c \in Clients |-> [id |-> id, version |-> 0, content |-> Blank]]
    /\ set = [c \in Clients |-> Blank]
    /\ reply = [c \in Clients |-> "none"]
    /\ origin = [c \in Clients |-> [source |-> "none", content |-> Blank]]
    /\ own = [c \in Clients |-> 0]

-----------------------------------------------------------------------------
(* MongoDB.                                                                *)

Commit(op, id, content, fields) ==
    /\ Len(log) < MaxWrites
    /\ history' = Append(history,
          [db EXCEPT ![id] = IF op = "delete" THEN NoDoc
                             ELSE [version |-> Len(log) + 1, content |-> content]])
    /\ log' = Append(log, [op |-> op, id |-> id, fields |-> fields])

(* $set.                                                                   *)
Assign(content, fields) ==
    [f \in Fields |-> IF fields[f] = Nil THEN content[f] ELSE fields[f]]

Create(id, content) ==
    /\ db[id] = NoDoc
    /\ Commit("insert", id, content, content)
    /\ UNCHANGED <<cacheVars, clientVars>>

Delete(id) ==
    /\ db[id] # NoDoc
    /\ Commit("delete", id, Blank, Blank)
    /\ UNCHANGED <<cacheVars, clientVars>>

(* UpdateOne with a nil version: whatever the document holds.              *)
Overwrite(id, fields) ==
    /\ db[id] # NoDoc
    /\ Commit("update", id, Assign(db[id].content, fields), fields)
    /\ UNCHANGED <<cacheVars, clientVars>>

-----------------------------------------------------------------------------
(* A client.                                                               *)

(* It edits the document it has read, or the entity that Update has        *)
(* returned, whose version is still the one that was read.  A value is not *)
(* edited into Nil.                                                        *)
Edit(c, id, version, source, before) ==
    /\ pc[c] = "idle"
    /\ \E content \in Contents :
          /\ \A f \in Fields : before[f] # Nil => content[f] # Nil
          /\ draft' = [draft EXCEPT ![c] = [id |-> id, version |-> version, content |-> content]]
    /\ origin' = [origin EXCEPT ![c] = [source |-> source, content |-> before]]
    /\ own' = [own EXCEPT ![c] = 0]
    /\ reply' = [reply EXCEPT ![c] = "none"]
    /\ pc' = [pc EXCEPT ![c] = "prepare"]
    /\ UNCHANGED <<mongoVars, cacheVars, set>>

ReadCache(c, id) ==
    /\ cache[id] # NoDoc
    /\ Edit(c, id, cache[id].version, "cache", cache[id].content)

ReadMongo(c, id) ==
    /\ db[id] # NoDoc
    /\ Edit(c, id, db[id].version, "mongo", db[id].content)

EditAgain(c) ==
    /\ reply[c] = "ok"
    /\ Edit(c, draft[c].id, draft[c].version, "returned", draft[c].content)

Return(c, outcome) ==
    /\ pc' = [pc EXCEPT ![c] = "idle"]
    /\ reply' = [reply EXCEPT ![c] = outcome]
    /\ set' = [set EXCEPT ![c] = Blank]

(* Mutation: the fields that do not differ are set.                        *)
ChangedInverted(doc, cached) ==
    [f \in Fields |-> IF doc[f] = cached[f] THEN doc[f] ELSE Nil]

(* prepareUpdateForStruct: the fields of the copy that differ from the     *)
(* cached document.                                                        *)
Changed(doc, cached) ==
    [f \in Fields |-> IF doc[f] = cached[f] THEN Nil ELSE doc[f]]

(* PrepareUpdate.  If the document is cached with another version, the     *)
(* version is among the fields that differ.                                *)
Prepare(c) ==
    LET cached == cache[draft[c].id] IN
    /\ pc[c] = "prepare"
    /\ \/ cached = NoDoc /\ Return(c, "notFound")
       \/ /\ cached = [version |-> draft[c].version, content |-> draft[c].content]
          /\ Return(c, "nothing")
       \/ /\ cached # NoDoc
          /\ cached # [version |-> draft[c].version, content |-> draft[c].content]
          /\ set' = [set EXCEPT ![c] = Changed(draft[c].content, cached.content)]
          /\ pc' = [pc EXCEPT ![c] = "write"]
          /\ UNCHANGED reply
    /\ UNCHANGED <<mongoVars, cacheVars, draft, origin, own>>

(* Mutation: the version is not part of the filter.                        *)
MatchesAny(c) == db[draft[c].id] # NoDoc

(* UpdateOne's filter.                                                     *)
Matches(c) ==
    /\ db[draft[c].id] # NoDoc
    /\ db[draft[c].id].version = draft[c].version

UpdateOne(c) ==
    /\ pc[c] = "write"
    /\ Matches(c)
    /\ Commit("update", draft[c].id,
              Assign(db[draft[c].id].content, set[c]), set[c])
    /\ own' = [own EXCEPT ![c] = Len(log) + 1]
    /\ Return(c, "ok")
    /\ UNCHANGED <<cacheVars, draft, origin>>

(* No document matches: Update returns no error.                           *)
UpdateNone(c) ==
    /\ pc[c] = "write"
    /\ ~ Matches(c)
    /\ Return(c, "ok")
    /\ UNCHANGED <<mongoVars, cacheVars, draft, origin, own>>

-----------------------------------------------------------------------------
(* Mutation: the position moves by two.                                    *)
ApplyTwice ==
    /\ applied < Len(log)
    /\ applied' = applied + 2
    /\ UNCHANGED <<mongoVars, cache, clientVars>>

(* Mutation: the changed fields of an update replace the whole document.   *)
ApplyReplacing ==
    /\ applied < Len(log)
    /\ applied' = applied + 1
    /\ LET event == log[applied + 1] IN
       cache' = [cache EXCEPT ![event.id] =
                   IF event.op = "delete" THEN NoDoc
                   ELSE [version |-> applied + 1, content |-> event.fields]]
    /\ UNCHANGED <<mongoVars, clientVars>>

(* The next change event reaches the cache; an update brings the version.  *)
Apply ==
    /\ applied < Len(log)
    /\ applied' = applied + 1
    /\ LET event == log[applied + 1] IN
       cache' = [cache EXCEPT ![event.id] =
                   CASE event.op = "insert" ->
                           [version |-> applied + 1, content |-> event.fields]
                     [] event.op = "delete" -> NoDoc
                     [] event.op = "update" ->
                           IF @ = NoDoc THEN NoDoc
                           ELSE [version |-> applied + 1,
                                 content |-> Merge(@.content, event.fields, {})]]
    /\ UNCHANGED <<mongoVars, clientVars>>

-----------------------------------------------------------------------------
Next ==
    \/ \E id \in Ids, content \in Contents : Create(id, content)
    \/ \E id \in Ids : Delete(id)
    \/ \E id \in Ids, fields \in Overwrites : Overwrite(id, fields)
    \/ \E c \in Clients : \/ \E id \in Ids : ReadCache(c, id) \/ ReadMongo(c, id)
                          \/ EditAgain(c)
                          \/ Prepare(c)
                          \/ UpdateOne(c)
                          \/ UpdateNone(c)
    \/ Apply

Spec == Init /\ [][Next]_vars
-----------------------------------------------------------------------------
TypeOK ==
    /\ history \in Seq([Ids -> Stored \cup {NoDoc}])
    /\ log \in Seq([op : {"insert", "update", "delete"}, id : Ids, fields : Docs])
    /\ applied \in 0..Len(log)
    /\ cache \in [Ids -> Stored \cup {NoDoc}]
    /\ pc \in [Clients -> {"idle", "prepare", "write"}]
    /\ draft \in [Clients -> [id : Ids, version : Nat, content : Docs]]
    /\ set \in [Clients -> Docs]
    /\ reply \in [Clients -> {"none", "ok", "nothing", "notFound"}]
    /\ origin \in [Clients -> [source : {"none", "cache", "mongo", "returned"}, content : Docs]]
    /\ own \in [Clients -> 0..Len(log)]

Wrote(c, source) == own[c] # 0 /\ origin[c].source = source

(* No lost update: what an update replaces is the document the client has  *)
(* read; no write of another came in between.  So it is wherever the       *)
(* client read the document, and whatever the cache held at the time.      *)
NoLostUpdate ==
    \A c \in Clients, source \in {"cache", "mongo"} :
       Wrote(c, source) => history[own[c]][draft[c].id].content = origin[c].content

(* The difference that Update writes is taken from the cache and applied   *)
(* to the database.  If the client has read the document from the cache,   *)
(* the result is the client's copy.                                        *)
WrittenAsEdited ==
    \A c \in Clients :
       Wrote(c, "cache") => history[own[c] + 1][draft[c].id].content = draft[c].content

(* The cache is a projection of the collection (module Projection).        *)
Projected == INSTANCE Projection WITH
                Docs <- Stored, position <- applied + 1, view <- cache

CacheIsProjection == Projected!Safety
=============================================================================
