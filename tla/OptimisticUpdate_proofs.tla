----------------------- MODULE OptimisticUpdate_proofs -----------------------
(***************************************************************************)
(* Proofs about OptimisticUpdate, for any clients, documents, contents,    *)
(* overwrites and bound: no update is lost, and an update that is based on *)
(* the cache writes what was edited.                                       *)
(*                                                                         *)
(* The argument is about versions.  A version is stored by one write only, *)
(* and once a document has moved on, it never has the version again: if    *)
(* the filter of UpdateOne matches, nothing has happened to the document   *)
(* since the client read it, in the database; nor in the cache since it    *)
(* was read there, because the cache runs through the same history.        *)
(***************************************************************************)
EXTENDS OptimisticUpdate, TLAPS

(* What the k-th event makes of a document.                                *)
After(doc, k, event) ==
    CASE event.op = "insert" -> [version |-> k, content |-> event.fields]
      [] event.op = "delete" -> NoDoc
      [] event.op = "update" -> [version |-> k, content |-> Assign(doc.content, event.fields)]

(* There is one event for each step of the history, and it tells what the  *)
(* step did.                                                               *)
EventsOK ==
    /\ Len(history) = Len(log) + 1
    /\ \A k \in 1..Len(log) :
          /\ history[k + 1] = [history[k] EXCEPT ![log[k].id] =
                                  After(history[k][log[k].id], k, log[k])]
          /\ log[k].op = "update" => history[k][log[k].id] # NoDoc

(* A document has been the same since its version was stored.              *)
VersionsOK ==
    \A k \in 1..Len(history), id \in Ids :
       history[k][id] # NoDoc =>
          /\ history[k][id].version \in 1..(k - 1)
          /\ \A j \in (history[k][id].version + 1)..k : history[j][id] = history[k][id]

CacheOK == cache = history[applied + 1]

(* What a client that is updating knows: the version it asks for is the    *)
(* one of the content it has read; if it has read that in the cache, the   *)
(* fields it sets are the difference to a document that was cached later.  *)
Knows(c) ==
    LET v == draft[c].version
        i == draft[c].id
    IN /\ pc[c] # "idle" /\ origin[c].source \in {"cache", "mongo"} =>
             /\ v \in 1..Len(log)
             /\ history[v + 1][i] = [version |-> v, content |-> origin[c].content]
       /\ pc[c] # "idle" /\ origin[c].source = "cache" =>
             /\ v <= applied
             /\ \A f \in Fields : origin[c].content[f] # Nil => draft[c].content[f] # Nil
       /\ pc[c] = "write" /\ origin[c].source = "cache" =>
             \E p \in (v + 1)..(applied + 1) :
                /\ history[p][i] # NoDoc
                /\ set[c] = Changed(draft[c].content, history[p][i].content)

(* NoLostUpdate and WrittenAsEdited, for one client.                       *)
UpdateOK(c) ==
    /\ own[c] # 0 /\ origin[c].source \in {"cache", "mongo"} =>
          history[own[c]][draft[c].id].content = origin[c].content
    /\ own[c] # 0 /\ origin[c].source = "cache" =>
          history[own[c] + 1][draft[c].id].content = draft[c].content

Inv == TypeOK /\ EventsOK /\ VersionsOK /\ CacheOK /\ \A c \in Clients : Knows(c) /\ UpdateOK(c)

-----------------------------------------------------------------------------
(* What an Append leaves and adds.                                         *)
LEMMA AppendFacts ==
    ASSUME NEW S, NEW s \in Seq(S), NEW e \in S
    PROVE  /\ Append(s, e) \in Seq(S)
           /\ Len(Append(s, e)) = Len(s) + 1
           /\ \A k \in 1..Len(s) : Append(s, e)[k] = s[k]
           /\ Append(s, e)[Len(s) + 1] = e
  OBVIOUS

LEMMA ElementFacts ==
    ASSUME NEW S, NEW s \in Seq(S), NEW k \in 1..Len(s)
    PROVE  s[k] \in S
  OBVIOUS

Ops == {"insert", "update", "delete"}
Events == [op : Ops, id : Ids, fields : Docs]
States == [Ids -> Stored \cup {NoDoc}]

(* The states of the collection and of the cache, and their documents.     *)
LEMMA StateFacts ==
    ASSUME TypeOK, EventsOK
    PROVE  /\ history \in Seq(States) /\ log \in Seq(Events)
           /\ Len(log) \in Nat /\ Len(history) = Len(log) + 1 /\ applied \in 0..Len(log)
           /\ \A k \in 1..Len(history) : history[k] \in States
           /\ \A k \in 1..Len(log) : log[k] \in Events
           /\ db = history[Len(log) + 1] /\ db \in States
  <1>1. /\ history \in Seq(States) /\ log \in Seq(Events)
        /\ Len(log) \in Nat /\ Len(history) = Len(log) + 1 /\ applied \in 0..Len(log)
    BY DEF TypeOK, EventsOK, States, Events, Ops
  <1>2. \A k \in 1..Len(history) : history[k] \in States
    BY <1>1, ElementFacts
  <1>3. \A k \in 1..Len(log) : log[k] \in Events
    BY <1>1, ElementFacts
  <1>4. db = history[Len(log) + 1] /\ db \in States
    BY <1>1, <1>2 DEF db
  <1> QED BY <1>1, <1>2, <1>3, <1>4

LEMMA StoredFacts ==
    ASSUME NEW d \in Stored
    PROVE  /\ d = [version |-> d.version, content |-> d.content]
           /\ d.version \in Nat /\ d.content \in Docs
  BY DEF Stored

LEMMA AssignType ==
    ASSUME NEW content \in Docs, NEW fields \in Docs
    PROVE  Assign(content, fields) \in Docs
  BY DEF Assign, Docs

(* What a commit does to the log and the history.                          *)
Committed(op, id, content, fields) ==
    /\ log' \in Seq(Events) /\ history' \in Seq(States)
    /\ Len(log') = Len(log) + 1 /\ Len(history') = Len(log) + 2
    /\ \A k \in 1..Len(log) : log'[k] = log[k]
    /\ log'[Len(log) + 1] = [op |-> op, id |-> id, fields |-> fields]
    /\ \A k \in 1..(Len(log) + 1) : history'[k] = history[k]
    /\ history'[Len(log) + 2] =
          [db EXCEPT ![id] = IF op = "delete" THEN NoDoc
                             ELSE [version |-> Len(log) + 1, content |-> content]]

LEMMA CommitFacts ==
    ASSUME OptimisticUpdateAssumption, TypeOK, EventsOK, NEW op \in Ops, NEW id \in Ids,
           NEW content \in Docs, NEW fields \in Docs, Commit(op, id, content, fields)
    PROVE  Committed(op, id, content, fields)
  <1> DEFINE entry == [op |-> op, id |-> id, fields |-> fields]
             doc == IF op = "delete" THEN NoDoc
                    ELSE [version |-> Len(log) + 1, content |-> content]
             state == [db EXCEPT ![id] = doc]
  <1>1. /\ history \in Seq(States) /\ log \in Seq(Events)
        /\ Len(log) \in Nat /\ Len(history) = Len(log) + 1 /\ db \in States
    BY StateFacts
  <1>2. entry \in Events
    BY DEF Events
  <1>3. doc \in Stored \cup {NoDoc}
    BY <1>1 DEF Stored
  <1>4. log' = Append(log, entry) /\ history' = Append(history, state)
    BY DEF Commit
  <1> HIDE DEF entry, doc
  <1>5. state \in States
    BY <1>1, <1>3 DEF States
  <1> HIDE DEF state
  <1>6. /\ log' \in Seq(Events) /\ Len(log') = Len(log) + 1
        /\ \A k \in 1..Len(log) : log'[k] = log[k]
        /\ log'[Len(log) + 1] = entry
    BY <1>1, <1>2, <1>4, AppendFacts
  <1>7. /\ history' \in Seq(States) /\ Len(history') = Len(history) + 1
        /\ \A k \in 1..Len(history) : history'[k] = history[k]
        /\ history'[Len(history) + 1] = state
    BY <1>1, <1>5, <1>4, AppendFacts
  <1>8. Len(history) = Len(log) + 1 /\ Len(history) + 1 = Len(log) + 2
    BY <1>1
  <1> QED BY <1>6, <1>7, <1>8 DEF entry, state, doc, Committed

(* What an update leaves in the document.                                  *)
LEMMA UpdateContent ==
    ASSUME OptimisticUpdateAssumption, TypeOK, EventsOK, NEW id \in Ids, NEW content \in Docs,
           NEW fields \in Docs, Commit("update", id, content, fields)
    PROVE  history'[Len(log) + 1] = db /\ history'[Len(log) + 2][id].content = content
  <1>1. /\ Len(log) \in Nat /\ Len(history) = Len(log) + 1
        /\ db = history[Len(log) + 1] /\ db \in [Ids -> Stored \cup {NoDoc}]
    BY StateFacts DEF States
  <1>2. Committed("update", id, content, fields)
    BY CommitFacts DEF Ops
  <1>3. /\ history'[Len(log) + 1] = history[Len(log) + 1]
        /\ history'[Len(log) + 2] =
              [db EXCEPT ![id] = [version |-> Len(log) + 1, content |-> content]]
    BY <1>1, <1>2 DEF Committed
  <1> QED BY <1>1, <1>3

(* A commit whose event tells what it does keeps the invariant's account   *)
(* of the database.                                                        *)
LEMMA CommitOK ==
    ASSUME OptimisticUpdateAssumption, TypeOK, EventsOK, VersionsOK, NEW op \in Ops,
           NEW id \in Ids, NEW content \in Docs, NEW fields \in Docs,
           Commit(op, id, content, fields),
           op = "insert" => content = fields,
           op = "update" => db[id] # NoDoc /\ content = Assign(db[id].content, fields)
    PROVE  EventsOK' /\ VersionsOK'
  <1> DEFINE n == Len(log)
             doc == IF op = "delete" THEN NoDoc ELSE [version |-> n + 1, content |-> content]
  <1>1. /\ n \in Nat /\ Len(history) = n + 1 /\ db = history[n + 1] /\ db \in States
        /\ \A k \in 1..(n + 1) : history[k] \in States
        /\ \A k \in 1..n : log[k] \in Events
    BY StateFacts
  <1>2. /\ Len(log') = n + 1 /\ Len(history') = n + 2
        /\ \A k \in 1..n : log'[k] = log[k]
        /\ log'[n + 1] = [op |-> op, id |-> id, fields |-> fields]
        /\ \A k \in 1..(n + 1) : history'[k] = history[k]
        /\ history'[n + 2] = [db EXCEPT ![id] = doc]
    <2>1. Committed(op, id, content, fields)
      BY CommitFacts
    <2> QED BY <1>1, <2>1 DEF Committed
  <1> HIDE DEF n
  <1>3. doc = After(db[id], n + 1, log'[n + 1])
    BY <1>2 DEF After, Ops
  <1>4. doc # NoDoc => doc.version = n + 1
    OBVIOUS
  <1> HIDE DEF doc
  <1>5. EventsOK'
    <2>1. ASSUME NEW k \in 1..(n + 1)
          PROVE  /\ history'[k + 1] = [history'[k] EXCEPT ![log'[k].id] =
                                          After(history'[k][log'[k].id], k, log'[k])]
                 /\ log'[k].op = "update" => history'[k][log'[k].id] # NoDoc
      <3>1. CASE k \in 1..n
        <4>1. k \in 1..(n + 1) /\ k + 1 \in 1..(n + 1)
          BY <1>1, <3>1
        <4>2. history'[k] = history[k] /\ history'[k + 1] = history[k + 1] /\ log'[k] = log[k]
          BY <1>2, <3>1, <4>1
        <4>3. /\ history[k + 1] = [history[k] EXCEPT ![log[k].id] =
                                      After(history[k][log[k].id], k, log[k])]
              /\ log[k].op = "update" => history[k][log[k].id] # NoDoc
          BY <3>1 DEF EventsOK, n
        <4>4. After(history'[k][log'[k].id], k, log'[k]) = After(history[k][log[k].id], k, log[k])
          BY <4>2
        <4> QED BY <4>2, <4>3, <4>4
      <3>2. CASE k = n + 1
        <4>1. log'[k].id = id /\ log'[k].op = op /\ history'[k] = db /\ k + 1 = n + 2
          BY <1>1, <1>2, <3>2
        <4> QED BY <1>2, <1>3, <3>2, <4>1
      <3> QED BY <1>1, <3>1, <3>2
    <2>2. Len(history') = Len(log') + 1
      BY <1>1, <1>2
    <2>3. \A k \in 1..Len(log') :
             /\ history'[k + 1] = [history'[k] EXCEPT ![log'[k].id] =
                                     After(history'[k][log'[k].id], k, log'[k])]
             /\ log'[k].op = "update" => history'[k][log'[k].id] # NoDoc
      BY <1>2, <2>1
    <2> QED BY <2>2, <2>3 DEF EventsOK
  <1>6. VersionsOK'
    <2>1. ASSUME NEW k \in 1..(n + 2), NEW i \in Ids, history'[k][i] # NoDoc
          PROVE  /\ history'[k][i].version \in 1..(k - 1)
                 /\ \A j \in (history'[k][i].version + 1)..k : history'[j][i] = history'[k][i]
      <3>1. CASE k \in 1..(n + 1)
        <4>1. history'[k] = history[k]
          BY <1>2, <3>1
        <4>2. /\ history[k][i].version \in 1..(k - 1)
              /\ \A j \in (history[k][i].version + 1)..k : history[j][i] = history[k][i]
          BY <1>1, <2>1, <3>1, <4>1 DEF VersionsOK
        <4>3. ASSUME NEW j \in (history[k][i].version + 1)..k
              PROVE  history'[j] = history[j]
          BY <1>1, <1>2, <3>1, <4>2
        <4> QED BY <4>1, <4>2, <4>3
      <3>2. CASE k = n + 2 /\ i = id
        <4>1. history'[k][i] = doc
          BY <1>1, <1>2, <3>2 DEF States
        <4>2. history'[k][i].version = n + 1
          BY <1>4, <2>1, <4>1
        <4> QED BY <1>1, <3>2, <4>2
      <3>3. CASE k = n + 2 /\ i # id
        <4>1. history'[k][i] = history[n + 1][i]
          BY <1>1, <1>2, <3>3 DEF States
        <4>2. /\ history[n + 1][i].version \in 1..n
              /\ \A j \in (history[n + 1][i].version + 1)..(n + 1) :
                    history[j][i] = history[n + 1][i]
          <5>1. n + 1 \in 1..Len(history) /\ (n + 1) - 1 = n
            BY <1>1
          <5> QED BY <2>1, <4>1, <5>1 DEF VersionsOK
        <4>3. ASSUME NEW j \in (history'[k][i].version + 1)..k
              PROVE  history'[j][i] = history'[k][i]
          <5>1. CASE j = n + 2
            BY <3>3, <5>1
          <5>2. CASE j # n + 2
            <6>1. j \in (history[n + 1][i].version + 1)..(n + 1) /\ j \in 1..(n + 1)
              BY <1>1, <3>3, <4>1, <4>2, <5>2
            <6> QED BY <1>2, <4>1, <4>2, <6>1
          <5> QED BY <5>1, <5>2
        <4> QED BY <1>1, <3>3, <4>1, <4>2, <4>3
      <3> QED BY <1>1, <3>1, <3>2, <3>3
    <2> QED BY <1>2, <2>1 DEF VersionsOK
  <1> QED BY <1>5, <1>6

LEMMA MergeIsAssign ==
    ASSUME OptimisticUpdateAssumption, NEW content \in Docs, NEW fields \in Docs
    PROVE  Merge(content, fields, {}) = Assign(content, fields)
  BY DEF Merge, Assign, OptimisticUpdateAssumption

(* The cache applies an event as the database did.                         *)
LEMMA ApplyOK ==
    ASSUME OptimisticUpdateAssumption, TypeOK, EventsOK, CacheOK, Apply
    PROVE  /\ applied' = applied + 1 /\ applied + 1 \in 1..Len(log)
           /\ history' = history /\ log' = log
           /\ cache' = history[applied + 2]
  <1>1. /\ applied \in Nat /\ applied < Len(log) /\ Len(log) \in Nat /\ Len(history) = Len(log) + 1
        /\ applied' = applied + 1
        /\ history' = history /\ log' = log
    BY StateFacts DEF Apply, mongoVars
  <1> DEFINE k == applied + 1
             event == log[k]
             doc == cache[event.id]
             new == CASE event.op = "insert" -> [version |-> k, content |-> event.fields]
                      [] event.op = "delete" -> NoDoc
                      [] event.op = "update" ->
                            IF doc = NoDoc THEN NoDoc
                            ELSE [version |-> k, content |-> Merge(doc.content, event.fields, {})]
  <1>2. k \in 1..Len(log) /\ k \in 1..Len(history)
    BY <1>1
  <1>3. event \in Events /\ cache \in States /\ cache = history[k]
    BY <1>2, StateFacts DEF CacheOK
  <1>4. /\ history[k + 1] = [cache EXCEPT ![event.id] = After(doc, k, event)]
        /\ event.op = "update" => doc # NoDoc
    BY <1>2, <1>3 DEF EventsOK
  <1>5. cache' = [cache EXCEPT ![event.id] = new]
    BY <1>1 DEF Apply
  <1>6. new = After(doc, k, event)
    <2>1. CASE event.op = "update"
      <3>1. doc \in Stored
        BY <1>3, <1>4, <2>1 DEF States, Events
      <3>2. Merge(doc.content, event.fields, {}) = Assign(doc.content, event.fields)
        BY <1>3, <3>1, StoredFacts, MergeIsAssign DEF Events
      <3> QED BY <1>4, <2>1, <3>2 DEF After
    <2>2. CASE event.op # "update"
      <3>1. event.op \in Ops
        BY <1>3 DEF Events
      <3> QED BY <2>2, <3>1 DEF After, Ops
    <2> QED BY <2>1, <2>2
  <1>7. k + 1 = applied + 2
    BY <1>1
  <1> QED BY <1>1, <1>2, <1>4, <1>5, <1>6, <1>7

-----------------------------------------------------------------------------
(* What a step may do to the database and the cache.                       *)

Writes(op, id, content, fields) ==
    /\ Commit(op, id, content, fields)
    /\ op = "insert" => content = fields
    /\ op = "update" => db[id] # NoDoc /\ content = Assign(db[id].content, fields)
    /\ UNCHANGED cacheVars

LEMMA UpdateWrites ==
    ASSUME TypeOK, EventsOK, NEW c \in Clients, UpdateOne(c)
    PROVE  /\ draft[c].id \in Ids /\ set[c] \in Docs
           /\ Assign(db[draft[c].id].content, set[c]) \in Docs
           /\ Writes("update", draft[c].id, Assign(db[draft[c].id].content, set[c]), set[c])
  <1>1. draft[c].id \in Ids /\ set[c] \in Docs
    BY DEF TypeOK
  <1>2. db[draft[c].id] # NoDoc
    BY DEF UpdateOne, Matches
  <1>3. db[draft[c].id] \in Stored
    BY <1>1, <1>2, StateFacts DEF States
  <1>4. Assign(db[draft[c].id].content, set[c]) \in Docs
    BY <1>1, <1>3, StoredFacts, AssignType
  <1> QED BY <1>1, <1>2, <1>4 DEF UpdateOne, Writes

LEMMA StepKinds ==
    ASSUME OptimisticUpdateAssumption, TypeOK, EventsOK, [Next]_vars
    PROVE  \/ \E op \in Ops, id \in Ids, content \in Docs, fields \in Docs :
                 Writes(op, id, content, fields)
           \/ Apply
           \/ UNCHANGED <<mongoVars, cacheVars>>
  <1>1. ASSUME NEW id \in Ids, NEW content \in Contents, Create(id, content)
        PROVE  content \in Docs /\ Writes("insert", id, content, content)
    BY <1>1 DEF Create, Writes, OptimisticUpdateAssumption
  <1>2. ASSUME NEW id \in Ids, Delete(id)
        PROVE  Blank \in Docs /\ Writes("delete", id, Blank, Blank)
    BY <1>2 DEF Delete, Writes, Blank, Docs
  <1>3. ASSUME NEW id \in Ids, NEW fields \in Overwrites, Overwrite(id, fields)
        PROVE  /\ fields \in Docs /\ Assign(db[id].content, fields) \in Docs
               /\ Writes("update", id, Assign(db[id].content, fields), fields)
    <2>1. fields \in Docs /\ db[id] \in Stored
      BY <1>3, StateFacts DEF Overwrite, OptimisticUpdateAssumption, States
    <2>2. Assign(db[id].content, fields) \in Docs
      BY <2>1, StoredFacts, AssignType
    <2> QED BY <1>3, <2>1, <2>2 DEF Overwrite, Writes
  <1>4. ASSUME NEW c \in Clients, NEW id \in Ids, ReadCache(c, id) \/ ReadMongo(c, id)
        PROVE  UNCHANGED <<mongoVars, cacheVars>>
    BY <1>4 DEF ReadCache, ReadMongo, Edit
  <1>5. ASSUME NEW c \in Clients, EditAgain(c) \/ Prepare(c) \/ UpdateNone(c)
        PROVE  UNCHANGED <<mongoVars, cacheVars>>
    BY <1>5 DEF EditAgain, Prepare, UpdateNone, Edit
  <1>6. CASE UNCHANGED vars
    BY <1>6 DEF vars
  <1> QED BY <1>1, <1>2, <1>3, <1>4, <1>5, <1>6, UpdateWrites DEF Next, Ops

(* The histories of database and cache go on, and are not rewritten.       *)
Grows ==
    /\ Len(log') \in Nat /\ Len(log) <= Len(log') /\ applied <= applied' /\ applied' \in 0..Len(log')
    /\ \A k \in 1..(Len(log) + 1) : history'[k] = history[k]

LEMMA SameHistory ==
    ASSUME EventsOK, VersionsOK, history' = history, log' = log
    PROVE  EventsOK' /\ VersionsOK'
  <1>1. Len(history') = Len(log') + 1
    BY DEF EventsOK
  <1>2. \A k \in 1..Len(log') :
           /\ history'[k + 1] = [history'[k] EXCEPT ![log'[k].id] =
                                   After(history'[k][log'[k].id], k, log'[k])]
           /\ log'[k].op = "update" => history'[k][log'[k].id] # NoDoc
    <2>1. \A k \in 1..Len(log) :
             /\ history[k + 1] = [history[k] EXCEPT ![log[k].id] =
                                    After(history[k][log[k].id], k, log[k])]
             /\ log[k].op = "update" => history[k][log[k].id] # NoDoc
      BY DEF EventsOK
    <2> QED BY <2>1
  <1>3. EventsOK'
    BY <1>1, <1>2 DEF EventsOK
  <1>4. VersionsOK'
    BY DEF VersionsOK
  <1> QED BY <1>3, <1>4

LEMMA StoreStep ==
    ASSUME OptimisticUpdateAssumption, TypeOK, EventsOK, VersionsOK, CacheOK, [Next]_vars
    PROVE  /\ history' \in Seq(States) /\ log' \in Seq(Events) /\ cache' \in States
           /\ EventsOK' /\ VersionsOK' /\ CacheOK' /\ Grows
  <1>1. /\ history \in Seq(States) /\ log \in Seq(Events) /\ cache \in States
        /\ Len(log) \in Nat /\ Len(history) = Len(log) + 1 /\ applied \in 0..Len(log)
        /\ \A k \in 1..(Len(log) + 1) : history[k] \in States
    BY StateFacts DEF TypeOK, States
  <1>2. ASSUME NEW op \in Ops, NEW id \in Ids, NEW content \in Docs, NEW fields \in Docs,
               Writes(op, id, content, fields)
        PROVE  /\ history' \in Seq(States) /\ log' \in Seq(Events) /\ cache' \in States
               /\ EventsOK' /\ VersionsOK' /\ CacheOK' /\ Grows
    <2>1. EventsOK' /\ VersionsOK'
      BY <1>2, CommitOK DEF Writes
    <2>2. /\ history' \in Seq(States) /\ log' \in Seq(Events)
          /\ Len(log') = Len(log) + 1
          /\ \A k \in 1..(Len(log) + 1) : history'[k] = history[k]
      <3>1. Committed(op, id, content, fields)
        BY <1>2, CommitFacts DEF Writes
      <3> QED BY <3>1 DEF Committed
    <2>3. cache' = cache /\ applied' = applied
      BY <1>2 DEF Writes, cacheVars
    <2>4. Grows
      BY <1>1, <2>2, <2>3 DEF Grows
    <2>5. CacheOK'
      BY <1>1, <2>2, <2>3 DEF CacheOK
    <2> QED BY <1>1, <2>1, <2>2, <2>3, <2>4, <2>5
  <1>3. CASE Apply
    <2>1. /\ applied' = applied + 1 /\ applied + 1 \in 1..Len(log)
          /\ history' = history /\ log' = log /\ cache' = history[applied + 2]
      BY <1>3, ApplyOK
    <2>2. EventsOK' /\ VersionsOK'
      BY <2>1, SameHistory
    <2>3. cache' \in States /\ CacheOK'
      BY <1>1, <2>1 DEF CacheOK
    <2>4. Grows
      BY <1>1, <2>1 DEF Grows
    <2> QED BY <1>1, <2>1, <2>2, <2>3, <2>4
  <1>4. CASE UNCHANGED <<mongoVars, cacheVars>>
    <2>1. history' = history /\ log' = log /\ cache' = cache /\ applied' = applied
      BY <1>4 DEF mongoVars, cacheVars
    <2>2. EventsOK' /\ VersionsOK' /\ CacheOK'
      BY <2>1, SameHistory DEF CacheOK
    <2>3. Grows
      BY <1>1, <2>1 DEF Grows
    <2> QED BY <1>1, <2>1, <2>2, <2>3
  <1> QED BY <1>2, <1>3, <1>4, StepKinds

-----------------------------------------------------------------------------
(* What a step does to the clients: at most one of them moves.             *)

Same(c) ==
    /\ pc'[c] = pc[c] /\ draft'[c] = draft[c] /\ set'[c] = set[c]
    /\ origin'[c] = origin[c] /\ own'[c] = own[c]

Moves(c) ==
    \/ \E id \in Ids : ReadCache(c, id) \/ ReadMongo(c, id)
    \/ EditAgain(c) \/ Prepare(c) \/ UpdateOne(c) \/ UpdateNone(c)

LEMMA OneMoves ==
    ASSUME TypeOK, [Next]_vars
    PROVE  \/ UNCHANGED clientVars
           \/ \E c \in Clients : Moves(c) /\ \A d \in Clients \ {c} : Same(d)
  <1>1. ASSUME NEW c \in Clients, Moves(c), NEW d \in Clients, d # c
        PROVE  Same(d)
    <2>1. CASE \E id \in Ids : ReadCache(c, id) \/ ReadMongo(c, id)
      BY <1>1, <2>1 DEF ReadCache, ReadMongo, Edit, Same, TypeOK
    <2>2. CASE EditAgain(c)
      BY <1>1, <2>2 DEF EditAgain, Edit, Same, TypeOK
    <2>3. CASE Prepare(c)
      BY <1>1, <2>3 DEF Prepare, Return, Same, TypeOK
    <2>4. CASE UpdateOne(c)
      BY <1>1, <2>4 DEF UpdateOne, Return, Same, TypeOK
    <2>5. CASE UpdateNone(c)
      BY <1>1, <2>5 DEF UpdateNone, Return, Same, TypeOK
    <2> QED BY <1>1, <2>1, <2>2, <2>3, <2>4, <2>5 DEF Moves
  <1>2. \/ UNCHANGED clientVars
        \/ \E c \in Clients : Moves(c)
    BY DEF Next, Moves, Create, Delete, Overwrite, Apply, vars
  <1> QED BY <1>1, <1>2

ClientsTyped ==
    /\ pc \in [Clients -> {"idle", "prepare", "write"}]
    /\ draft \in [Clients -> [id : Ids, version : Nat, content : Docs]]
    /\ set \in [Clients -> Docs]
    /\ reply \in [Clients -> {"none", "ok", "nothing", "notFound"}]
    /\ origin \in [Clients -> [source : {"none", "cache", "mongo", "returned"}, content : Docs]]
    /\ own \in [Clients -> 0..Len(log)]

LEMMA EditTyped ==
    ASSUME OptimisticUpdateAssumption, TypeOK, NEW c \in Clients, NEW id \in Ids,
           NEW version \in Nat, NEW source \in {"cache", "mongo", "returned"}, NEW before \in Docs,
           Edit(c, id, version, source, before)
    PROVE  ClientsTyped'
  <1>1. PICK content \in Contents :
           draft' = [draft EXCEPT ![c] = [id |-> id, version |-> version, content |-> content]]
    BY DEF Edit
  <1>2. content \in Docs /\ 0 \in 0..Len(log)
    BY DEF OptimisticUpdateAssumption, TypeOK
  <1>3. draft' \in [Clients -> [id : Ids, version : Nat, content : Docs]]
    BY <1>1, <1>2 DEF TypeOK
  <1> QED BY <1>2, <1>3 DEF Edit, ClientsTyped, TypeOK, mongoVars

LEMMA PrepareTyped ==
    ASSUME TypeOK, NEW c \in Clients, Prepare(c)
    PROVE  ClientsTyped'
  <1>1. draft' = draft /\ origin' = origin /\ own' = own /\ log' = log
    BY DEF Prepare, mongoVars
  <1>2. /\ pc' \in [Clients -> {"idle", "prepare", "write"}]
        /\ set' \in [Clients -> Docs]
        /\ reply' \in [Clients -> {"none", "ok", "nothing", "notFound"}]
    <2>1. CASE \E outcome \in {"notFound", "nothing"} : Return(c, outcome)
      BY <2>1 DEF Return, Blank, Docs, TypeOK
    <2>2. CASE /\ cache[draft[c].id] # NoDoc
               /\ set' = [set EXCEPT ![c] = Changed(draft[c].content, cache[draft[c].id].content)]
               /\ pc' = [pc EXCEPT ![c] = "write"] /\ UNCHANGED reply
      <3>1. draft[c].content \in Docs /\ cache[draft[c].id] \in Stored
        BY <2>2 DEF TypeOK
      <3>2. Changed(draft[c].content, cache[draft[c].id].content) \in Docs
        BY <3>1 DEF Changed, Docs
      <3> QED BY <2>2, <3>2 DEF TypeOK
    <2> QED BY <2>1, <2>2 DEF Prepare
  <1> QED BY <1>1, <1>2 DEF ClientsTyped, TypeOK

LEMMA WriteTyped ==
    ASSUME TypeOK, EventsOK, Grows, NEW c \in Clients, UpdateOne(c) \/ UpdateNone(c)
    PROVE  ClientsTyped'
  <1>1. draft' = draft /\ origin' = origin /\ Return(c, "ok")
    BY DEF UpdateOne, UpdateNone
  <1>2. own' \in [Clients -> 0..Len(log')]
    <2>1. own \in [Clients -> 0..Len(log')] /\ Len(log) \in Nat
      BY StateFacts DEF Grows, TypeOK
    <2>2. CASE UpdateNone(c)
      BY <2>1, <2>2 DEF UpdateNone
    <2>3. CASE UpdateOne(c)
      <3>1. Len(log') = Len(log) + 1
        BY <2>1, <2>3, StateFacts DEF UpdateOne, Commit
      <3> QED BY <2>1, <2>3, <3>1 DEF UpdateOne
    <2> QED BY <2>2, <2>3
  <1>3. /\ pc' \in [Clients -> {"idle", "prepare", "write"}]
        /\ set' \in [Clients -> Docs]
        /\ reply' \in [Clients -> {"none", "ok", "nothing", "notFound"}]
    BY <1>1 DEF Return, Blank, Docs, TypeOK
  <1> QED BY <1>1, <1>2, <1>3 DEF ClientsTyped, TypeOK

LEMMA ClientTypes ==
    ASSUME OptimisticUpdateAssumption, TypeOK, EventsOK, Grows, [Next]_vars
    PROVE  ClientsTyped'
  <1>1. ASSUME NEW c \in Clients, NEW id \in Ids, ReadCache(c, id)
        PROVE  ClientsTyped'
    <2>1. cache[id] \in Stored
      BY <1>1 DEF ReadCache, TypeOK
    <2> QED BY <1>1, <2>1, StoredFacts, EditTyped DEF ReadCache
  <1>2. ASSUME NEW c \in Clients, NEW id \in Ids, ReadMongo(c, id)
        PROVE  ClientsTyped'
    <2>1. db[id] \in Stored
      BY <1>2, StateFacts DEF ReadMongo, States
    <2> QED BY <1>2, <2>1, StoredFacts, EditTyped DEF ReadMongo
  <1>3. ASSUME NEW c \in Clients, EditAgain(c)
        PROVE  ClientsTyped'
    <2>1. draft[c].id \in Ids /\ draft[c].version \in Nat /\ draft[c].content \in Docs
      BY DEF TypeOK
    <2> QED BY <1>3, <2>1, EditTyped DEF EditAgain
  <1>4. CASE UNCHANGED clientVars
    <2>1. own \in [Clients -> 0..Len(log')]
      BY StateFacts DEF Grows, TypeOK
    <2> QED BY <1>4, <2>1 DEF clientVars, ClientsTyped, TypeOK
  <1> QED BY <1>1, <1>2, <1>3, <1>4, PrepareTyped, WriteTyped, OneMoves DEF Moves

(* A client that does nothing knows what it knew.                          *)
LEMMA SameKnows ==
    ASSUME TypeOK, EventsOK, Grows, NEW c \in Clients, Knows(c), UpdateOK(c), Same(c)
    PROVE  Knows(c)' /\ UpdateOK(c)'
  <1>1. /\ Len(log) \in Nat /\ applied \in 0..Len(log) /\ applied' \in Nat /\ Len(log') \in Nat
        /\ Len(log) <= Len(log') /\ applied <= applied'
        /\ \A k \in 1..(Len(log) + 1) : history'[k] = history[k]
    BY StateFacts DEF Grows
  <1>2. /\ draft[c].version \in Nat /\ own[c] \in 0..Len(log)
    BY DEF TypeOK
  <1> DEFINE v == draft[c].version
             i == draft[c].id
  <1>3. pc[c] # "idle" /\ origin[c].source \in {"cache", "mongo"} =>
           /\ v \in 1..Len(log')
           /\ history'[v + 1][i] = [version |-> v, content |-> origin[c].content]
    <2> SUFFICES ASSUME pc[c] # "idle", origin[c].source \in {"cache", "mongo"}
                 PROVE  /\ v \in 1..Len(log')
                        /\ history'[v + 1][i] = [version |-> v, content |-> origin[c].content]
      OBVIOUS
    <2>1. /\ v \in 1..Len(log)
          /\ history[v + 1][i] = [version |-> v, content |-> origin[c].content]
      BY DEF Knows
    <2>2. v \in 1..Len(log') /\ v + 1 \in 1..(Len(log) + 1)
      BY <2>1, <1>1
    <2>3. history'[v + 1] = history[v + 1]
      BY <2>2, <1>1
    <2> QED BY <2>1, <2>2, <2>3
  <1>4. pc[c] # "idle" /\ origin[c].source = "cache" =>
           /\ v <= applied'
           /\ \A f \in Fields : origin[c].content[f] # Nil => draft[c].content[f] # Nil
    BY <1>1, <1>2 DEF Knows
  <1>5. ASSUME pc[c] = "write", origin[c].source = "cache"
        PROVE  \E p \in (v + 1)..(applied' + 1) :
                  /\ history'[p][i] # NoDoc
                  /\ set[c] = Changed(draft[c].content, history'[p][i].content)
    <2>1. PICK p \in (v + 1)..(applied + 1) :
             /\ history[p][i] # NoDoc
             /\ set[c] = Changed(draft[c].content, history[p][i].content)
      BY <1>5 DEF Knows
    <2>2. p \in 1..(Len(log) + 1) /\ p \in (v + 1)..(applied' + 1)
      BY <1>1, <1>2
    <2> QED BY <1>1, <2>1, <2>2
  <1>6. Knows(c)'
    BY <1>3, <1>4, <1>5 DEF Knows, Same, Changed
  <1>7. UpdateOK(c)'
    <2>1. own[c] # 0 => own[c] \in 1..(Len(log) + 1) /\ own[c] + 1 \in 1..(Len(log) + 1)
      BY <1>1, <1>2
    <2> QED BY <1>1, <2>1 DEF UpdateOK, Same
  <1> QED BY <1>6, <1>7

(* A document that is read carries the version that stored it.             *)
LEMMA ReadFacts ==
    ASSUME TypeOK, EventsOK, VersionsOK, NEW k \in 1..(Len(log) + 1), NEW id \in Ids,
           history[k][id] # NoDoc
    PROVE  /\ history[k][id].version \in 1..(k - 1)
           /\ history[history[k][id].version + 1][id] =
                 [version |-> history[k][id].version, content |-> history[k][id].content]
  <1>1. history[k][id] \in Stored /\ Len(history) = Len(log) + 1 /\ Len(log) \in Nat
    BY StateFacts DEF States
  <1>2. /\ history[k][id].version \in 1..(k - 1)
        /\ \A j \in (history[k][id].version + 1)..k : history[j][id] = history[k][id]
    BY <1>1 DEF VersionsOK
  <1>3. history[k][id].version + 1 \in (history[k][id].version + 1)..k
    BY <1>1, <1>2
  <1> QED BY <1>1, <1>2, <1>3, StoredFacts

LEMMA EditKnows ==
    ASSUME OptimisticUpdateAssumption, TypeOK, EventsOK, VersionsOK, CacheOK, NEW c \in Clients,
           \/ \E id \in Ids : ReadCache(c, id) \/ ReadMongo(c, id)
           \/ EditAgain(c)
    PROVE  Knows(c)' /\ UpdateOK(c)'
  <1>1. /\ Len(log) \in Nat /\ applied \in 0..Len(log) /\ db = history[Len(log) + 1]
    BY StateFacts
  <1>2. ASSUME NEW id, NEW version, NEW source, NEW before,
               Edit(c, id, version, source, before)
        PROVE  /\ history' = history /\ log' = log /\ applied' = applied
               /\ pc'[c] = "prepare" /\ own'[c] = 0
               /\ origin'[c].source = source /\ origin'[c].content = before
               /\ draft'[c].id = id /\ draft'[c].version = version
               /\ \A f \in Fields : before[f] # Nil => draft'[c].content[f] # Nil
    BY <1>2 DEF Edit, TypeOK, mongoVars, cacheVars
  <1>3. ASSUME NEW id \in Ids, ReadCache(c, id)
        PROVE  Knows(c)' /\ UpdateOK(c)'
    <2> DEFINE v == cache[id].version
    <2>1. /\ history' = history /\ log' = log /\ applied' = applied
          /\ pc'[c] = "prepare" /\ own'[c] = 0
          /\ origin'[c].source = "cache" /\ origin'[c].content = cache[id].content
          /\ draft'[c].id = id /\ draft'[c].version = v
          /\ \A f \in Fields : cache[id].content[f] # Nil => draft'[c].content[f] # Nil
      BY <1>2, <1>3 DEF ReadCache
    <2>2. v \in 1..applied /\ history[v + 1][id] = [version |-> v, content |-> cache[id].content]
      <3>1. applied + 1 \in 1..(Len(log) + 1) /\ (applied + 1) - 1 = applied
        BY <1>1
      <3>2. history[applied + 1][id] # NoDoc /\ history[applied + 1] = cache
        BY <1>3 DEF ReadCache, CacheOK
      <3> QED BY <3>1, <3>2, ReadFacts
    <2> HIDE DEF v
    <2> QED BY <1>1, <2>1, <2>2 DEF Knows, UpdateOK
  <1>4. ASSUME NEW id \in Ids, ReadMongo(c, id)
        PROVE  Knows(c)' /\ UpdateOK(c)'
    <2> DEFINE v == db[id].version
    <2>1. /\ history' = history /\ log' = log /\ applied' = applied
          /\ pc'[c] = "prepare" /\ own'[c] = 0
          /\ origin'[c].source = "mongo" /\ origin'[c].content = db[id].content
          /\ draft'[c].id = id /\ draft'[c].version = v
      BY <1>2, <1>4 DEF ReadMongo
    <2>2. v \in 1..Len(log) /\ history[v + 1][id] = [version |-> v, content |-> db[id].content]
      <3>1. Len(log) + 1 \in 1..(Len(log) + 1) /\ (Len(log) + 1) - 1 = Len(log)
        BY <1>1
      <3>2. history[Len(log) + 1][id] # NoDoc
        BY <1>1, <1>4 DEF ReadMongo
      <3> QED BY <1>1, <3>1, <3>2, ReadFacts
    <2> HIDE DEF v
    <2> QED BY <1>1, <2>1, <2>2 DEF Knows, UpdateOK
  <1>5. CASE EditAgain(c)
    <2>1. /\ pc'[c] = "prepare" /\ own'[c] = 0 /\ origin'[c].source = "returned"
      BY <1>2, <1>5 DEF EditAgain
    <2> QED BY <2>1 DEF Knows, UpdateOK
  <1> QED BY <1>3, <1>4, <1>5

LEMMA PrepareKnows ==
    ASSUME TypeOK, EventsOK, CacheOK, NEW c \in Clients, Knows(c), UpdateOK(c), Prepare(c)
    PROVE  Knows(c)' /\ UpdateOK(c)'
  <1>1. /\ history' = history /\ log' = log /\ applied' = applied
        /\ draft' = draft /\ origin' = origin /\ own' = own /\ pc[c] = "prepare"
    BY DEF Prepare, mongoVars, cacheVars
  <1>2. UpdateOK(c)'
    BY <1>1 DEF UpdateOK
  <1>3. CASE pc'[c] = "idle"
    BY <1>2, <1>3 DEF Knows
  <1>4. CASE /\ cache[draft[c].id] # NoDoc /\ pc'[c] = "write"
             /\ set'[c] = Changed(draft[c].content, cache[draft[c].id].content)
    <2>1. draft[c].version \in Nat /\ applied \in Nat
      BY StateFacts DEF TypeOK
    <2>2. origin[c].source = "cache" =>
             /\ applied + 1 \in (draft[c].version + 1)..(applied + 1)
             /\ history[applied + 1] = cache
      BY <1>1, <2>1 DEF Knows, CacheOK
    <2>3. Knows(c)'
      BY <1>1, <1>4, <2>2 DEF Knows, Changed
    <2> QED BY <1>2, <2>3
  <1>5. \/ pc'[c] = "idle"
        \/ /\ cache[draft[c].id] # NoDoc /\ pc'[c] = "write"
           /\ set'[c] = Changed(draft[c].content, cache[draft[c].id].content)
    BY DEF Prepare, Return, TypeOK
  <1> QED BY <1>3, <1>4, <1>5

(* The filter has matched: the document is the one that was read, and so   *)
(* is the cached one from which the difference was taken.                  *)
LEMMA UpdateOneKnows ==
    ASSUME OptimisticUpdateAssumption, TypeOK, EventsOK, VersionsOK, NEW c \in Clients,
           Knows(c), UpdateOK(c), UpdateOne(c)
    PROVE  Knows(c)' /\ UpdateOK(c)'
  <1> DEFINE n == Len(log)
             v == draft[c].version
             i == draft[c].id
             doc == db[i]
  <1>1. /\ n \in Nat /\ Len(history) = n + 1 /\ db = history[n + 1]
        /\ applied \in 0..n /\ n + 1 \in 1..(n + 1) /\ n + 1 - 1 = n
        /\ db \in States
    BY StateFacts
  <1>2. /\ i \in Ids /\ draft[c].content \in Docs /\ set[c] \in Docs /\ v \in Nat
    BY DEF TypeOK
  <1>3. pc[c] = "write" /\ doc # NoDoc /\ doc.version = v
    BY DEF UpdateOne, Matches
  <1>4. doc \in Stored /\ doc.content \in Docs
    BY <1>1, <1>2, <1>3, StoredFacts DEF States
  <1>5. /\ v \in 1..n
        /\ \A j \in (v + 1)..(n + 1) : history[j][i] = doc
    BY <1>1, <1>2, <1>3 DEF VersionsOK
  <1>6. /\ draft' = draft /\ origin' = origin /\ own'[c] = n + 1 /\ pc'[c] = "idle"
    BY DEF UpdateOne, Return, TypeOK
  <1>7. /\ history'[n + 1] = db
        /\ history'[n + 2][i].content = Assign(doc.content, set[c])
    <2>1. PICK op \in Ops, id \in Ids, new \in Docs, fields \in Docs :
             /\ op = "update" /\ id = i /\ new = Assign(doc.content, set[c])
             /\ Commit(op, id, new, fields)
      BY UpdateWrites DEF Writes, Ops
    <2>2. Commit("update", id, new, fields)
      BY <2>1
    <2>3. history'[n + 1] = db /\ history'[n + 2][id].content = new
      BY <2>1, <2>2, UpdateContent
    <2> QED BY <2>1, <2>3
  <1>8. origin[c].source \in {"cache", "mongo"} => doc.content = origin[c].content
    <2>1. v + 1 \in (v + 1)..(n + 1)
      BY <1>1, <1>5
    <2> QED BY <1>3, <1>5, <2>1 DEF Knows
  <1>9. ASSUME origin[c].source = "cache"
        PROVE  Assign(doc.content, set[c]) = draft[c].content
    <2>1. PICK p \in (v + 1)..(applied + 1) :
             set[c] = Changed(draft[c].content, history[p][i].content)
      BY <1>3, <1>9 DEF Knows
    <2>2. p \in (v + 1)..(n + 1)
      BY <1>1, <1>2
    <2>3. set[c] = Changed(draft[c].content, doc.content)
      BY <1>5, <2>1, <2>2
    <2>4. \A f \in Fields : doc.content[f] # Nil => draft[c].content[f] # Nil
      BY <1>3, <1>8, <1>9 DEF Knows
    <2> HIDE DEF doc
    <2> QED BY <1>2, <1>4, <2>3, <2>4 DEF Assign, Changed, Docs
  <1>10. Knows(c)'
    BY <1>6 DEF Knows
  <1>11. UpdateOK(c)'
    BY <1>1, <1>6, <1>7, <1>8, <1>9 DEF UpdateOK
  <1> QED BY <1>10, <1>11

LEMMA UpdateNoneKnows ==
    ASSUME TypeOK, NEW c \in Clients, Knows(c), UpdateOK(c), UpdateNone(c)
    PROVE  Knows(c)' /\ UpdateOK(c)'
  <1>1. /\ history' = history /\ draft' = draft /\ origin' = origin /\ own' = own
        /\ pc'[c] = "idle"
    BY DEF UpdateNone, Return, TypeOK, mongoVars
  <1> QED BY <1>1 DEF Knows, UpdateOK

LEMMA ClientStep ==
    ASSUME OptimisticUpdateAssumption, Inv, Grows, [Next]_vars, NEW c \in Clients
    PROVE  Knows(c)' /\ UpdateOK(c)'
  <1> USE DEF Inv
  <1>1. CASE Same(c)
    BY <1>1, SameKnows
  <1>2. CASE Moves(c)
    <2>1. CASE \/ \E id \in Ids : ReadCache(c, id) \/ ReadMongo(c, id)
               \/ EditAgain(c)
      BY <2>1, EditKnows
    <2>2. CASE Prepare(c)
      BY <2>2, PrepareKnows
    <2>3. CASE UpdateOne(c)
      BY <2>3, UpdateOneKnows
    <2>4. CASE UpdateNone(c)
      BY <2>4, UpdateNoneKnows
    <2> QED BY <1>2, <2>1, <2>2, <2>3, <2>4 DEF Moves
  <1>3. UNCHANGED clientVars => Same(c)
    BY DEF clientVars, Same
  <1> QED BY <1>1, <1>2, <1>3, OneMoves

-----------------------------------------------------------------------------
LEMMA InvInit == ASSUME OptimisticUpdateAssumption, Init PROVE Inv
  <1>1. Blank \in Docs
    BY DEF Blank, Docs
  <1>2. /\ Len(history) = 1 /\ history[1] = [id \in Ids |-> NoDoc]
        /\ log = <<>> /\ Len(log) = 0 /\ applied = 0
    BY DEF Init
  <1>3. TypeOK
    <2>1. history \in Seq([Ids -> Stored \cup {NoDoc}])
      <3>1. [id \in Ids |-> NoDoc] \in [Ids -> Stored \cup {NoDoc}]
        OBVIOUS
      <3> QED BY <3>1 DEF Init
    <2>2. draft \in [Clients -> [id : Ids, version : Nat, content : Docs]]
      BY <1>1 DEF Init
    <2>3. /\ log \in Seq([op : {"insert", "update", "delete"}, id : Ids, fields : Docs])
          /\ applied \in 0..Len(log) /\ cache \in [Ids -> Stored \cup {NoDoc}]
          /\ own \in [Clients -> 0..Len(log)]
      BY <1>2 DEF Init
    <2>4. /\ pc \in [Clients -> {"idle", "prepare", "write"}]
          /\ set \in [Clients -> Docs]
          /\ reply \in [Clients -> {"none", "ok", "nothing", "notFound"}]
          /\ origin \in [Clients -> [source : {"none", "cache", "mongo", "returned"},
                                     content : Docs]]
      BY <1>1 DEF Init
    <2> QED BY <2>1, <2>2, <2>3, <2>4 DEF TypeOK
  <1>4. EventsOK
    BY <1>2 DEF EventsOK
  <1>5. VersionsOK
    BY <1>2 DEF VersionsOK
  <1>6. CacheOK
    BY <1>2 DEF CacheOK, Init
  <1>7. ASSUME NEW c \in Clients
        PROVE  Knows(c) /\ UpdateOK(c)
    BY DEF Init, Knows, UpdateOK
  <1> QED BY <1>3, <1>4, <1>5, <1>6, <1>7 DEF Inv

LEMMA InvStep ==
    ASSUME OptimisticUpdateAssumption, Inv, [Next]_vars
    PROVE  Inv'
  <1>1. /\ history' \in Seq(States) /\ log' \in Seq(Events) /\ cache' \in States
        /\ EventsOK' /\ VersionsOK' /\ CacheOK' /\ Grows
    BY StoreStep DEF Inv
  <1>2. ClientsTyped'
    BY <1>1, ClientTypes DEF Inv
  <1>3. TypeOK'
    BY <1>1, <1>2 DEF TypeOK, ClientsTyped, Grows, States, Events, Ops
  <1>4. \A c \in Clients : Knows(c)' /\ UpdateOK(c)'
    BY <1>1, ClientStep
  <1> QED BY <1>1, <1>3, <1>4 DEF Inv

(* The inductive invariant holds in every reachable state.                 *)
THEOREM Invariance == Spec => []Inv
  <1>1. Init => Inv
    BY InvInit, OptimisticUpdateAssumption
  <1>2. Inv /\ [Next]_vars => Inv'
    BY InvStep, OptimisticUpdateAssumption
  <1> QED BY <1>1, <1>2, PTL DEF Spec

(* Every reachable state is well typed.                                    *)
THEOREM TypeCorrect == Spec => []TypeOK
  <1>1. Inv => TypeOK
    BY DEF Inv
  <1> QED BY <1>1, Invariance, PTL

(* No lost update, for any number of clients and whatever the cache holds: *)
(* the filter on the version lets an update replace only what was read.    *)
THEOREM NothingLost == Spec => []NoLostUpdate
  <1>1. Inv => NoLostUpdate
    BY DEF Inv, UpdateOK, NoLostUpdate, Wrote
  <1> QED BY <1>1, Invariance, PTL

(* An update of a copy read in the cache leaves the client's copy in the   *)
(* database, although PrepareUpdate compares the copy with what the cache  *)
(* holds by then, and the filter looks at the database, which is ahead.    *)
THEOREM WritesWhatWasEdited == Spec => []WrittenAsEdited
  <1>1. Inv => WrittenAsEdited
    BY DEF Inv, UpdateOK, WrittenAsEdited, Wrote
  <1> QED BY <1>1, Invariance, PTL

-----------------------------------------------------------------------------
(* OptimisticUpdate implements Projection.                                 *)

LEMMA ProjectionStep ==
    ASSUME OptimisticUpdateAssumption, Inv, [Next]_vars
    PROVE  [Projected!Next]_(Projected!vars)
  <1> USE DEF Inv
  <1>1. ASSUME NEW op \in Ops, NEW id \in Ids, NEW content \in Docs, NEW fields \in Docs,
               Writes(op, id, content, fields)
        PROVE  Projected!Commit
    <2> DEFINE now == history'[Len(history')]
    <2>1. /\ history \in Seq(States) /\ Len(log) \in Nat /\ Len(history) = Len(log) + 1
          /\ db = history[Len(history)] /\ db \in States
      BY StateFacts
    <2>2. Committed(op, id, content, fields)
      BY <1>1, CommitFacts DEF Writes
    <2>3. /\ now = [db EXCEPT ![id] = IF op = "delete" THEN NoDoc
                                ELSE [version |-> Len(log) + 1, content |-> content]]
          /\ history' \in Seq(States) /\ Len(history') \in 1..Len(history')
      BY <2>1, <2>2 DEF Committed
    <2>4. history' = Append(history, now)
      BY <1>1, <2>3 DEF Writes, Commit
    <2>5. now \in [Ids -> Stored \cup {NoDoc}]
      BY <2>3, ElementFacts DEF States
    <2>6. \A j \in Ids \ {id} : now[j] = history[Len(history)][j]
      BY <2>1, <2>3 DEF States
    <2>7. UNCHANGED <<applied + 1, cache>>
      BY <1>1 DEF Writes, cacheVars
    <2> QED BY <2>4, <2>5, <2>6, <2>7 DEF Projected!Commit
  <1>2. CASE Apply
    <2>1. /\ applied' = applied + 1 /\ applied + 1 \in 1..Len(log)
          /\ history' = history /\ cache' = history[applied + 2]
      BY <1>2, ApplyOK
    <2>2. applied \in Nat /\ Len(history) = Len(log) + 1 /\ Len(log) \in Nat
      BY StateFacts
    <2>3. /\ applied + 1 < Len(history) /\ (applied + 1) + 1 = applied + 2
          /\ applied' + 1 = (applied + 1) + 1
      BY <2>1, <2>2
    <2> QED BY <2>1, <2>3 DEF Projected!Next, Projected!Apply
  <1>3. CASE UNCHANGED <<mongoVars, cacheVars>>
    BY <1>3 DEF Projected!vars, mongoVars, cacheVars
  <1> QED BY <1>1, <1>2, <1>3, StepKinds DEF Projected!Next

(* The cache goes through the states of the collection, one committed      *)
(* write at a time, though an update event carries the set fields only.    *)
THEOREM CacheFollows == Spec => CacheIsProjection
  <1>1. Init => Projected!Init
    BY DEF Init, Projected!Init
  <1>2. Inv /\ [Next]_vars => [Projected!Next]_(Projected!vars)
    BY ProjectionStep, OptimisticUpdateAssumption
  <1> QED BY <1>1, <1>2, Invariance, PTL DEF Spec, CacheIsProjection, Projected!Safety
=============================================================================
