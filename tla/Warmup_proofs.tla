---------------------------- MODULE Warmup_proofs -----------------------------
(***************************************************************************)
(* A start beside writers, for any documents, updates, filter and number   *)
(* of writes: what the cache shows while old events are replayed over the  *)
(* documents the query has found, and that it converges.                   *)
(*                                                                         *)
(* While the stream is behind the reading of a document, each field in the *)
(* cache is either as it was when the document was read or as the stream   *)
(* has left it: an event that touches a field brings the cache and the     *)
(* replayed state to the same value, one that does not leaves both.  Where *)
(* the stream comes to the reading, the two are the same.                  *)
(*                                                                         *)
(* The indexes follow the events, too, each a little ahead of the cache.   *)
(* An entry is never without a reason: the document it leads to has the    *)
(* key, as the index knows it, or had it when the query read it.  The      *)
(* latter is what an insertion or an update replayed over the document     *)
(* brings, and it is over when the stream comes to the reading.  So an     *)
(* index may list a document twice, but only one that was added twice, and *)
(* may be blocked, but only by the text a document was inserted and found  *)
(* with.  The entry of a document may be missing, but only if another had  *)
(* the key before it, or has it where that one was read (Entered).         *)
(***************************************************************************)
EXTENDS Warmup, EntityStore_proofs

(* Where the stream is when n events of the feed have been passed on, or   *)
(* the reading of a document if it was found and its reading is further.   *)
StreamedAt(n) == IF n < Len(found) THEN 0 ELSE n - Len(found)

FoundIds == {found[j].id : j \in 1..Len(found)}

FurthestAt(n, id) ==
    IF id \in FoundIds /\ readAt[id] > StreamedAt(n) THEN readAt[id] ELSE StreamedAt(n)

(* One of the first n events of the feed is the document's insertion.      *)
MetBy(n, id) == \E k \in 1..n : feed[k].op = "insert" /\ feed[k].id = id

(* How many events of the feed the cache has seen, and what it knows.      *)
Applied == IF stage = "before" THEN taken - 1 ELSE taken
Streamed == StreamedAt(Applied)
Furthest(id) == FurthestAt(Applied, id)
Met(id) == MetBy(Applied, id)

Between(doc, now, seen) ==
    /\ doc = NoDoc => now = NoDoc
    /\ doc # NoDoc =>
          /\ now # NoDoc \/ seen # NoDoc
          /\ \A f \in Fields : \/ now # NoDoc /\ doc[f] = now[f]
                               \/ seen # NoDoc /\ doc[f] = seen[f]

ReadingOK ==
    /\ DOMAIN readAt \subseteq Ids
    /\ \A id \in DOMAIN readAt : readAt[id] \in 0..Len(log)
    /\ phase = "serve" => DOMAIN readAt = Ids

FoundOK ==
    /\ found \in Seq(Events)
    /\ \A j \in 1..Len(found) :
          /\ found[j].op = "insert"
          /\ found[j].id \in DOMAIN readAt
          /\ found[j].fields = history[readAt[found[j].id] + 1][found[j].id]
    /\ \A i, j \in 1..Len(found) : found[i].id = found[j].id => i = j

(* What the writers do to keys; see EntityStore_proofs.                    *)
WritesOK ==
    /\ \A k \in 1..Len(log) : Meant(log[k])
    /\ \A k \in 1..Len(history) : Apart(history[k])
    /\ UniqueKeyed => \A k \in 1..Len(history) : Keyed(history[k])

(* Before it listens, the Listener has been handed nothing.                *)
ListenerOK ==
    /\ cache \in States
    /\ phase # "serve" => stage = "idle" /\ taken = 0 /\ cache = [id \in Ids |-> NoDoc]
    /\ phase = "serve" => /\ stage \in {"idle", "before", "after"}
                          /\ taken \in 0..(Len(found) + Len(log))
                          /\ stage # "idle" => taken # 0

ReplayOK ==
    \A id \in Ids :
       IF Met(id) THEN Between(cache[id], history[Streamed + 1][id], history[Furthest(id) + 1][id])
       ELSE cache[id] = NoDoc

StartupInv ==
    /\ Recorded /\ ReadingOK /\ FoundOK /\ WritesOK /\ ListenerOK
    /\ AllFollowed /\ phase = "serve" => ReplayOK

-----------------------------------------------------------------------------
LEMMA FeedFacts ==
    ASSUME StartupInv, phase = "serve"
    PROVE  /\ Len(found) \in Nat /\ Len(log) \in Nat
           /\ Len(feed) = Len(found) + Len(log)
           /\ \A k \in 1..Len(found) : feed[k] = found[k] /\ found[k] \in Events
           /\ \A k \in (Len(found) + 1)..Len(feed) :
                 feed[k] = log[k - Len(found)] /\ k - Len(found) \in 1..Len(log)
           /\ Applied \in 0..Len(feed) /\ Streamed \in 0..Len(log)
           /\ stage = "before" => taken = Applied + 1 /\ Applied < Len(feed)
  <1>1. /\ found \in Seq(Events) /\ log \in Seq(Events)
        /\ Len(found) \in Nat /\ Len(log) \in Nat
    BY DEF StartupInv, FoundOK, Recorded
  <1>2. feed = found \o log
    BY DEF feed
  <1>3. /\ Len(feed) = Len(found) + Len(log)
        /\ \A k \in 1..Len(found) : feed[k] = found[k] /\ found[k] \in Events
        /\ \A k \in (Len(found) + 1)..(Len(found) + Len(log)) :
              feed[k] = log[k - Len(found)] /\ k - Len(found) \in 1..Len(log)
    BY <1>1, <1>2
  <1>4. /\ Applied \in 0..(Len(found) + Len(log))
        /\ stage = "before" => taken = Applied + 1 /\ Applied < Len(found) + Len(log)
    BY <1>1 DEF StartupInv, ListenerOK, Applied
  <1>5. Streamed \in 0..Len(log)
    BY <1>1, <1>4 DEF Streamed, StreamedAt
  <1> QED BY <1>1, <1>3, <1>4, <1>5

LEMMA FeedEvent ==
    ASSUME StartupInv, phase = "serve", NEW k \in 1..Len(feed)
    PROVE  feed[k] \in Events
  <1>1. /\ Len(found) \in Nat /\ Len(log) \in Nat
        /\ Len(feed) = Len(found) + Len(log)
    BY FeedFacts
  <1>2. CASE k <= Len(found)
    BY <1>1, <1>2, FeedFacts
  <1>3. CASE k > Len(found)
    <2>1. k \in (Len(found) + 1)..Len(feed)
      BY <1>1, <1>3
    <2>2. feed[k] = log[k - Len(found)] /\ k - Len(found) \in 1..Len(log)
      BY <2>1, FeedFacts
    <2> QED BY <2>2, RecordedFacts DEF StartupInv
  <1> QED BY <1>1, <1>2, <1>3

(* What an event makes of a document, and of all of them.                  *)
After(doc, e) ==
    IF e.op = "insert" THEN e.fields
    ELSE IF e.op = "delete" \/ doc = NoDoc THEN NoDoc
    ELSE Merge(doc, e.fields, e.removed)

Brought(docs, e) == [docs EXCEPT ![e.id] = After(@, e)]

LEMMA BroughtFacts ==
    ASSUME NEW docs \in States, NEW e \in Events
    PROVE  /\ Brought(docs, e) \in States
           /\ Brought(docs, e)[e.id] = After(docs[e.id], e)
           /\ \A id \in Ids \ {e.id} : Brought(docs, e)[id] = docs[id]
  <1>1. e.id \in Ids /\ e.fields \in Docs /\ docs[e.id] \in Docs \cup {NoDoc}
    BY DEF Events, States
  <1>2. After(docs[e.id], e) \in Docs \cup {NoDoc}
    BY <1>1, MergeType DEF After
  <1> HIDE DEF After
  <1> QED BY <1>1, <1>2 DEF Brought, States

(* What the Listener does to the cache.                                    *)
Applying ==
    /\ stage = "before" /\ stage' = "after" /\ taken' = taken
    /\ cache' = Brought(cache, feed[taken])

Passing ==
    /\ cache' = cache
    /\ stage = "before" => stage' = "before" /\ taken' = taken
    /\ stage = "after" => stage' = "idle" /\ taken' = taken
    /\ stage = "idle" => stage' = "before" /\ taken < Len(feed) /\ taken' = taken + 1

-----------------------------------------------------------------------------
(* An event brings a cached document as far as the collection.             *)
LEMMA Replay ==
    ASSUME AllFollowed, NEW before \in States, NEW after \in States, NEW e \in Events,
           Did(before, after, e), NEW doc \in Docs \cup {NoDoc}, NEW seen,
           Between(doc, before[e.id], seen)
    PROVE  Between(After(doc, e), after[e.id], seen)
  <1> DEFINE now == before[e.id]
             then == after[e.id]
             new == After(doc, e)
  <1>1. e.id \in Ids /\ e.fields \in Docs /\ e.fields # NoDoc /\ e.op \in Ops
    BY NoDocNoDocument DEF Events
  <1>2. CASE e.op = "insert"
    BY <1>1, <1>2 DEF Did, Between, After
  <1>3. CASE e.op = "delete"
    BY <1>1, <1>3 DEF Did, Between, After
  <1>4. CASE e.op = "update"
    <2>1. /\ now # NoDoc /\ then # NoDoc
          /\ \A f \in Fields : then[f] = Merge(now, e.fields, e.removed)[f]
      BY <1>4 DEF Did, AllFollowed
    <2>2. doc # NoDoc
      BY <2>1 DEF Between
    <2>3. new = Merge(doc, e.fields, e.removed) /\ new # NoDoc
      BY <1>1, <1>4, <2>2, MergeType, NoDocNoDocument DEF After
    <2> HIDE DEF new
    <2>4. ASSUME NEW f \in Fields
          PROVE  \/ new[f] = then[f]
                 \/ seen # NoDoc /\ new[f] = seen[f]
      <3>1. doc[f] = now[f] \/ (seen # NoDoc /\ doc[f] = seen[f])
        BY <2>2 DEF Between
      <3>2. doc[f] = now[f] => new[f] = then[f]
        BY <2>1, <2>3 DEF Merge
      <3>3. new[f] = then[f] \/ new[f] = doc[f]
        BY <2>1, <2>3 DEF Merge
      <3> QED BY <3>1, <3>2, <3>3
    <2>5. Between(new, then, seen)
      BY <2>1, <2>3, <2>4 DEF Between
    <2> QED BY <2>5 DEF new
  <1> QED BY <1>1, <1>2, <1>3, <1>4 DEF Ops

LEMMA MetGrows ==
    ASSUME Applied \in Nat, Applied' = Applied + 1, feed' = feed, NEW id
    PROVE  Met(id)' <=> \/ Met(id)
                        \/ feed[Applied + 1].op = "insert" /\ feed[Applied + 1].id = id
  <1>1. \A k : k \in 1..(Applied + 1) <=> k \in 1..Applied \/ k = Applied + 1
    OBVIOUS
  <1> QED BY <1>1 DEF Met, MetBy

(* What the query has found is added.                                      *)
LEMMA FoundApplied ==
    ASSUME StartupInv, phase = "serve", Applying, UNCHANGED <<startupVars, mongoVars>>,
           ReplayOK, taken <= Len(found)
    PROVE  ReplayOK'
  <1> DEFINE e == feed[taken]
  <1>1. /\ stage = "before" /\ stage' = "after" /\ taken' = taken /\ taken = Applied + 1
        /\ taken \in 1..Len(found) /\ Applied \in Nat /\ Len(found) \in Nat
        /\ history' = history /\ log' = log /\ found' = found /\ readAt' = readAt
        /\ feed' = feed
    BY FeedFacts DEF Applying, startupVars, mongoVars, feed
  <1>2. /\ e \in Events /\ e.op = "insert" /\ e.id \in Ids /\ readAt[e.id] \in Nat
        /\ e.fields = history[readAt[e.id] + 1][e.id] /\ e.fields # NoDoc
        /\ cache' = Brought(cache, e) /\ e.id \in FoundIds
    <2>1. e = found[taken] /\ e \in Events
      BY <1>1, FeedFacts
    <2>2. /\ e.op = "insert" /\ e.id \in DOMAIN readAt
          /\ e.fields = history[readAt[e.id] + 1][e.id]
      BY <1>1, <2>1 DEF StartupInv, FoundOK
    <2>3. e.id \in FoundIds
      BY <1>1, <2>1 DEF FoundIds
    <2> QED BY <2>1, <2>2, <2>3, NoDocNoDocument DEF Applying, StartupInv, ReadingOK, Events
  <1>3. Applied' = Applied + 1 /\ Streamed = 0 /\ Streamed' = 0
    BY <1>1 DEF Applied, Streamed, StreamedAt
  <1> HIDE DEF e
  <1>4. \A id \in Ids : Met(id)' <=> Met(id) \/ id = e.id
    BY <1>1, <1>2, <1>3, MetGrows DEF e
  <1>5. \A id \in Ids : Furthest(id)' = Furthest(id)
    BY <1>1, <1>3 DEF Furthest, FurthestAt, Streamed, FoundIds
  <1>6. Furthest(e.id) = readAt[e.id]
    BY <1>2, <1>3 DEF Furthest, FurthestAt, Streamed
  <1>7. cache \in States /\ ReplayOK
    BY DEF StartupInv, ListenerOK
  <1>8. cache'[e.id] = e.fields /\ \A id \in Ids \ {e.id} : cache'[id] = cache[id]
    BY <1>2, <1>7, BroughtFacts DEF After
  <1>9. Between(cache'[e.id], history[Streamed + 1][e.id], history[Furthest(e.id) + 1][e.id])
    BY <1>2, <1>6, <1>8 DEF Between
  <1>10. ASSUME NEW id \in Ids
         PROVE  IF Met(id)' THEN Between(cache'[id], history'[Streamed' + 1][id],
                                         history'[Furthest(id)' + 1][id])
                ELSE cache'[id] = NoDoc
    <2>1. CASE id = e.id
      BY <1>1, <1>3, <1>4, <1>5, <1>9, <2>1
    <2>2. CASE id # e.id
      BY <1>1, <1>3, <1>4, <1>5, <1>7, <1>8, <2>2 DEF ReplayOK
    <2> QED BY <2>1, <2>2
  <1> QED BY <1>10 DEF ReplayOK

(* An event of the stream is applied.                                      *)
LEMMA EventApplied ==
    ASSUME AllFollowed, StartupInv, phase = "serve", Applying, UNCHANGED <<startupVars, mongoVars>>,
           taken > Len(found)
    PROVE  ReplayOK'
  <1> DEFINE m == taken - Len(found)
  <1>1. /\ stage = "before" /\ stage' = "after" /\ taken' = taken /\ taken = Applied + 1
        /\ Applied \in Nat /\ Len(found) \in Nat
        /\ m \in 1..Len(log) /\ feed[taken] = log[m]
        /\ history' = history /\ log' = log /\ found' = found /\ readAt' = readAt
        /\ feed' = feed
    <2>1. /\ stage = "before" /\ stage' = "after" /\ taken' = taken /\ taken = Applied + 1
          /\ Applied < Len(feed) /\ Applied \in Nat /\ Len(found) \in Nat /\ Len(feed) \in Nat
      BY FeedFacts DEF Applying
    <2>2. taken \in (Len(found) + 1)..Len(feed)
      BY <2>1
    <2> QED BY <2>1, <2>2, FeedFacts DEF startupVars, mongoVars, feed
  <1>2. /\ m \in Nat /\ m + 1 \in 1..Len(history) /\ m \in 1..Len(history)
        /\ history[m] \in States /\ history[m + 1] \in States /\ log[m] \in Events
        /\ Did(history[m], history[m + 1], log[m])
    <2>1. Recorded /\ Len(log) \in Nat /\ Len(history) = Len(log) + 1
      BY RecordedFacts DEF StartupInv
    <2>2. m \in Nat /\ m + 1 \in 1..Len(history) /\ m \in 1..Len(history)
      BY <1>1, <2>1
    <2>3. history[m] \in States /\ history[m + 1] \in States /\ log[m] \in Events
      BY <1>1, <2>1, <2>2, RecordedFacts
    <2>4. Did(history[m], history[m + 1], log[m])
      BY <1>1, <2>1 DEF Recorded, EventsOK
    <2> QED BY <2>2, <2>3, <2>4
  <1>3. PICK before \in States, after \in States, e \in Events :
           /\ before = history[m] /\ after = history[m + 1] /\ e = log[m]
           /\ Did(before, after, e)
    BY <1>2
  <1>4. Applied' = Applied + 1 /\ Streamed = m - 1 /\ Streamed' = m
    BY <1>1 DEF Applied, Streamed, StreamedAt
  <1>5. /\ cache \in States /\ ReplayOK /\ e.id \in Ids
        /\ \A id \in Ids : readAt[id] \in Nat
    BY DEF StartupInv, ListenerOK, Events, ReadingOK
  <1>6. \A id \in Ids : Met(id)' <=> Met(id) \/ (e.op = "insert" /\ e.id = id)
    BY <1>1, <1>3, <1>4, MetGrows
  <1>7. \A id \in Ids : \/ Furthest(id) = readAt[id] /\ Furthest(id)' = readAt[id]
                        \/ Furthest(id) = m - 1 /\ Furthest(id)' = m
    BY <1>1, <1>4, <1>5 DEF Furthest, FurthestAt, Streamed, FoundIds
  <1>8. cache'[e.id] = After(cache[e.id], e)
    BY <1>1, <1>3, <1>5, BroughtFacts DEF Applying
  <1>9. \A id \in Ids \ {e.id} : cache'[id] = cache[id]
    BY <1>1, <1>3, <1>5, BroughtFacts DEF Applying
  <1>10. (m - 1) + 1 = m /\ history[(m - 1) + 1] = before
    BY <1>2, <1>3
  <1>11. ASSUME NEW id \in Ids \ {e.id}
         PROVE  IF Met(id)' THEN Between(cache'[id], history'[Streamed' + 1][id],
                                         history'[Furthest(id)' + 1][id])
                ELSE cache'[id] = NoDoc
    <2>1. before[id] = after[id]
      BY <1>3 DEF Did
    <2>2. history'[Streamed' + 1][id] = history[Streamed + 1][id]
      BY <1>1, <1>3, <1>4, <1>10, <2>1
    <2>3. history'[Furthest(id)' + 1][id] = history[Furthest(id) + 1][id]
      BY <1>1, <1>3, <1>7, <1>10, <2>1
    <2>4. (Met(id)' <=> Met(id)) /\ cache'[id] = cache[id]
      BY <1>6, <1>9
    <2> QED BY <1>5, <2>2, <2>3, <2>4 DEF ReplayOK
  <1>12. ASSUME Met(e.id)
         PROVE  Between(cache'[e.id], after[e.id], history'[Furthest(e.id)' + 1][e.id])
    <2>1. Between(cache[e.id], before[e.id], history[Furthest(e.id) + 1][e.id])
      BY <1>3, <1>4, <1>5, <1>10, <1>12 DEF ReplayOK
    <2>2. \A doc, now, seen : Between(doc, now, now) => Between(doc, now, seen)
      BY DEF Between
    <2>3. Between(cache[e.id], before[e.id], history'[Furthest(e.id)' + 1][e.id])
      <3>1. CASE Furthest(e.id) = readAt[e.id] /\ Furthest(e.id)' = readAt[e.id]
        BY <1>1, <2>1, <3>1
      <3>2. CASE Furthest(e.id) = m - 1 /\ Furthest(e.id)' = m
        BY <1>10, <2>1, <2>2, <3>2
      <3> QED BY <1>5, <1>7, <3>1, <3>2
    <2>4. PICK doc \in Docs \cup {NoDoc} : doc = cache[e.id]
      BY <1>5 DEF States
    <2> PICK seen : seen = history'[Furthest(e.id)' + 1][e.id]
      OBVIOUS
    <2>5. Between(After(doc, e), after[e.id], seen)
      BY <1>3, <2>3, <2>4, Replay
    <2> QED BY <1>8, <2>4, <2>5
  <1>13. ASSUME ~ Met(e.id)
         PROVE  IF e.op = "insert"
                THEN Between(cache'[e.id], after[e.id], history'[Furthest(e.id)' + 1][e.id])
                ELSE cache'[e.id] = NoDoc
    <2>1. cache[e.id] = NoDoc
      BY <1>5, <1>13 DEF ReplayOK
    <2>2. CASE e.op = "insert"
      <3>1. cache'[e.id] = e.fields /\ after[e.id] = e.fields /\ e.fields # NoDoc
        BY <1>3, <1>8, <2>2, NoDocNoDocument DEF Did, Events, After
      <3> QED BY <2>2, <3>1 DEF Between
    <2>3. CASE e.op # "insert"
      BY <1>8, <2>1, <2>3 DEF After
    <2> QED BY <2>2, <2>3
  <1>14. history'[Streamed' + 1] = after
    BY <1>1, <1>3, <1>4
  <1>15. IF Met(e.id)' THEN Between(cache'[e.id], history'[Streamed' + 1][e.id],
                                    history'[Furthest(e.id)' + 1][e.id])
         ELSE cache'[e.id] = NoDoc
    BY <1>5, <1>6, <1>12, <1>13, <1>14
  <1>16. \A id \in Ids : IF Met(id)' THEN Between(cache'[id], history'[Streamed' + 1][id],
                                                 history'[Furthest(id)' + 1][id])
                         ELSE cache'[id] = NoDoc
    BY <1>11, <1>15
  <1> QED BY <1>16 DEF ReplayOK

-----------------------------------------------------------------------------
(* Nothing is applied: what has been replayed stays so, also when writes   *)
(* add to the log.                                                         *)
LEMMA ReplayKept ==
    ASSUME StartupInv, ReplayOK, phase = "serve", Applied' = Applied, cache' = cache,
           found' = found, readAt' = readAt,
           \A k \in 1..Len(feed) : feed'[k] = feed[k],
           \A k \in 1..(Len(log) + 1) : history'[k] = history[k]
    PROVE  ReplayOK'
  <1>1. /\ Applied \in 0..Len(feed) /\ Len(feed) \in Nat
        /\ Streamed \in 0..Len(log) /\ Len(log) \in Nat
    BY FeedFacts
  <1>2. Streamed' = Streamed /\ \A id \in Ids : Furthest(id)' = Furthest(id)
    BY DEF Streamed, StreamedAt, Furthest, FurthestAt, FoundIds
  <1>3. \A id \in Ids : Met(id)' <=> Met(id)
    BY <1>1 DEF Met, MetBy
  <1>4. \A id \in Ids : Furthest(id) \in 0..Len(log)
    BY <1>1 DEF Furthest, FurthestAt, Streamed, StartupInv, ReadingOK
  <1>5. history'[Streamed + 1] = history[Streamed + 1]
    BY <1>1
  <1>6. \A id \in Ids : history'[Furthest(id) + 1] = history[Furthest(id) + 1]
    BY <1>1, <1>4
  <1>7. ASSUME NEW id \in Ids
        PROVE  IF Met(id)' THEN Between(cache'[id], history'[Streamed' + 1][id],
                                        history'[Furthest(id)' + 1][id])
               ELSE cache'[id] = NoDoc
    BY <1>2, <1>3, <1>5, <1>6 DEF ReplayOK
  <1> QED BY <1>7 DEF ReplayOK

LEMMA InitEstablishes == StartupInit => StartupInv
  <1> SUFFICES ASSUME StartupInit PROVE StartupInv
    OBVIOUS
  <1>1. PICK c \in [Ids -> Inserts \cup {NoDoc}] : history = <<c>>
    BY DEF StartupInit
  <1>2. c \in States
    BY <1>1, EntityStoreAssumption DEF States
  <1>3. Recorded
    BY <1>1, <1>2 DEF StartupInit, Recorded, EventsOK
  <1>4. ReadingOK /\ FoundOK
    BY DEF StartupInit, ReadingOK, FoundOK
  <1>5. ListenerOK
    BY DEF StartupInit, ListenerOK, C!Init, States
  <1>6. WritesOK
    <2>1. Len(log) = 0 /\ Len(history) = 1 /\ history[1] = c
      BY <1>1 DEF StartupInit
    <2>2. UniqueKeyed => Keyed(c)
      BY <1>1 DEF Keyed, UniqueKeyed
    <2>3. Apart(c)
      <3>1. db = c
        BY <2>1 DEF db
      <3> QED BY <3>1 DEF StartupInit, Apart
    <2> QED BY <2>1, <2>2, <2>3 DEF WritesOK
  <1> QED BY <1>3, <1>4, <1>5, <1>6 DEF StartupInv, StartupInit

LEMMA WriteKeeps ==
    ASSUME StartupInv, Write
    PROVE  StartupInv'
  <1>1. Recorded /\ db \in States
    BY RecordedFacts DEF StartupInv
  <1>2. SomeWrite /\ UNCHANGED startupVars
    BY <1>1, WritesAreWrites DEF Write
  <1>3. /\ Recorded' /\ Len(log') = Len(log) + 1
        /\ \A k \in 1..Len(log) : log'[k] = log[k]
        /\ \A k \in 1..(Len(log) + 1) : history'[k] = history[k]
        /\ UNCHANGED <<listenerVars, cacheVars>>
    BY <1>1, <1>2, RecordedWrite DEF SomeWrite
  <1>4. /\ phase' = phase /\ found' = found /\ readAt' = readAt
        /\ stage' = stage /\ taken' = taken /\ cache' = cache
    BY <1>2, <1>3 DEF startupVars, listenerVars, cacheVars
  <1>5. /\ Len(log) \in Nat /\ Len(log') \in Nat
        /\ log \in Seq(Events) /\ log' \in Seq(Events) /\ found \in Seq(Events)
        /\ Len(found) \in Nat
    BY <1>1, <1>3 DEF Recorded, StartupInv, FoundOK
  <1>6. ReadingOK'
    BY <1>3, <1>4, <1>5 DEF StartupInv, ReadingOK
  <1>7. FoundOK'
    <2>1. ASSUME NEW j \in 1..Len(found)
          PROVE  /\ found[j].op = "insert" /\ found[j].id \in DOMAIN readAt
                 /\ found[j].fields = history'[readAt[found[j].id] + 1][found[j].id]
      <3>1. /\ found[j].op = "insert" /\ found[j].id \in DOMAIN readAt
            /\ found[j].fields = history[readAt[found[j].id] + 1][found[j].id]
        BY DEF StartupInv, FoundOK
      <3>2. readAt[found[j].id] \in 0..Len(log)
        BY <3>1 DEF StartupInv, ReadingOK
      <3>3. readAt[found[j].id] + 1 \in 1..(Len(log) + 1)
        BY <1>5, <3>2
      <3> QED BY <1>3, <3>1, <3>3
    <2> QED BY <1>4, <1>5, <2>1 DEF StartupInv, FoundOK
  <1>8. ListenerOK'
    BY <1>3, <1>4, <1>5 DEF StartupInv, ListenerOK
  <1>9. ASSUME AllFollowed, phase = "serve" PROVE ReplayOK'
    <2>1. feed = found \o log /\ feed' = found \o log'
      BY <1>4, <1>9 DEF feed
    <2>2. \A k \in 1..Len(feed) : feed'[k] = feed[k]
      BY <1>3, <1>5, <2>1
    <2>3. Applied' = Applied
      BY <1>4 DEF Applied
    <2>4. ReplayOK
      BY <1>9 DEF StartupInv
    <2> QED BY <1>3, <1>4, <1>9, <2>2, <2>3, <2>4, ReplayKept
  <1>10. WritesOK'
    <2>1. SomeoneWrote
      BY <1>1, WriteKinds DEF Write
    <2>2. PICK e \in Events, state \in States : Wrote(e, state)
      BY <2>1 DEF SomeoneWrote
    <2>3. /\ Len(log) \in Nat /\ Len(history) = Len(log) + 1 /\ Len(history') = Len(log) + 2
          /\ log'[Len(log) + 1] = e /\ history'[Len(log) + 2] = state
          /\ db = history[Len(log) + 1] /\ Did(db, state, e) /\ Meant(e)
          /\ Apart(db) => Apart(state)
      <3>1. history \in Seq(States) /\ log \in Seq(Events)
        BY <1>1 DEF Recorded
      <3>2. history' = Append(history, state) /\ log' = Append(log, e)
            /\ Did(db, state, e) /\ Meant(e) /\ (Apart(db) => Apart(state))
        BY <2>2 DEF Wrote
      <3>3. Len(history') = Len(history) + 1 /\ history'[Len(history) + 1] = state
        BY <3>1, <3>2, AppendFacts
      <3>4. log'[Len(log) + 1] = e
        BY <3>1, <3>2, AppendFacts
      <3>5. Len(log) \in Nat /\ Len(history) = Len(log) + 1 /\ db = history[Len(log) + 1]
        BY <1>1, RecordedFacts
      <3> QED BY <3>2, <3>3, <3>4, <3>5
    <2>4. \A k \in 1..Len(log') : Meant(log'[k])
      <3>1. \A k \in 1..Len(log') : k \in 1..Len(log) \/ k = Len(log) + 1
        BY <1>3, <2>3
      <3> QED BY <1>3, <2>3, <3>1 DEF StartupInv, WritesOK
    <2>5. ASSUME UniqueKeyed
          PROVE  \A k \in 1..Len(history') : Keyed(history'[k])
      <3>1. \A k \in 1..Len(history') : k \in 1..(Len(log) + 1) \/ k = Len(log) + 2
        BY <2>3
      <3>2. \A k \in 1..(Len(log) + 1) : Keyed(history[k])
        BY <2>3, <2>5 DEF StartupInv, WritesOK
      <3>3. Keyed(db)
        BY <2>3, <3>2
      <3>4. Keyed(state)
        BY <1>1, <2>3, <2>5, <3>3, WriteKeyed
      <3> QED BY <1>3, <2>3, <3>1, <3>2, <3>4
    <2>6. \A k \in 1..Len(history') : Apart(history'[k])
      <3>1. \A k \in 1..Len(history') : k \in 1..(Len(log) + 1) \/ k = Len(log) + 2
        BY <2>3
      <3>2. \A k \in 1..(Len(log) + 1) : Apart(history[k])
        BY <2>3 DEF StartupInv, WritesOK
      <3>3. Apart(db)
        BY <2>3, <3>2
      <3> QED BY <1>3, <2>3, <3>1, <3>2, <3>3
    <2> QED BY <2>4, <2>5, <2>6 DEF WritesOK
  <1> QED BY <1>3, <1>4, <1>6, <1>7, <1>8, <1>9, <1>10 DEF StartupInv

(* The query passes a document: what it has found are states the           *)
(* collection was in.                                                      *)
LEMMA ReadKeeps ==
    ASSUME StartupInv, NEW id \in Ids, Read(id)
    PROVE  StartupInv'
  <1>1. /\ phase = "query" /\ phase' = "query" /\ id \notin DOMAIN readAt
        /\ history' = history /\ log' = log /\ stage' = stage /\ taken' = taken
        /\ cache' = cache
        /\ readAt' = [x \in DOMAIN readAt \cup {id} |-> IF x = id THEN Len(log) ELSE readAt[x]]
    BY DEF Read, vars, mongoVars, listenerVars, cacheVars
  <1>2. /\ Len(log) \in Nat /\ db = history[Len(log) + 1] /\ db \in States
        /\ DOMAIN readAt \subseteq Ids /\ \A x \in DOMAIN readAt : readAt[x] \in 0..Len(log)
    BY RecordedFacts DEF StartupInv, ReadingOK
  <1>3. Recorded'
    BY <1>1 DEF StartupInv, Recorded, EventsOK
  <1>4. ReadingOK'
    BY <1>1, <1>2 DEF ReadingOK
  <1> DEFINE e == [op |-> "insert", id |-> id, fields |-> db[id], removed |-> {}]
             n == Len(found)
  <1>5. \/ found' = found
        \/ found' = Append(found, e) /\ db[id] \in Warm
    BY DEF Read
  <1>6. /\ found \in Seq(Events) /\ n \in Nat
        /\ \A j \in 1..n : /\ found[j].op = "insert" /\ found[j].id \in DOMAIN readAt
                             /\ found[j].fields = history[readAt[found[j].id] + 1][found[j].id]
        /\ \A i, j \in 1..n : found[i].id = found[j].id => i = j
    BY DEF StartupInv, FoundOK
  <1>7. \A x \in DOMAIN readAt : x \in DOMAIN readAt' /\ readAt'[x] = readAt[x]
    BY <1>1
  <1>8. ASSUME found' = found
        PROVE  FoundOK'
    <2>1. \A j \in 1..n : /\ found[j].op = "insert" /\ found[j].id \in DOMAIN readAt'
                          /\ found[j].fields = history'[readAt'[found[j].id] + 1][found[j].id]
      BY <1>1, <1>6, <1>7
    <2> QED BY <1>6, <1>8, <2>1 DEF FoundOK
  <1>9. ASSUME found' = Append(found, e), db[id] \in Warm
        PROVE  FoundOK'
    <2>1. e \in Events /\ e.op = "insert" /\ e.id = id /\ e.fields = db[id]
      BY <1>9, WarmupAssumption DEF Events, Ops
    <2> HIDE DEF e
    <2>2. /\ found' \in Seq(Events) /\ Len(found') = n + 1
          /\ \A j \in 1..n : found'[j] = found[j]
          /\ found'[n + 1] = e
      BY <1>6, <1>9, <2>1, AppendFacts
    <2>3. id \in DOMAIN readAt' /\ readAt'[id] = Len(log)
      BY <1>1
    <2>4. \A j \in 1..n :
             /\ found'[j].op = "insert" /\ found'[j].id \in DOMAIN readAt'
             /\ found'[j].fields = history'[readAt'[found'[j].id] + 1][found'[j].id]
      BY <1>1, <1>6, <1>7, <2>2
    <2>5. /\ found'[n + 1].op = "insert" /\ found'[n + 1].id \in DOMAIN readAt'
          /\ found'[n + 1].fields = history'[readAt'[found'[n + 1].id] + 1][found'[n + 1].id]
      BY <1>1, <1>2, <2>1, <2>2, <2>3
    <2> HIDE DEF n
    <2>6. \A j \in 1..(n + 1) : j \in 1..n \/ j = n + 1
      BY <1>6
    <2>7. \A i, j \in 1..(n + 1) : found'[i].id = found'[j].id => i = j
      BY <1>1, <1>6, <2>1, <2>2, <2>6
    <2> QED BY <2>2, <2>4, <2>5, <2>6, <2>7 DEF FoundOK
  <1>10. ListenerOK'
    BY <1>1 DEF StartupInv, ListenerOK
  <1>11. WritesOK'
    BY <1>1 DEF StartupInv, WritesOK
  <1> QED BY <1>1, <1>3, <1>4, <1>5, <1>8, <1>9, <1>10, <1>11 DEF StartupInv

LEMMA ListenKeeps ==
    ASSUME StartupInv, Listen
    PROVE  StartupInv'
  <1>1. /\ phase = "query" /\ phase' = "serve" /\ DOMAIN readAt = Ids
        /\ history' = history /\ log' = log /\ stage' = stage /\ taken' = taken
        /\ cache' = cache /\ found' = found /\ readAt' = readAt
    BY DEF Listen, vars, mongoVars, listenerVars, cacheVars
  <1>2. stage = "idle" /\ taken = 0 /\ cache = [id \in Ids |-> NoDoc]
    BY <1>1 DEF StartupInv, ListenerOK
  <1>3. Recorded' /\ ReadingOK' /\ FoundOK' /\ WritesOK'
    BY <1>1 DEF StartupInv, Recorded, EventsOK, ReadingOK, FoundOK, WritesOK
  <1>4. ListenerOK'
    <2>1. Len(found) \in Nat /\ Len(log) \in Nat
      BY DEF StartupInv, FoundOK, Recorded
    <2> QED BY <1>1, <1>2, <2>1 DEF StartupInv, ListenerOK
  <1>5. ReplayOK'
    <2>1. Applied' = 0
      BY <1>1, <1>2 DEF Applied
    <2>2. \A id \in Ids : ~ Met(id)'
      BY <2>1 DEF Met, MetBy
    <2> QED BY <1>1, <1>2, <2>2 DEF ReplayOK
  <1> QED BY <1>3, <1>4, <1>5 DEF StartupInv

LEMMA HandleKeeps ==
    ASSUME StartupInv, phase = "serve", UNCHANGED <<startupVars, mongoVars>>,
           Applying \/ Passing
    PROVE  StartupInv'
  <1>1. /\ phase' = "serve"
        /\ history' = history /\ log' = log /\ found' = found /\ readAt' = readAt
    BY DEF startupVars, mongoVars
  <1>2. feed' = feed
    BY <1>1 DEF feed
  <1>3. Recorded' /\ ReadingOK' /\ FoundOK' /\ WritesOK'
    BY <1>1 DEF StartupInv, Recorded, EventsOK, ReadingOK, FoundOK, WritesOK
  <1>4. /\ cache \in States /\ stage \in {"idle", "before", "after"}
        /\ taken \in 0..(Len(found) + Len(log)) /\ (stage # "idle" => taken # 0)
    BY <1>1 DEF StartupInv, ListenerOK
  <1>5. ASSUME Applying
        PROVE  ListenerOK' /\ (AllFollowed => ReplayOK')
    <2>1. /\ stage = "before" /\ stage' = "after" /\ taken' = taken
          /\ taken \in 1..Len(feed) /\ Len(found) \in Nat /\ Len(log) \in Nat
      BY <1>1, <1>4, <1>5, FeedFacts DEF Applying
    <2>2. feed[taken] \in Events
      BY <2>1, FeedEvent
    <2>3. cache' \in States
      BY <1>4, <1>5, <2>2, BroughtFacts DEF Applying
    <2>4. ListenerOK'
      BY <1>1, <1>4, <2>1, <2>3 DEF ListenerOK
    <2>5. ASSUME AllFollowed
          PROVE  ReplayOK'
      <3>1. ReplayOK
        BY <2>5 DEF StartupInv
      <3> QED BY <1>1, <1>5, <2>1, <2>5, <3>1, FoundApplied, EventApplied
    <2> QED BY <2>4, <2>5
  <1>6. ASSUME Passing
        PROVE  ListenerOK' /\ (AllFollowed => ReplayOK')
    <2>1. /\ cache' = cache
          /\ stage = "before" => stage' = "before" /\ taken' = taken
          /\ stage = "after" => stage' = "idle" /\ taken' = taken
          /\ stage = "idle" => stage' = "before" /\ taken < Len(feed) /\ taken' = taken + 1
      BY <1>1, <1>6 DEF Passing
    <2>2. /\ Len(found) \in Nat /\ Len(log) \in Nat /\ Len(feed) = Len(found) + Len(log)
      BY <1>1, FeedFacts
    <2>3. ListenerOK'
      BY <1>1, <1>4, <2>1, <2>2 DEF ListenerOK
    <2>4. Applied' = Applied
      BY <1>4, <2>1, <2>2 DEF Applied
    <2>5. ASSUME AllFollowed
          PROVE  ReplayOK'
      <3>1. ReplayOK
        BY <2>5 DEF StartupInv
      <3> QED BY <1>1, <1>2, <2>1, <2>4, <3>1, ReplayKept
    <2> QED BY <2>3, <2>5
  <1> QED BY <1>3, <1>5, <1>6 DEF StartupInv
-----------------------------------------------------------------------------
(* Where the stream has come to the reading of a document, what it may     *)
(* show is one state.                                                      *)
LEMMA ReplayedIsReached ==
    ASSUME AllFollowed, StartupInv, NEW id \in Ids, Replayed >= 0, readAt[id] <= Replayed
    PROVE  cache[id] = IF id \in Known THEN history[1 + Replayed][id] ELSE NoDoc
  <1>1. phase = "serve"
    BY DEF Replayed
  <1>2. /\ Applied \in 0..Len(feed) /\ Len(feed) \in Nat /\ Len(found) \in Nat
        /\ Streamed \in 0..Len(log) /\ Len(log) \in Nat
    BY <1>1, FeedFacts
  <1>3. Replayed = Applied - Len(found)
    BY <1>1 DEF Replayed, Applied
  <1>4. Replayed = Streamed
    BY <1>2, <1>3 DEF Streamed, StreamedAt
  <1>5. readAt[id] \in Nat
    BY <1>1 DEF StartupInv, ReadingOK
  <1>6. Furthest(id) = Streamed
    BY <1>2, <1>4, <1>5 DEF Furthest, FurthestAt, Streamed
  <1>7. id \in Known <=> Met(id)
    <2>1. Replayed + Len(found) = Applied
      BY <1>2, <1>3
    <2> QED BY <2>1 DEF Known, Met, MetBy
  <1>8. IF Met(id) THEN Between(cache[id], history[Streamed + 1][id], history[Streamed + 1][id])
        ELSE cache[id] = NoDoc
    BY <1>1, <1>6 DEF StartupInv, ReplayOK
  <1>9. Streamed + 1 = 1 + Replayed /\ Streamed + 1 \in 1..Len(history)
    BY <1>2, <1>4, RecordedFacts DEF StartupInv
  <1>10. /\ cache[id] \in Docs \cup {NoDoc}
         /\ history[Streamed + 1][id] \in Docs \cup {NoDoc}
    BY <1>9, RecordedFacts DEF StartupInv, ListenerOK, States
  <1>11. \A doc, now \in Docs \cup {NoDoc} : Between(doc, now, now) => doc = now
    BY DEF Between, Docs
  <1>12. CASE Met(id)
    <2>1. cache[id] = history[Streamed + 1][id]
      BY <1>8, <1>10, <1>11, <1>12
    <2> QED BY <1>7, <1>9, <1>12, <2>1
  <1>13. CASE ~ Met(id)
    BY <1>7, <1>8, <1>13
  <1> QED BY <1>12, <1>13

LEMMA ShownWasThere ==
    ASSUME AllFollowed, StartupInv, NEW id \in Ids, cache[id] # NoDoc
    PROVE  /\ Streamed = IF Replayed > 0 THEN Replayed ELSE 0
           /\ \A f \in Fields : \E n \in {Streamed, readAt[id]} :
                 n >= Streamed /\ history[n + 1][id] # NoDoc /\ cache[id][f] = history[n + 1][id][f]
  <1>1. phase = "serve"
    BY DEF StartupInv, ListenerOK
  <1>2. /\ Streamed \in 0..Len(log) /\ Len(log) \in Nat /\ readAt[id] \in 0..Len(log)
        /\ Applied \in Nat /\ Len(found) \in Nat
    BY <1>1, FeedFacts DEF StartupInv, ReadingOK
  <1>3. Streamed = IF Replayed > 0 THEN Replayed ELSE 0
    <2>1. Replayed = Applied - Len(found)
      BY <1>1 DEF Replayed, Applied
    <2> QED BY <1>2, <2>1 DEF Streamed, StreamedAt
  <1>4. Furthest(id) \in {Streamed, readAt[id]} /\ Furthest(id) >= Streamed
    BY <1>2 DEF Furthest, FurthestAt, Streamed
  <1>5. Between(cache[id], history[Streamed + 1][id], history[Furthest(id) + 1][id])
    BY <1>1 DEF StartupInv, ReplayOK
  <1>6. ASSUME NEW f \in Fields
        PROVE  \E n \in {Streamed, Furthest(id)} :
                  history[n + 1][id] # NoDoc /\ cache[id][f] = history[n + 1][id][f]
    BY <1>5 DEF Between
  <1> QED BY <1>2, <1>3, <1>4, <1>6

-----------------------------------------------------------------------------
(* The types.  Here a document may be added to the cache and the indexes   *)
(* while they have it.                                                     *)
FoundTypes == [op : {"insert"}, id : Ids, fields : Warm, removed : {{}}]

ProcessTypes == todo \subseteq BeforeListeners /\ C!TypeOK /\ IndexTypes

StartupTypes ==
    /\ StartupInv /\ ProcessTypes
    /\ phase \in {"query", "serve", "failed"}
    /\ found \in Seq(FoundTypes)

(* Whatever the Listener does with the event e.                            *)
LEMMA ProcessKept ==
    ASSUME ProcessTypes, todo' \subseteq BeforeListeners, NEW e,
           \/ UNCHANGED <<cacheVars, indexVars>>
           \/ e \in Events /\ UNCHANGED cacheVars /\ Calls(e)
           \/ /\ e \in Events /\ UNCHANGED indexVars
              /\ C!Add(e.id, e.fields) \/ C!Update(e.id, e.fields, e.removed) \/ C!Delete(e.id)
    PROVE  ProcessTypes'
  <1>1. C!TypeOK /\ IndexTypes /\ Len(itemsByIndex) \in Nat
    BY DEF ProcessTypes, C!TypeOK
  <1>2. e \in Events => e.id \in Ids /\ e.fields \in Docs
    BY DEF Events
  <1>3. UNCHANGED cacheVars => C!TypeOK'
    BY <1>1 DEF cacheVars, C!TypeOK
  <1>4. CASE UNCHANGED <<cacheVars, indexVars>>
    <2>1. IndexTypes'
      BY <1>1, <1>4, IndexesStay DEF cacheVars
    <2> QED BY <1>3, <1>4, <2>1 DEF ProcessTypes
  <1>5. CASE e \in Events /\ UNCHANGED cacheVars /\ Calls(e)
    <2>1. IndexTypes'
      BY <1>1, <1>2, <1>5, CallsTyped
    <2> QED BY <1>3, <1>5, <2>1 DEF ProcessTypes
  <1>6. CASE /\ e \in Events /\ UNCHANGED indexVars
             /\ C!Add(e.id, e.fields) \/ C!Update(e.id, e.fields, e.removed) \/ C!Delete(e.id)
    <2>1. /\ C!TypeOK'
          /\ Len(itemsByIndex) \in Nat /\ Len(itemsByIndex') \in Nat
          /\ Len(itemsByIndex) <= Len(itemsByIndex')
      BY <1>1, <1>2, <1>6, CacheTyped
    <2>2. IndexTypes'
      BY <1>1, <1>6, <2>1, IndexesStay
    <2> QED BY <2>1, <2>2 DEF ProcessTypes
  <1> QED BY <1>4, <1>5, <1>6

LEMMA StartupTypesInit == StartupInit => StartupTypes
  <1> SUFFICES ASSUME StartupInit PROVE StartupTypes
    OBVIOUS
  <1>1. StartupInv
    BY InitEstablishes
  <1>2. C!TypeOK
    <2>1. cache \in States /\ itemsByIndex = <<>> /\ indexByID = [id \in Ids |-> 0]
      BY DEF StartupInit, C!Init, States
    <2> QED BY <2>1 DEF C!TypeOK, States, C!Docs, Docs
  <1>3. Inverse!TypeOK /\ Unique!TypeOK
    BY DEF StartupInit, Inverse!Init, Inverse!TypeOK, Unique!Init, Unique!TypeOK
  <1>4. Sorted!TypeOK
    <2>1. items = {} /\ locked = FALSE
      BY DEF StartupInit, Sorted!Init
    <2> QED BY <2>1 DEF Sorted!TypeOK
  <1>5. Suffix!TypeOK
    <2>1. postings = <<>>
      BY DEF StartupInit, Suffix!Init
    <2>2. DOMAIN postings = {}
      BY <2>1
    <2> QED BY <2>2 DEF Suffix!TypeOK
  <1>6. todo = {} /\ phase = "query" /\ found = <<>>
    BY DEF StartupInit
  <1> QED BY <1>1, <1>2, <1>3, <1>4, <1>5, <1>6 DEF StartupTypes, ProcessTypes, IndexTypes

(* Before the Listener is at work, and between its steps.                  *)
LEMMA OthersTyped ==
    ASSUME StartupTypes, StartupInv',
           \/ Write \/ (\E id \in Ids : Read(id)) \/ QueryFails \/ Listen
           \/ UNCHANGED <<vars, startupVars>>
    PROVE  StartupTypes'
  <1>1. StartupInv' /\ ProcessTypes
    BY DEF StartupTypes
  <1>2. ASSUME UNCHANGED <<todo, cacheVars, indexVars>>
        PROVE  ProcessTypes'
    BY <1>1, <1>2, ProcessKept DEF ProcessTypes
  <1>3. CASE Write
    <2>1. db \in States
      BY RecordedFacts DEF StartupTypes, StartupInv
    <2>2. SomeWrite /\ UNCHANGED startupVars
      BY <1>3, <2>1, WritesAreWrites DEF Write
    <2>3. UNCHANGED <<todo, cacheVars, indexVars>> /\ phase' = phase /\ found' = found
      BY <2>2 DEF SomeWrite, Writes, Commit, listenerVars, startupVars
    <2> QED BY <1>1, <1>2, <2>3 DEF StartupTypes
  <1>4. CASE \E id \in Ids : Read(id)
    <2>1. PICK id \in Ids : Read(id)
      BY <1>4
    <2> DEFINE e == [op |-> "insert", id |-> id, fields |-> db[id], removed |-> {}]
    <2>2. UNCHANGED <<todo, cacheVars, indexVars>> /\ phase' = phase
      BY <2>1 DEF Read, vars, listenerVars
    <2>3. \/ found' = found
          \/ found' = Append(found, e) /\ e \in FoundTypes
      BY <2>1 DEF Read, FoundTypes
    <2> HIDE DEF e
    <2>4. found' \in Seq(FoundTypes)
      BY <2>3, AppendFacts DEF StartupTypes
    <2> QED BY <1>1, <1>2, <2>2, <2>4 DEF StartupTypes
  <1>5. CASE QueryFails
    <2>1. UNCHANGED <<todo, cacheVars, indexVars>> /\ phase' = "failed" /\ found' = found
      BY <1>5 DEF QueryFails, vars, listenerVars
    <2> QED BY <1>1, <1>2, <2>1 DEF StartupTypes
  <1>6. CASE Listen
    <2>1. UNCHANGED <<todo, cacheVars, indexVars>> /\ phase' = "serve" /\ found' = found
      BY <1>6 DEF Listen, vars, listenerVars
    <2> QED BY <1>1, <1>2, <2>1 DEF StartupTypes
  <1>7. CASE UNCHANGED <<vars, startupVars>>
    <2>1. UNCHANGED <<todo, cacheVars, indexVars>> /\ phase' = phase /\ found' = found
      BY <1>7 DEF vars, listenerVars, startupVars
    <2> QED BY <1>1, <1>2, <2>1 DEF StartupTypes
  <1> QED BY <1>3, <1>4, <1>5, <1>6, <1>7

LEMMA StartupTypesGive ==
    ASSUME StartupTypes
    PROVE  /\ history \in Seq([Ids -> Docs \cup {NoDoc}])
           /\ taken \in 0..Len(feed) /\ stage \in {"idle", "before", "after"}
           /\ DOMAIN readAt \subseteq Ids
           /\ \A id \in DOMAIN readAt : readAt[id] \in 0..Len(log)
           /\ phase = "serve" => DOMAIN readAt = Ids
  <1>1. history \in Seq([Ids -> Docs \cup {NoDoc}])
    BY DEF StartupTypes, StartupInv, Recorded, States
  <1>2. Len(found) \in Nat /\ Len(log) \in Nat
    BY DEF StartupTypes, StartupInv, Recorded, FoundOK
  <1>3. CASE phase = "serve"
    BY <1>1, <1>2, <1>3, FeedFacts DEF StartupTypes, StartupInv, ListenerOK, ReadingOK
  <1>4. CASE phase # "serve"
    <2>1. taken = 0 /\ stage = "idle"
      BY <1>4 DEF StartupTypes, StartupInv, ListenerOK
    <2>2. feed = found \o <<>>
      BY <1>4 DEF feed
    <2>3. Len(feed) = Len(found)
      BY <2>2 DEF StartupTypes, StartupInv, FoundOK
    <2> QED BY <1>1, <1>2, <1>4, <2>1, <2>3 DEF StartupTypes, StartupInv, ReadingOK
  <1> QED BY <1>3, <1>4
-----------------------------------------------------------------------------
(* The indexes.  Each is told of an event before the cache is, and finds   *)
(* what it must remove through the cache.  How many events it has been     *)
(* told of, and what the cache will be when it is as far.                  *)
ToldBy(listener) == IF stage = "before" /\ listener \in todo THEN taken - 1 ELSE taken

Ahead(listener) ==
    IF stage = "before" /\ listener \notin todo THEN Brought(cache, feed[taken]) ELSE cache

(* It has been told of the document's insertion, and of the document as it *)
(* was where the stream is, or where it was read if that is further.       *)
Heard(listener, id) == MetBy(ToldBy(listener), id)
Past(listener, id) == history[FurthestAt(ToldBy(listener), id) + 1][id]

(* The index is told of the event.                                         *)
Turn(listener) ==
    /\ stage = "before" /\ listener \in todo /\ todo' = todo \ {listener}
    /\ stage' = stage /\ taken' = taken /\ cache' = cache
    /\ UNCHANGED <<startupVars, mongoVars>>

(* The document has the key, as the index knows it or as it was told.      *)
Holder(listener, id, key, from) ==
    /\ Heard(listener, id)
    /\ Has(Ahead(listener)[id], key, from) \/ Has(Past(listener, id), key, from)

(* The event that adds a document which the query had found as it was      *)
(* after this event, with the key.                                         *)
Twice(id, key, from) ==
    \E j \in 1..Len(found) : \E k \in 1..readAt[found[j].id] :
       /\ found[j].id = id /\ Has(found[j].fields, key, from)
       /\ k \in 1..Len(log) /\ log[k].op = "insert" /\ log[k].id = id
       /\ log[k] = feed[taken]

(* Where index, stream and cache are before and after the turn.            *)
LEMMA TurnPlace ==
    ASSUME StartupInv, phase = "serve", NEW listener, Turn(listener)
    PROVE  /\ taken \in 1..Len(feed) /\ taken = Applied + 1 /\ Applied \in Nat
           /\ feed[taken] \in Events /\ cache \in States
           /\ ToldBy(listener) = Applied /\ ToldBy(listener)' = taken
           /\ Ahead(listener) = cache /\ Ahead(listener)' = Brought(cache, feed[taken])
           /\ Brought(cache, feed[taken]) \in States
           /\ \A id : Heard(listener, id) <=> Met(id)
           /\ \A id : Past(listener, id) = history[Furthest(id) + 1][id]
           /\ \A id : Heard(listener, id)' <=> MetBy(taken, id)
           /\ \A id : Past(listener, id)' = history[FurthestAt(taken, id) + 1][id]
  <1>1. /\ history' = history /\ log' = log /\ found' = found /\ readAt' = readAt
        /\ stage = "before" /\ stage' = "before" /\ taken' = taken /\ cache' = cache
        /\ listener \in todo /\ listener \notin todo'
    BY DEF Turn, startupVars, mongoVars
  <1>2. feed' = feed
    BY <1>1 DEF Turn, startupVars, feed
  <1>3. taken \in 1..Len(feed) /\ taken = Applied + 1 /\ Applied \in Nat
    BY <1>1, FeedFacts
  <1>4. feed[taken] \in Events /\ cache \in States
    BY <1>3, FeedEvent DEF StartupInv, ListenerOK
  <1>5. ToldBy(listener) = Applied /\ ToldBy(listener)' = taken
    BY <1>1 DEF ToldBy, Applied
  <1>6. Ahead(listener) = cache /\ Ahead(listener)' = Brought(cache, feed[taken])
    BY <1>1, <1>2 DEF Ahead, Brought, After
  <1>7. Brought(cache, feed[taken]) \in States
    BY <1>4, BroughtFacts
  <1>8. ASSUME NEW id
        PROVE  /\ Heard(listener, id) <=> Met(id)
               /\ Past(listener, id) = history[Furthest(id) + 1][id]
    BY <1>5 DEF Heard, Met, Past, Furthest
  <1>9. ASSUME NEW id
        PROVE  Heard(listener, id)' <=> MetBy(taken, id)
    BY <1>2, <1>5 DEF Heard, MetBy
  <1>10. ASSUME NEW id
         PROVE  Past(listener, id)' = history[FurthestAt(taken, id) + 1][id]
    BY <1>1, <1>5 DEF Past, FurthestAt, StreamedAt, FoundIds
  <1> QED BY <1>3, <1>4, <1>5, <1>6, <1>7, <1>8, <1>9, <1>10

(* How far the stream is before and after the event.                       *)
LEMMA TurnStream ==
    ASSUME StartupInv, phase = "serve", taken \in 1..Len(feed), taken = Applied + 1, Applied \in Nat
    PROVE  \/ /\ taken \in 1..Len(found) /\ feed[taken] = found[taken]
              /\ \A id : FurthestAt(taken, id) = Furthest(id)
           \/ \E m \in 1..Len(log) :
                 /\ taken > Len(found) /\ m = taken - Len(found)
                 /\ m \in Nat /\ feed[taken] = log[m]
                 /\ history[m] \in States /\ history[m + 1] \in States
                 /\ Did(history[m], history[m + 1], log[m])
                 /\ StreamedAt(taken) = m /\ Streamed = m - 1
                 /\ \A id \in Ids : readAt[id] \in Nat
                 /\ history[Streamed + 1] = history[m]
  <1>1. /\ Len(found) \in Nat /\ Len(log) \in Nat /\ Len(feed) = Len(found) + Len(log)
        /\ \A k \in 1..Len(found) : feed[k] = found[k]
        /\ \A k \in (Len(found) + 1)..Len(feed) :
              feed[k] = log[k - Len(found)] /\ k - Len(found) \in 1..Len(log)
    BY FeedFacts
  <1>2. CASE taken <= Len(found)
    <2>1. taken \in 1..Len(found) /\ feed[taken] = found[taken]
      BY <1>1, <1>2
    <2>2. StreamedAt(taken) = 0 /\ StreamedAt(Applied) = 0
      BY <1>1, <1>2 DEF StreamedAt
    <2> QED BY <2>1, <2>2 DEF FurthestAt, Furthest
  <1>3. CASE taken > Len(found)
    <2> DEFINE m == taken - Len(found)
    <2>1. taken \in (Len(found) + 1)..Len(feed)
      BY <1>1, <1>3
    <2>2. /\ m \in 1..Len(log) /\ m \in Nat /\ feed[taken] = log[m]
          /\ m \in 1..(Len(log) + 1) /\ m + 1 \in 1..(Len(log) + 1)
      BY <1>1, <2>1
    <2>3. StreamedAt(taken) = m /\ Streamed = m - 1
      BY <1>1, <1>3 DEF StreamedAt, Streamed
    <2> HIDE DEF m
    <2>4. /\ history[m] \in States /\ history[m + 1] \in States
          /\ Did(history[m], history[m + 1], log[m])
      BY <2>2, RecordedFacts DEF StartupInv, Recorded, EventsOK
    <2>5. history[Streamed + 1] = history[m]
      BY <2>2, <2>3
    <2>6. \A id \in Ids : readAt[id] \in Nat
      BY DEF StartupInv, ReadingOK
    <2> QED BY <1>3, <2>2, <2>3, <2>4, <2>5, <2>6 DEF m
  <1> QED BY <1>1, <1>2, <1>3

(* Between two values of a document there is nothing if they are the same. *)
LEMMA BetweenFacts ==
    ASSUME NEW doc \in Docs \cup {NoDoc}, NEW now \in Docs \cup {NoDoc}, NEW seen \in Docs \cup {NoDoc}
    PROVE  /\ Between(doc, now, now) => doc = now
           /\ doc # NoDoc /\ Between(doc, NoDoc, seen) => doc = seen
  BY DEF Between, Docs

(* The states the cache may show of a document at the turn of an index.    *)
LEMMA TurnReplay ==
    ASSUME AllFollowed, StartupInv, phase = "serve", NEW id \in Ids
    PROVE  /\ IF Met(id) THEN Between(cache[id], history[Streamed + 1][id], history[Furthest(id) + 1][id])
              ELSE cache[id] = NoDoc
           /\ cache[id] \in Docs \cup {NoDoc}
           /\ history[Streamed + 1][id] \in Docs \cup {NoDoc}
           /\ history[Furthest(id) + 1][id] \in Docs \cup {NoDoc}
           /\ readAt[id] \in Nat /\ readAt[id] + 1 \in 1..Len(history)
           /\ history[readAt[id] + 1][id] \in Docs \cup {NoDoc}
  <1>1. Streamed \in 0..Len(log) /\ Len(log) \in Nat /\ readAt[id] \in 0..Len(log)
    BY FeedFacts DEF StartupInv, ReadingOK
  <1>2. Furthest(id) \in 0..Len(log)
    BY <1>1 DEF Furthest, FurthestAt, Streamed
  <1>3. Len(history) = Len(log) + 1 /\ \A k \in 1..Len(history) : history[k] \in States
    BY RecordedFacts DEF StartupInv
  <1>4. /\ Streamed + 1 \in 1..Len(history) /\ Furthest(id) + 1 \in 1..Len(history)
        /\ readAt[id] + 1 \in 1..Len(history)
    BY <1>1, <1>2, <1>3
  <1> QED BY <1>1, <1>3, <1>4 DEF StartupInv, ReplayOK, ListenerOK, States

(* What an index has heard of when it is told of one event more.           *)
LEMMA HeardGrows ==
    ASSUME StartupInv, phase = "serve", NEW listener, Turn(listener), NEW id
    PROVE  Heard(listener, id)' <=> \/ Heard(listener, id)
                                    \/ feed[taken].op = "insert" /\ feed[taken].id = id
  <1>1. /\ Heard(listener, id) <=> MetBy(Applied, id)
        /\ Heard(listener, id)' <=> MetBy(taken, id)
        /\ taken = Applied + 1 /\ Applied \in Nat
    BY TurnPlace DEF Met
  <1>2. \A k : k \in 1..taken <=> k \in 1..Applied \/ k = taken
    BY <1>1
  <1> QED BY <1>1, <1>2 DEF MetBy

(* A document is added while the index has it: only a replay does so, of   *)
(* the insertion of a document that had been found as it was afterwards.   *)
LEMMA AddedAgain ==
    ASSUME AllFollowed, StartupInv, phase = "serve", NEW listener, Turn(listener),
           NEW id \in Ids, feed[taken].id = id, feed[taken].op = "insert", Heard(listener, id),
           NEW key, NEW from, Has(cache[id], key, from) \/ Has(Past(listener, id), key, from)
    PROVE  Twice(id, key, from) /\ Has(Past(listener, id)', key, from)
  <1> DEFINE e == feed[taken]
  <1>1. /\ taken \in 1..Len(feed) /\ taken = Applied + 1 /\ Applied \in Nat
        /\ e \in Events /\ Met(id)
        /\ Past(listener, id) = history[Furthest(id) + 1][id]
    BY TurnPlace
  <1>2. Past(listener, id)' = history[FurthestAt(taken, id) + 1][id]
    <2>1. \A x : Past(listener, x)' = history[FurthestAt(taken, x) + 1][x]
      BY TurnPlace
    <2> QED BY <2>1
  <1>3. PICK k \in 1..Applied : feed[k].op = "insert" /\ feed[k].id = id
    BY <1>1 DEF Met, MetBy
  <1>4. /\ Len(found) \in Nat
        /\ \A j \in 1..Len(found) : feed[j] = found[j]
    BY FeedFacts
  <1>5. ~ (taken \in 1..Len(found))
    <2> SUFFICES ASSUME taken \in 1..Len(found) PROVE FALSE
      OBVIOUS
    <2>1. k \in 1..Len(found) /\ k # taken
      BY <1>1, <1>4
    <2>2. found[k].id = found[taken].id
      BY <1>3, <1>4, <2>1
    <2> QED BY <2>1, <2>2 DEF StartupInv, FoundOK
  <1>6. PICK m \in 1..Len(log) :
           /\ m \in Nat /\ e = log[m] /\ Did(history[m], history[m + 1], log[m])
           /\ StreamedAt(taken) = m /\ Streamed = m - 1
           /\ history[Streamed + 1] = history[m]
    BY <1>1, <1>5, TurnStream
  <1>7. history[Streamed + 1][id] = NoDoc
    BY <1>6 DEF Did
  <1>8. /\ Between(cache[id], NoDoc, history[Furthest(id) + 1][id])
        /\ cache[id] \in Docs \cup {NoDoc} /\ readAt[id] \in Nat
        /\ history[Furthest(id) + 1][id] \in Docs \cup {NoDoc}
        /\ NoDoc \in Docs \cup {NoDoc}
    BY <1>1, <1>7, TurnReplay
  <1>9. history[Furthest(id) + 1][id] # NoDoc /\ Has(history[Furthest(id) + 1][id], key, from)
    BY <1>1, <1>8, BetweenFacts DEF Has
  <1> HIDE DEF e
  <1>10. id \in FoundIds /\ readAt[id] >= m /\ Furthest(id) = readAt[id]
    <2>1. Furthest(id) # Streamed
      BY <1>7, <1>9
    <2>2. id \in FoundIds /\ readAt[id] > Streamed /\ Furthest(id) = readAt[id]
      BY <2>1 DEF Furthest, FurthestAt, Streamed
    <2> QED BY <1>6, <1>8, <2>2
  <1>11. FurthestAt(taken, id) = readAt[id]
    BY <1>6, <1>8, <1>10 DEF FurthestAt
  <1>12. PICK j \in 1..Len(found) : found[j].id = id
    BY <1>10 DEF FoundIds
  <1>13. found[j].fields = history[readAt[id] + 1][id]
    BY <1>12 DEF StartupInv, FoundOK
  <1>14. Has(found[j].fields, key, from)
    BY <1>9, <1>10, <1>13
  <1>15. m \in 1..readAt[found[j].id]
    BY <1>6, <1>8, <1>10, <1>12
  <1>16. Twice(id, key, from)
    BY <1>6, <1>12, <1>14, <1>15 DEF Twice, e
  <1> QED BY <1>2, <1>9, <1>10, <1>11, <1>16 DEF e

(* What was true of a document is true of it when the event is passed, but *)
(* for the document that the event changes.                                *)
LEMMA HolderAfter ==
    ASSUME AllFollowed, StartupInv, phase = "serve", NEW listener, Turn(listener),
           NEW id \in Ids, NEW key, NEW from, Holder(listener, id, key, from)
    PROVE  /\ Heard(listener, id)'
           /\ \/ Has(Past(listener, id)', key, from)
              \/ /\ Has(cache[id], key, from)
                 /\ id = feed[taken].id => feed[taken].op # "insert"
  <1> DEFINE e == feed[taken]
  <1>1. /\ taken \in 1..Len(feed) /\ taken = Applied + 1 /\ Applied \in Nat
        /\ e \in Events /\ Ahead(listener) = cache
        /\ Past(listener, id) = history[Furthest(id) + 1][id]
        /\ Met(id) <=> Heard(listener, id)
    BY TurnPlace
  <1>2. Past(listener, id)' = history[FurthestAt(taken, id) + 1][id]
    <2>1. \A x : Past(listener, x)' = history[FurthestAt(taken, x) + 1][x]
      BY TurnPlace
    <2> QED BY <2>1
  <1>3. Heard(listener, id) /\ (Has(cache[id], key, from) \/ Has(Past(listener, id), key, from))
    BY <1>1 DEF Holder
  <1>4. Heard(listener, id)'
    BY <1>3, HeardGrows
  <1>5. CASE id = e.id /\ e.op = "insert"
    BY <1>3, <1>4, <1>5, AddedAgain
  <1>6. CASE ~ (id = e.id /\ e.op = "insert")
    <2> SUFFICES ASSUME Has(Past(listener, id), key, from)
                 PROVE  Has(Past(listener, id)', key, from) \/ Has(cache[id], key, from)
      BY <1>3, <1>4, <1>6
    <2>1. CASE FurthestAt(taken, id) = Furthest(id)
      BY <1>1, <1>2, <2>1
    <2>2. CASE FurthestAt(taken, id) # Furthest(id)
      <3>1. PICK m \in 1..Len(log) :
               /\ m \in Nat /\ e = log[m] /\ Did(history[m], history[m + 1], log[m])
               /\ StreamedAt(taken) = m /\ Streamed = m - 1
               /\ readAt[id] \in Nat
               /\ history[Streamed + 1] = history[m]
        BY <1>1, <2>2, TurnStream
      <3>2. Furthest(id) = Streamed /\ FurthestAt(taken, id) = m
        BY <2>2, <3>1 DEF Furthest, FurthestAt, Streamed
      <3>3. CASE id = e.id
        <4>1. /\ Between(cache[id], history[Streamed + 1][id], history[Streamed + 1][id])
              /\ cache[id] \in Docs \cup {NoDoc} /\ history[Streamed + 1][id] \in Docs \cup {NoDoc}
          BY <1>1, <1>3, <3>2, TurnReplay
        <4>2. cache[id] = history[Furthest(id) + 1][id]
          BY <3>2, <4>1, BetweenFacts
        <4> QED BY <1>1, <4>2
      <3>4. CASE id # e.id
        <4>1. history[m + 1][id] = history[m][id]
          BY <3>1, <3>4 DEF Did
        <4> QED BY <1>1, <1>2, <3>1, <3>2, <4>1
      <3> QED BY <3>3, <3>4
    <2> QED BY <2>1, <2>2
  <1> QED BY <1>5, <1>6

-----------------------------------------------------------------------------
(* The index is told of nothing, and what the writers add does not matter. *)
Still(listener) ==
    /\ phase' = "serve" /\ found' = found /\ readAt' = readAt
    /\ Len(log') \in Nat /\ Len(log) <= Len(log') /\ \A k \in 1..Len(log) : log'[k] = log[k]
    /\ taken' \in Nat /\ taken <= taken'
    /\ \A k \in 1..Len(feed) : feed'[k] = feed[k]
    /\ \A k \in 1..(Len(log) + 1) : history'[k] = history[k]
    /\ ToldBy(listener)' = ToldBy(listener)
    /\ Ahead(listener)' = Ahead(listener)

(* Who has a key, to an index that is not told of anything, stays as it is. *)
LEMMA StillHolder ==
    ASSUME StartupInv, phase = "serve", NEW listener, Still(listener)
    PROVE  /\ Ahead(listener)' = Ahead(listener)
           /\ \A id \in Ids : \A key, from : Holder(listener, id, key, from)' <=> Holder(listener, id, key, from)
  <1>1. /\ Len(found) \in Nat /\ Len(log) \in Nat /\ Len(feed) = Len(found) + Len(log)
        /\ taken \in 0..Len(feed) /\ (stage = "before" => taken # 0)
    BY FeedFacts DEF StartupInv, ListenerOK
  <1> DEFINE n == ToldBy(listener)
  <1>2. n \in 0..Len(feed) /\ n' = n
    <2>1. n' = n
      BY DEF Still
    <2> QED BY <1>1, <2>1 DEF ToldBy
  <1> HIDE DEF n
  <1>3. StreamedAt(n) \in 0..Len(log)
    BY <1>1, <1>2 DEF StreamedAt
  <1>4. ASSUME NEW id \in Ids
        PROVE  (Heard(listener, id)' <=> Heard(listener, id)) /\ Past(listener, id)' = Past(listener, id)
    <2>1. readAt[id] \in 0..Len(log)
      BY DEF StartupInv, ReadingOK
    <2>2. FurthestAt(n, id) \in 0..Len(log)
      BY <1>3, <2>1 DEF FurthestAt
    <2>3. FurthestAt(n, id)' = FurthestAt(n, id)
      BY <1>2 DEF Still, FurthestAt, StreamedAt, FoundIds
    <2>4. FurthestAt(n, id) + 1 \in 1..(Len(log) + 1)
      BY <1>1, <2>2
    <2>5. Past(listener, id)' = Past(listener, id)
      BY <2>3, <2>4 DEF Past, Still, n
    <2>6. \A k \in 1..n : k \in 1..Len(feed)
      BY <1>1, <1>2
    <2>7. MetBy(n, id)' <=> MetBy(n, id)
      BY <1>2, <2>6 DEF Still, MetBy
    <2> QED BY <2>5, <2>7 DEF Heard, n
  <1>5. Ahead(listener)' = Ahead(listener)
    BY DEF Still
  <1> QED BY <1>4, <1>5 DEF Holder
-----------------------------------------------------------------------------
(* An update or a deletion in the feed is one that was made.               *)
LEMMA FeedMeant ==
    ASSUME StartupInv, phase = "serve", NEW k \in 1..Len(feed)
    PROVE  feed[k].op # "insert" => Meant(feed[k])
  <1>1. /\ Len(found) \in Nat /\ Len(log) \in Nat /\ Len(feed) = Len(found) + Len(log)
        /\ \A j \in 1..Len(found) : feed[j] = found[j]
        /\ \A j \in (Len(found) + 1)..Len(feed) :
              feed[j] = log[j - Len(found)] /\ j - Len(found) \in 1..Len(log)
    BY FeedFacts
  <1>2. CASE k \in 1..Len(found)
    BY <1>1, <1>2 DEF StartupInv, FoundOK
  <1>3. CASE k \in (Len(found) + 1)..Len(feed)
    BY <1>1, <1>3 DEF StartupInv, WritesOK
  <1> QED BY <1>1, <1>2, <1>3

(* The key the event computes from its fields is that of the document      *)
(* which the cache will have.                                              *)
LEMMA BroughtKey ==
    ASSUME AllFollowed, StartupInv, phase = "serve", NEW listener, Turn(listener),
           NEW from \in Seq(Fields), KeyKept(from), feed[taken].op = "update",
           NEW id \in Ids, feed[taken].id = id, cache[id] # NoDoc
    PROVE  /\ Brought(cache, feed[taken])[id] # NoDoc
           /\ Key(Brought(cache, feed[taken])[id], from) =
                 KeyAfter(feed[taken], Key(cache[id], from), from)
  <1>1. feed[taken] \in Events /\ cache \in States /\ taken \in 1..Len(feed)
    BY TurnPlace
  <1>2. Meant(feed[taken])
    BY <1>1, FeedMeant
  <1> PICK e \in Events : e = feed[taken]
    BY <1>1
  <1>3. /\ cache[id] \in Docs /\ Brought(cache, e)[id] = Merge(cache[id], e.fields, e.removed)
        /\ e.fields \in Docs
    BY <1>1, BroughtFacts DEF After, States, Events
  <1>4. Brought(cache, e)[id] \in Docs
    BY <1>3, MergeType
  <1>5. PICK u \in Updates : e.fields = u.set /\ e.removed = u.removed
    BY <1>2 DEF Meant
  <1>6. \A n \in 1..Len(from) : from[n] \notin e.removed
    BY <1>5 DEF KeyKept
  <1>7. Key(Brought(cache, e)[id], from) = KeyAfter(e, Key(cache[id], from), from)
    BY <1>2, <1>3, <1>4, <1>6, UpdatedKey DEF KeyKept
  <1> QED BY <1>4, <1>7, NoDocNoDocument

(* The three methods, on the event.                                        *)
UniqueMethod(e) ==
    /\ e.op = "insert" => Unique!Add(e.id, e.fields)
    /\ e.op = "update" => Unique!Update(e.id, e.fields)
    /\ e.op = "delete" => Unique!Delete(e.id)

InverseMethod(e) ==
    /\ e.op = "insert" => Inverse!Add(e.id, e.fields)
    /\ e.op = "update" => Inverse!Update(e.id, e.fields)
    /\ e.op = "delete" => Inverse!Delete(e.id)

SortedMethod(e) ==
    /\ e.op = "insert" => Sorted!Add(e.id, e.fields)
    /\ e.op = "update" => Sorted!Update(e.id, e.fields)
    /\ e.op = "delete" => Sorted!Delete(e.id)

-----------------------------------------------------------------------------
(* The unique index leads to documents that have the key, or had it when   *)
(* they were read.                                                         *)
UniqueReplayed ==
    IF phase = "serve"
    THEN /\ Keyed(Ahead("unique"))
         /\ \A key \in Keys(UniqueFrom) : unique[key] # Nil =>
               \E id \in Ids : unique[key] = id /\ Holder("unique", id, key, UniqueFrom)
    ELSE Unique!Init

(* A document is added with a key.                                         *)
LEMMA AddedKeyed ==
    ASSUME UniqueKeyed, StartupInv, phase = "serve", NEW k \in 1..Len(feed), feed[k].op = "insert"
    PROVE  Key(feed[k].fields, UniqueFrom) # <<>>
  <1>1. /\ Len(found) \in Nat /\ Len(log) \in Nat /\ Len(feed) = Len(found) + Len(log)
        /\ \A j \in 1..Len(found) : feed[j] = found[j] /\ found[j] \in Events
        /\ \A j \in (Len(found) + 1)..Len(feed) :
              feed[j] = log[j - Len(found)] /\ j - Len(found) \in 1..Len(log)
    BY FeedFacts
  <1>2. CASE k \in 1..Len(found)
    <2>1. /\ found[k] \in Events /\ found[k].id \in Ids /\ found[k].fields # NoDoc
          /\ found[k].fields = history[readAt[found[k].id] + 1][found[k].id]
      BY <1>1, <1>2, NoDocNoDocument DEF StartupInv, FoundOK, Events
    <2>2. readAt[found[k].id] \in 0..Len(log)
      BY <2>1 DEF StartupInv, ReadingOK
    <2>3. readAt[found[k].id] + 1 \in 1..Len(history)
      BY <1>1, <2>2, RecordedFacts DEF StartupInv
    <2>4. Keyed(history[readAt[found[k].id] + 1])
      BY <2>3 DEF StartupInv, WritesOK
    <2> QED BY <1>1, <1>2, <2>1, <2>4 DEF Keyed
  <1>3. CASE k \in (Len(found) + 1)..Len(feed)
    <2>1. Meant(feed[k])
      BY <1>1, <1>3 DEF StartupInv, WritesOK
    <2> QED BY <2>1 DEF Meant, UniqueKeyed
  <1> QED BY <1>1, <1>2, <1>3

(* The unique index is told: a document takes the entry of the key it is   *)
(* brought with, and one that leaves a key takes its entry along, whoever  *)
(* the entry leads to.                                                     *)
LEMMA UniqueTurn ==
    ASSUME AllFollowed, UniqueKeyed, StartupInv, phase = "serve", UniqueReplayed,
           Turn("unique"), UniqueMethod(feed[taken])
    PROVE  UniqueReplayed'
  <1>1. /\ taken \in 1..Len(feed) /\ feed[taken] \in Events /\ cache \in States
        /\ Ahead("unique") = cache /\ Ahead("unique")' = Brought(cache, feed[taken])
        /\ Brought(cache, feed[taken]) \in States
    BY TurnPlace
  <1> PICK e \in Events : e = feed[taken]
    BY <1>1
  <1> PICK id \in Ids : id = e.id
    BY DEF Events
  <1> DEFINE new == Key(e.fields, UniqueFrom)
             old == Key(cache[id], UniqueFrom)
             then == Brought(cache, e)
             H(x, key) == Holder("unique", x, key, UniqueFrom)
  <1>2. e.fields \in Docs /\ e.op \in Ops /\ cache[id] \in Docs \cup {NoDoc}
    BY <1>1 DEF Events, States
  <1>3. then[id] = After(cache[id], e) /\ \A x \in Ids \ {id} : then[x] = cache[x]
    BY <1>1, BroughtFacts
  <1>4. e.op = "insert" => new # <<>>
    BY <1>1, AddedKeyed
  <1>5. Keyed(cache) /\ (cache[id] # NoDoc => cache[id] \in Docs /\ old # <<>>)
    BY <1>1, <1>2 DEF UniqueReplayed, Keyed
  <1>6. ASSUME e.op = "update", cache[id] # NoDoc
        PROVE  then[id] # NoDoc /\ Key(then[id], UniqueFrom) = IF new = <<>> THEN old ELSE new
    <2>1. KeyKept(UniqueFrom) /\ UniqueFrom \in Seq(Fields)
      BY EntityStoreAssumption DEF KeyKept, UniqueKeyed
    <2> QED BY <1>6, <2>1, BroughtKey DEF KeyAfter
  <1> HIDE DEF then
  <1>7. Keyed(then)
    <2>1. ASSUME then[id] # NoDoc
          PROVE  Key(then[id], UniqueFrom) # <<>>
      BY <1>2, <1>3, <1>4, <1>5, <1>6, <2>1 DEF After, Ops
    <2> QED BY <1>3, <1>5, <2>1 DEF Keyed
  <1>8. ASSUME NEW x \in Ids, NEW key, H(x, key)
        PROVE  /\ H(x, key)' \/ (x = id /\ e.op # "insert" /\ Has(cache[id], key, UniqueFrom))
               /\ x = id /\ Has(then[id], key, UniqueFrom) => H(x, key)'
    <2>1. /\ Heard("unique", x)'
          /\ \/ Has(Past("unique", x)', key, UniqueFrom)
             \/ /\ Has(cache[x], key, UniqueFrom)
                /\ x = feed[taken].id => feed[taken].op # "insert"
      BY <1>8, HolderAfter
    <2>2. Ahead("unique")' = then
      BY <1>1 DEF then
    <2> QED BY <1>3, <2>1, <2>2 DEF Holder, Has
  <1>9. ASSUME NEW key \in Keys(UniqueFrom), unique[key] # Nil
        PROVE  \E x \in Ids : unique[key] = x /\ H(x, key)
    BY <1>9 DEF UniqueReplayed
  <1> SUFFICES ASSUME NEW key \in Keys(UniqueFrom), unique'[key] # Nil
               PROVE  \E x \in Ids : unique'[key] = x /\ H(x, key)'
    <2>1. phase' = "serve" /\ Keyed(Ahead("unique"))'
      BY <1>1, <1>7 DEF then, Turn, startupVars, Keyed
    <2> QED BY <2>1 DEF UniqueReplayed
  <1>10. ASSUME unique'[key] = unique[key],
                unique[key] = id /\ e.op # "insert" /\ Has(cache[id], key, UniqueFrom)
                   => Has(then[id], key, UniqueFrom)
         PROVE  \E x \in Ids : unique'[key] = x /\ H(x, key)'
    <2>1. PICK x \in Ids : unique[key] = x /\ H(x, key)
      BY <1>9, <1>10
    <2>2. H(x, key)'
      BY <1>8, <1>10, <2>1
    <2> QED BY <1>10, <2>1, <2>2
  <1>11. CASE e.op = "insert"
    <2>1. unique'[key] = IF key = new THEN id ELSE unique[key]
      BY <1>2, <1>4, <1>11, UniqueMethods DEF UniqueMethod
    <2>2. CASE key = new
      <3>1. Ahead("unique")'[id] = e.fields /\ e.fields # NoDoc
        BY <1>1, <1>2, <1>3, <1>11, NoDocNoDocument DEF After, then
      <3>2. Heard("unique", id)'
        BY <1>11, HeardGrows
      <3>3. H(id, key)'
        BY <2>2, <3>1, <3>2 DEF Holder, Has
      <3> QED BY <2>1, <2>2, <3>3
    <2> QED BY <1>10, <1>11, <2>1, <2>2
  <1>12. CASE e.op = "update" /\ cache[id] # NoDoc
    <2>1. Has(then[id], key, UniqueFrom) <=> key = IF new = <<>> THEN old ELSE new
      BY <1>6, <1>12 DEF Has
    <2>2. Has(cache[id], key, UniqueFrom) <=> key = old
      BY <1>12 DEF Has
    <2>3. CASE new = <<>>
      <3>1. unique' = unique
        BY <1>2, <1>5, <1>12, <2>3, UniqueMethods DEF UniqueMethod
      <3> QED BY <1>10, <2>1, <2>2, <2>3, <3>1
    <2>4. CASE new # <<>>
      <3>1. unique'[key] = IF key = new /\ key # old THEN id
                           ELSE IF key = old /\ key # new THEN Nil
                           ELSE unique[key]
        BY <1>2, <1>5, <1>12, <2>4, UniqueMethods DEF UniqueMethod
      <3>2. CASE key = new /\ key # old
        <4>1. Has(Ahead("unique")'[id], key, UniqueFrom)
          BY <1>1, <2>1, <2>4, <3>2 DEF then
        <4>2. Heard("unique", id)'
          <5>1. Met(id)
            BY <1>12, TurnReplay
          <5>2. Heard("unique", id)
            BY <5>1, TurnPlace
          <5> QED BY <5>2, HeardGrows
        <4> QED BY <3>1, <3>2, <4>1, <4>2 DEF Holder
      <3> QED BY <1>10, <2>1, <2>2, <2>4, <3>1, <3>2
    <2> QED BY <2>3, <2>4
  <1>13. CASE e.op # "insert" /\ cache[id] = NoDoc
    <2>1. unique' = unique
      BY <1>2, <1>13 DEF UniqueMethod, Unique!Update, Unique!Delete, Ops
    <2> QED BY <1>10, <1>13, <2>1 DEF Has
  <1>14. CASE e.op = "delete" /\ cache[id] # NoDoc
    <2>1. unique'[key] = IF key = old THEN Nil ELSE unique[key]
      BY <1>2, <1>5, <1>14, UniqueMethods DEF UniqueMethod
    <2> QED BY <1>10, <2>1 DEF Has
  <1> QED BY <1>2, <1>11, <1>12, <1>13, <1>14 DEF Ops

(* What the unique index leads to when the stream has come to the reading  *)
(* of all documents.                                                       *)
LEMMA HolderIsCached ==
    ASSUME AllFollowed, StartupInv, phase = "serve", stage = "idle", NEW listener,
           NEW id \in Ids, Replayed >= 0, readAt[id] <= Replayed, NEW key, NEW from,
           Holder(listener, id, key, from)
    PROVE  Has(cache[id], key, from)
  <1>1. /\ Applied = taken /\ ToldBy(listener) = Applied /\ Ahead(listener) = cache
        /\ Replayed = Applied - Len(found)
    BY DEF Applied, ToldBy, Ahead, Replayed
  <1>2. /\ Applied \in Nat /\ Len(found) \in Nat
    BY FeedFacts
  <1>3. Streamed = Replayed /\ Streamed \in Int
    BY <1>1, <1>2 DEF Streamed, StreamedAt
  <1>4. Furthest(id) = Streamed
    BY <1>3, TurnReplay DEF Furthest, FurthestAt, Streamed
  <1>5. Met(id) /\ (Has(cache[id], key, from) \/ Has(history[Furthest(id) + 1][id], key, from))
    BY <1>1 DEF Holder, Heard, Past, Met, Furthest
  <1>6. cache[id] = history[Furthest(id) + 1][id]
    BY <1>4, <1>5, TurnReplay, BetweenFacts
  <1> QED BY <1>5, <1>6
-----------------------------------------------------------------------------
(* Whom the unique index misses.  The entry of a document goes when another*)
(* that had the key before gives it up, or had it when it was read.  A     *)
(* replayed insertion or update brings it back, but for the update that    *)
(* finds the key in the document, because the query has read it there.  By *)
(* then the other has had the key before the update; or it will have it,   *)
(* where it was read, and the document will have another.                  *)

(* The document was read with the key, and the stream is not as far.       *)
SeenWith(s, id, key) ==
    id \in FoundIds /\ readAt[id] > s /\ HasKey(history[readAt[id] + 1][id], key)

(* Another has had the key where the stream has been, or where it was read.*)
AlsoHad(s, id, key) ==
    \E other \in Ids \ {id} : \/ \E n \in 1..(s + 1) : HasKey(history[n][other], key)
                              \/ HasKey(history[readAt[other] + 1][other], key)

(* Another will have it, where it was read.                                *)
Coming(s, id, key) ==
    \E other \in Ids \ {id} : readAt[other] > s /\ HasKey(history[readAt[other] + 1][other], key)

(* PassedOver, where the stream has come to the write s.                   *)
PassedBy(s, id, key) ==
    \E j \in 1..Len(found) : \E k \in 1..readAt[id] :
       /\ found[j].id = id
       /\ k \in 1..Len(log) /\ log[k].op = "update" /\ log[k].id = id
       /\ Key(log[k].fields, UniqueFrom) = key
       /\ \E n \in 1..k, other \in Ids \ {id} : HasKey(history[n][other], key)
       /\ \A n \in k..s : HasKey(history[n + 1][id], key)

Entered(index, s, id, key) ==
    /\ HasKey(history[s + 1][id], key) \/ SeenWith(s, id, key)
    /\ index[key] = id \/ AlsoHad(s, id, key)
    /\ HasKey(history[s + 1][id], key) =>
          index[key] = id \/ PassedBy(s, id, key) \/ Coming(s, id, key)

AllEntered(index, docs, s) ==
    \A id \in Ids, key \in Keys(UniqueFrom) : HasKey(docs[id], key) => Entered(index, s, id, key)

UniqueEntered ==
    phase = "serve" =>
       \E index, docs, s :
          /\ index = unique /\ docs = Ahead("unique") /\ s = StreamedAt(ToldBy("unique"))
          /\ AllEntered(index, docs, s)

(* What an event does to the entry of a key.                               *)
Moves(index, next, docs, e) ==
    \A key \in Keys(UniqueFrom) :
       LET had == HasKey(docs[e.id], key)
           has == HasKey(Brought(docs, e)[e.id], key)
       IN /\ has => next[key] = IF had /\ e.op # "insert" THEN index[key] ELSE e.id
          /\ ~ has /\ ~ had => next[key] = index[key]

(* Only one document has a key.                                            *)
LEMMA OneHasKey ==
    ASSUME UniqueKeyed, StartupInv, NEW n \in 1..Len(history), NEW key \in Keys(UniqueFrom),
           NEW x \in Ids, NEW y \in Ids, HasKey(history[n][x], key), HasKey(history[n][y], key)
    PROVE  x = y
  <1>1. history[n] \in States /\ Apart(history[n])
    BY RecordedFacts DEF StartupInv, WritesOK
  <1>2. Unlike(history[n])
    BY <1>1, ApartUnlike
  <1> QED BY <1>2 DEF Unlike

(* The places in the history.                                              *)
LEMMA ReadPlaces ==
    ASSUME StartupInv, phase = "serve"
    PROVE  /\ Len(log) \in Nat /\ Len(history) = Len(log) + 1 /\ Len(found) \in Nat
           /\ \A id \in Ids : readAt[id] \in 0..Len(log)
  BY RecordedFacts DEF StartupInv, ReadingOK, FoundOK

(* The query's result is loaded, document by document.                     *)
LEMMA EnteredLoading ==
    ASSUME UniqueKeyed, StartupInv, phase = "serve", NEW docs \in States, NEW index, NEW next,
           NEW t \in 1..Len(found), AllEntered(index, docs, 0), Moves(index, next, docs, found[t])
    PROVE  AllEntered(next, Brought(docs, found[t]), 0)
  <1>1. /\ Len(log) \in Nat /\ Len(history) = Len(log) + 1
        /\ \A x \in Ids : readAt[x] \in 0..Len(log)
        /\ found[t] \in Events /\ Len(found) \in Nat
    BY ReadPlaces, FeedFacts
  <1> PICK e \in Events : e = found[t]
    BY <1>1
  <1> PICK y \in Ids : y = e.id
    BY DEF Events
  <1> DEFINE then == Brought(docs, e)
  <1>2. /\ e.op = "insert" /\ y \in FoundIds /\ then[y] = history[readAt[y] + 1][y]
        /\ \A x \in Ids \ {y} : then[x] = docs[x]
    <2>1. e.op = "insert" /\ e.fields = history[readAt[y] + 1][y] /\ y \in FoundIds
      BY DEF StartupInv, FoundOK, FoundIds
    <2> QED BY <2>1, BroughtFacts DEF After
  <1>3. \A key \in Keys(UniqueFrom) :
           /\ HasKey(then[y], key) => next[key] = y
           /\ ~ HasKey(then[y], key) /\ ~ HasKey(docs[y], key) => next[key] = index[key]
    BY <1>2 DEF Moves
  <1> HIDE DEF then
  <1>4. ASSUME NEW key \in Keys(UniqueFrom), HasKey(then[y], key)
        PROVE  Entered(next, 0, y, key)
    <2>1. HasKey(history[0 + 1][y], key) \/ SeenWith(0, y, key)
      BY <1>1, <1>2, <1>4 DEF SeenWith
    <2> QED BY <1>3, <1>4, <2>1 DEF Entered
  <1>5. ASSUME NEW key \in Keys(UniqueFrom), HasKey(then[y], key) \/ HasKey(docs[y], key)
        PROVE  \/ HasKey(history[0 + 1][y], key)
               \/ readAt[y] > 0 /\ HasKey(history[readAt[y] + 1][y], key)
    <2>1. CASE HasKey(then[y], key)
      BY <1>1, <1>2, <2>1
    <2>2. CASE HasKey(docs[y], key)
      BY <2>2 DEF AllEntered, Entered, SeenWith
    <2> QED BY <1>5, <2>1, <2>2
  <1>6. ASSUME NEW x \in Ids \ {y}, NEW key \in Keys(UniqueFrom), HasKey(then[x], key)
        PROVE  Entered(next, 0, x, key)
    <2>1. Entered(index, 0, x, key)
      BY <1>2, <1>6 DEF AllEntered
    <2>2. CASE ~ HasKey(then[y], key) /\ ~ HasKey(docs[y], key)
      BY <1>3, <2>1, <2>2 DEF Entered
    <2>3. CASE HasKey(then[y], key) \/ HasKey(docs[y], key)
      <3>1. AlsoHad(0, x, key)
        <4>1. 0 + 1 \in 1..(0 + 1) /\ y \in Ids \ {x}
          OBVIOUS
        <4> QED BY <1>5, <2>3, <4>1 DEF AlsoHad
      <3>2. ASSUME HasKey(history[0 + 1][x], key)
            PROVE  Coming(0, x, key)
        <4>1. 0 + 1 \in 1..Len(history)
          BY <1>1
        <4>2. ~ HasKey(history[0 + 1][y], key)
          BY <1>6, <3>2, <4>1, OneHasKey
        <4> QED BY <1>5, <2>3, <4>2 DEF Coming
      <3> QED BY <2>1, <3>1, <3>2 DEF Entered
    <2> QED BY <2>2, <2>3
  <1> QED BY <1>4, <1>6 DEF AllEntered, then

(* What an event of the stream makes of the keys of its document, in the   *)
(* cache and in the collection.                                            *)
LEMMA EventKeys ==
    ASSUME AllFollowed, UniqueKeyed, StartupInv, phase = "serve", NEW docs \in States,
           NEW m \in 1..Len(log), NEW e \in Events, e = log[m], NEW y \in Ids, y = e.id,
           NEW key \in Keys(UniqueFrom), HasKey(Brought(docs, e)[y], key)
    PROVE  \/ e.op = "insert" /\ HasKey(history[m + 1][y], key)
           \/ /\ e.op = "update" /\ Key(e.fields, UniqueFrom) = key
              /\ HasKey(history[m + 1][y], key)
           \/ /\ e.op = "update" /\ HasKey(docs[y], key)
              /\ HasKey(history[m + 1][y], key) <=> HasKey(history[m][y], key)
  <1>1. /\ Len(log) \in Nat /\ Len(history) = Len(log) + 1
        /\ Did(history[m], history[m + 1], e) /\ Meant(e)
    BY RecordedFacts DEF StartupInv, Recorded, EventsOK, WritesOK
  <1>2. m \in 1..Len(history) /\ m + 1 \in 1..Len(history)
    BY <1>1
  <1> PICK before \in States, after \in States : before = history[m] /\ after = history[m + 1]
    BY <1>2, RecordedFacts DEF StartupInv
  <1>3. Did(before, after, e) /\ Brought(docs, e)[y] = After(docs[y], e)
    BY <1>1, BroughtFacts
  <1>4. e.op \in Ops /\ e.fields \in Docs
    BY DEF Events
  <1>5. CASE e.op = "insert"
    BY <1>3, <1>5 DEF Did, After, HasKey
  <1>6. CASE e.op = "delete"
    BY <1>3, <1>6 DEF After, HasKey
  <1>7. CASE e.op = "update"
    <2> DEFINE doc == Brought(docs, e)[y]
    <2>1. /\ docs[y] # NoDoc /\ before[y] # NoDoc /\ after[y] # NoDoc
          /\ docs[y] \in Docs /\ before[y] \in Docs /\ after[y] \in Docs
          /\ doc = Merge(docs[y], e.fields, e.removed)
      BY <1>3, <1>7 DEF Did, After, HasKey, States
    <2>2. doc \in Docs
      BY <1>4, <2>1, MergeType
    <2>3. UniqueFrom \in Seq(Fields) /\ Whole(UniqueFrom) /\ \A n \in 1..Len(UniqueFrom) : UniqueFrom[n] \notin e.removed
      BY <1>1, <1>7, EntityStoreAssumption DEF Meant, UniqueKeyed
    <2>4. Key(after[y], UniqueFrom) = KeyAfter(e, Key(before[y], UniqueFrom), UniqueFrom)
      BY <1>1, <1>3, <1>7, <2>1, <2>3, UpdatedKey DEF Did
    <2>5. Key(doc, UniqueFrom) = KeyAfter(e, Key(docs[y], UniqueFrom), UniqueFrom)
      BY <1>1, <1>7, <2>1, <2>2, <2>3, UpdatedKey
    <2> HIDE DEF doc
    <2>6. HasKey(doc, key)
      BY DEF doc
    <2> QED BY <1>7, <2>1, <2>4, <2>5, <2>6 DEF KeyAfter, HasKey
  <1> QED BY <1>4, <1>5, <1>6, <1>7 DEF Ops

(* An event later.                                                         *)
LEMMA Later ==
    ASSUME UniqueKeyed, StartupInv, phase = "serve", NEW m \in 1..Len(log),
           NEW id \in Ids, NEW key \in Keys(UniqueFrom)
    PROVE  /\ AlsoHad(m - 1, id, key) => AlsoHad(m, id, key)
           /\ SeenWith(m - 1, id, key) => SeenWith(m, id, key) \/ HasKey(history[m + 1][id], key)
           /\ HasKey(history[m + 1][id], key) =>
                 /\ PassedBy(m - 1, id, key) => PassedBy(m, id, key)
                 /\ Coming(m - 1, id, key) => Coming(m, id, key)
  <1>1. /\ Len(log) \in Nat /\ Len(history) = Len(log) + 1 /\ m \in Nat
        /\ \A x \in Ids : readAt[x] \in Nat
        /\ m + 1 \in 1..Len(history)
    BY ReadPlaces
  <1>2. AlsoHad(m - 1, id, key) => AlsoHad(m, id, key)
    <2>1. \A n \in 1..((m - 1) + 1) : n \in 1..(m + 1)
      BY <1>1
    <2> QED BY <2>1 DEF AlsoHad
  <1>3. SeenWith(m - 1, id, key) => SeenWith(m, id, key) \/ HasKey(history[m + 1][id], key)
    <2>1. readAt[id] > m - 1 => readAt[id] > m \/ readAt[id] = m
      BY <1>1
    <2> QED BY <2>1 DEF SeenWith
  <1>4. ASSUME HasKey(history[m + 1][id], key), PassedBy(m - 1, id, key)
        PROVE  PassedBy(m, id, key)
    <2>1. \A k \in 1..readAt[id] : \A n \in k..m : n \in k..(m - 1) \/ n = m
      BY <1>1
    <2> QED BY <1>4, <2>1 DEF PassedBy
  <1>5. ASSUME HasKey(history[m + 1][id], key), Coming(m - 1, id, key)
        PROVE  Coming(m, id, key)
    <2>1. PICK other \in Ids \ {id} : readAt[other] > m - 1 /\ HasKey(history[readAt[other] + 1][other], key)
      BY <1>5 DEF Coming
    <2>2. readAt[other] # m
      BY <1>1, <1>5, <2>1, OneHasKey
    <2>3. readAt[other] > m
      BY <1>1, <2>1, <2>2
    <2> QED BY <2>1, <2>3 DEF Coming
  <1> QED BY <1>2, <1>3, <1>4, <1>5

(* An update gives the document a key it was read with: whoever else has   *)
(* had it has had it before, or is still to have it.                       *)
LEMMA GivenAgain ==
    ASSUME UniqueKeyed, StartupInv, phase = "serve", NEW m \in 1..Len(log),
           NEW id \in Ids, NEW key \in Keys(UniqueFrom),
           log[m].op = "update", log[m].id = id, Key(log[m].fields, UniqueFrom) = key,
           HasKey(history[m + 1][id], key), SeenWith(m - 1, id, key), AlsoHad(m - 1, id, key)
    PROVE  PassedBy(m, id, key) \/ Coming(m, id, key)
  <1>1. /\ Len(log) \in Nat /\ Len(history) = Len(log) + 1 /\ m \in Nat
        /\ \A x \in Ids : readAt[x] \in Nat
        /\ m + 1 \in 1..Len(history)
    BY ReadPlaces
  <1>2. PICK other \in Ids \ {id} : \/ \E n \in 1..((m - 1) + 1) : HasKey(history[n][other], key)
                                    \/ HasKey(history[readAt[other] + 1][other], key)
    BY DEF AlsoHad
  <1>3. ASSUME NEW n \in 1..m, HasKey(history[n][other], key)
        PROVE  PassedBy(m, id, key)
    <2>1. PICK j \in 1..Len(found) : found[j].id = id
      BY DEF SeenWith, FoundIds
    <2>2. m \in 1..readAt[id]
      BY <1>1 DEF SeenWith
    <2>3. \A k \in m..m : HasKey(history[k + 1][id], key)
      BY <1>1
    <2> QED BY <1>3, <2>1, <2>2, <2>3 DEF PassedBy
  <1>4. CASE \E n \in 1..((m - 1) + 1) : HasKey(history[n][other], key)
    <2>1. \A n \in 1..((m - 1) + 1) : n \in 1..m
      BY <1>1
    <2> QED BY <1>3, <1>4, <2>1
  <1>5. CASE HasKey(history[readAt[other] + 1][other], key)
    <2>1. CASE readAt[other] < m
      <3>1. readAt[other] + 1 \in 1..m
        BY <1>1, <2>1
      <3> QED BY <1>3, <1>5, <3>1
    <2>2. CASE readAt[other] = m
      BY <1>1, <1>5, <2>2, OneHasKey
    <2>3. CASE readAt[other] > m
      BY <1>5, <2>3 DEF Coming
    <2> QED BY <1>1, <2>1, <2>2, <2>3
  <1> QED BY <1>2, <1>4, <1>5

(* The stream brings an event.                                             *)
LEMMA EnteredEvent ==
    ASSUME AllFollowed, UniqueKeyed, StartupInv, phase = "serve",
           NEW docs \in States, NEW index, NEW next, NEW m \in 1..Len(log),
           AllEntered(index, docs, m - 1), Moves(index, next, docs, log[m])
    PROVE  AllEntered(next, Brought(docs, log[m]), m)
  <1>1. /\ Len(log) \in Nat /\ Len(history) = Len(log) + 1 /\ m \in Nat
        /\ \A x \in Ids : readAt[x] \in Nat
        /\ m \in 1..Len(history) /\ m + 1 \in 1..Len(history)
        /\ m \in 1..(m + 1) /\ m + 1 \in 1..(m + 1)
        /\ log[m] \in Events /\ Did(history[m], history[m + 1], log[m])
    BY ReadPlaces, RecordedFacts DEF StartupInv, Recorded, EventsOK
  <1> PICK e \in Events : e = log[m]
    BY <1>1
  <1> PICK y \in Ids : y = e.id
    BY DEF Events
  <1> PICK before, after : before = history[m] /\ after = history[m + 1] /\ before = history[(m - 1) + 1]
    BY <1>1
  <1> DEFINE then == Brought(docs, e)
  <1>2. \A x \in Ids \ {y} : then[x] = docs[x] /\ after[x] = before[x]
    BY <1>1, BroughtFacts DEF Did
  <1>3. \A key \in Keys(UniqueFrom) :
           /\ HasKey(then[y], key) => next[key] = IF HasKey(docs[y], key) /\ e.op # "insert" THEN index[key] ELSE y
           /\ ~ HasKey(then[y], key) /\ ~ HasKey(docs[y], key) => next[key] = index[key]
    BY DEF Moves
  <1>4. \A key \in Keys(UniqueFrom) : HasKey(then[y], key) =>
           \/ e.op = "insert" /\ HasKey(after[y], key)
           \/ e.op = "update" /\ Key(e.fields, UniqueFrom) = key /\ HasKey(after[y], key)
           \/ /\ e.op = "update" /\ HasKey(docs[y], key)
              /\ HasKey(after[y], key) <=> HasKey(before[y], key)
    BY EventKeys
  <1> HIDE DEF then
  <1>5. ASSUME NEW x \in Ids, NEW key \in Keys(UniqueFrom), HasKey(docs[x], key)
        PROVE  /\ HasKey(before[x], key) \/ SeenWith(m - 1, x, key)
               /\ index[key] = x \/ AlsoHad(m - 1, x, key)
               /\ HasKey(before[x], key) =>
                     index[key] = x \/ PassedBy(m - 1, x, key) \/ Coming(m - 1, x, key)
    BY <1>5 DEF AllEntered, Entered
  <1>6. ASSUME NEW x \in Ids, NEW key \in Keys(UniqueFrom), HasKey(docs[x], key), next[key] = index[key],
               HasKey(after[x], key) <=> HasKey(before[x], key)
        PROVE  Entered(next, m, x, key)
    BY <1>5, <1>6, Later DEF Entered
  <1>7. ASSUME NEW key \in Keys(UniqueFrom), HasKey(then[y], key)
        PROVE  Entered(next, m, y, key)
    <2>1. CASE next[key] = y /\ HasKey(after[y], key)
      BY <2>1 DEF Entered
    <2>2. CASE /\ e.op = "update" /\ HasKey(docs[y], key) /\ next[key] = index[key]
               /\ Key(e.fields, UniqueFrom) = key /\ HasKey(after[y], key)
      <3>1. CASE HasKey(before[y], key)
        BY <1>6, <2>2, <3>1
      <3>2. CASE ~ HasKey(before[y], key)
        <4>1. SeenWith(m - 1, y, key) /\ (index[key] = y \/ AlsoHad(m - 1, y, key))
          BY <1>5, <2>2, <3>2
        <4>2. next[key] = y \/ AlsoHad(m, y, key)
          BY <2>2, <4>1, Later
        <4>3. next[key] = y \/ PassedBy(m, y, key) \/ Coming(m, y, key)
          BY <2>2, <4>1, GivenAgain
        <4> QED BY <2>2, <4>2, <4>3 DEF Entered
      <3> QED BY <3>1, <3>2
    <2>3. CASE /\ e.op = "update" /\ HasKey(docs[y], key) /\ next[key] = index[key]
               /\ HasKey(after[y], key) <=> HasKey(before[y], key)
      BY <1>6, <2>3
    <2> QED BY <1>3, <1>4, <1>7, <2>1, <2>2, <2>3
  <1>8. ASSUME NEW x \in Ids \ {y}, NEW key \in Keys(UniqueFrom), HasKey(then[x], key)
        PROVE  Entered(next, m, x, key)
    <2>1. HasKey(docs[x], key) /\ (HasKey(after[x], key) <=> HasKey(before[x], key))
      BY <1>2, <1>8
    <2>2. CASE ~ HasKey(then[y], key) /\ ~ HasKey(docs[y], key)
      BY <1>3, <1>6, <2>1, <2>2
    <2>3. CASE HasKey(then[y], key) \/ HasKey(docs[y], key)
      <3>1. \/ HasKey(after[y], key)
            \/ HasKey(docs[y], key) /\ (HasKey(before[y], key) \/ SeenWith(m - 1, y, key))
        BY <1>4, <1>5, <2>3
      <3>2. AlsoHad(m, x, key)
        BY <1>1, <1>8, <3>1 DEF AlsoHad, SeenWith
      <3>3. ASSUME HasKey(after[x], key)
            PROVE  Coming(m, x, key)
        <4>1. ~ HasKey(after[y], key) /\ ~ HasKey(before[y], key)
          BY <1>1, <1>8, <2>1, <3>3, OneHasKey
        <4>2. SeenWith(m, y, key)
          BY <3>1, <4>1, Later
        <4> QED BY <1>8, <4>2 DEF SeenWith, Coming
      <3>4. HasKey(after[x], key) \/ SeenWith(m, x, key)
        BY <1>5, <2>1, Later
      <3> QED BY <3>2, <3>3, <3>4 DEF Entered
    <2> QED BY <2>2, <2>3
  <1> QED BY <1>7, <1>8 DEF AllEntered, then

(* What the writers add does not matter.                                   *)
LEMMA EnteredSame ==
    ASSUME StartupInv, phase = "serve", found' = found, readAt' = readAt,
           \A k \in 1..Len(log) : log'[k] = log[k], Len(log) <= Len(log'), Len(log') \in Nat,
           \A k \in 1..(Len(log) + 1) : history'[k] = history[k],
           NEW index, NEW docs, NEW s \in 0..Len(log), AllEntered(index, docs, s)
    PROVE  AllEntered(index, docs, s)'
  <1>1. /\ Len(log) \in Nat
        /\ \A id \in Ids : readAt[id] \in 0..Len(log)
    BY ReadPlaces
  <1>2. \A id \in Ids : history'[readAt[id] + 1] = history[readAt[id] + 1]
    <2>1. \A id \in Ids : readAt[id] + 1 \in 1..(Len(log) + 1)
      BY <1>1
    <2> QED BY <2>1
  <1>3. \A n \in 1..(s + 1) : history'[n] = history[n]
    <2>1. \A n \in 1..(s + 1) : n \in 1..(Len(log) + 1)
      BY <1>1
    <2> QED BY <2>1
  <1>4. s + 1 \in 1..(s + 1)
    OBVIOUS
  <1>5. ASSUME NEW id \in Ids, NEW key
        PROVE  /\ SeenWith(s, id, key)' <=> SeenWith(s, id, key)
               /\ Coming(s, id, key)' <=> Coming(s, id, key)
               /\ AlsoHad(s, id, key) => AlsoHad(s, id, key)'
    BY <1>2, <1>3 DEF SeenWith, Coming, AlsoHad, FoundIds, HasKey
  <1>6. ASSUME NEW id \in Ids, NEW key, PassedBy(s, id, key)
        PROVE  PassedBy(s, id, key)'
    <2>1. PICK j \in 1..Len(found), k \in 1..readAt[id] :
             /\ found[j].id = id
             /\ k \in 1..Len(log) /\ log[k].op = "update" /\ log[k].id = id
             /\ Key(log[k].fields, UniqueFrom) = key
             /\ \E n \in 1..k, other \in Ids \ {id} : HasKey(history[n][other], key)
             /\ \A n \in k..s : HasKey(history[n + 1][id], key)
      BY <1>6 DEF PassedBy
    <2>2. PICK n \in 1..k, other \in Ids \ {id} : HasKey(history[n][other], key)
      BY <2>1
    <2>3. /\ k \in 1..Len(log') /\ log'[k] = log[k]
          /\ history'[n] = history[n]
      <3>1. k \in 1..Len(log) /\ k \in 1..Len(log') /\ n \in 1..(Len(log) + 1)
        BY <1>1, <2>1
      <3> QED BY <3>1
    <2>4. \A i \in k..s : HasKey(history'[i + 1][id], key)
      <3>1. \A i \in k..s : i + 1 \in 1..(s + 1)
        BY <2>1
      <3> QED BY <1>3, <2>1, <3>1
    <2>5. \E i \in 1..k, x \in Ids \ {id} : HasKey(history'[i][x], key)
      BY <2>2, <2>3
    <2>6. j \in 1..Len(found') /\ k \in 1..readAt'[id] /\ found'[j].id = id
      BY <2>1
    <2>7. log'[k].op = "update" /\ log'[k].id = id /\ Key(log'[k].fields, UniqueFrom) = key
      BY <2>1, <2>3
    <2> QED BY <2>3, <2>4, <2>5, <2>6, <2>7 DEF PassedBy, HasKey
  <1>7. \A id \in Ids : history'[s + 1][id] = history[s + 1][id]
    BY <1>3, <1>4
  <1>8. ASSUME NEW id \in Ids, NEW key \in Keys(UniqueFrom), HasKey(docs[id], key)
        PROVE  Entered(index, s, id, key)'
    <2>1. Entered(index, s, id, key)
      BY <1>8 DEF AllEntered
    <2> QED BY <1>5, <1>6, <1>7, <2>1 DEF Entered, HasKey
  <1> QED BY <1>8 DEF AllEntered, HasKey

(* The index is told of nothing.                                           *)
LEMMA EnteredStill ==
    ASSUME StartupInv, phase = "serve", UniqueEntered, Still("unique"), unique' = unique
    PROVE  UniqueEntered'
  <1>1. PICK index, docs, s :
           /\ index = unique /\ docs = Ahead("unique") /\ s = StreamedAt(ToldBy("unique"))
           /\ AllEntered(index, docs, s)
    BY DEF UniqueEntered
  <1>2. s \in 0..Len(log)
    BY <1>1, FeedFacts DEF StartupInv, ListenerOK, ToldBy, StreamedAt
  <1>3. /\ index = unique' /\ docs = Ahead("unique")'
        /\ s = StreamedAt(ToldBy("unique"))'
    BY <1>1 DEF Still, StreamedAt
  <1>4. AllEntered(index, docs, s)'
    BY <1>1, <1>2, EnteredSame DEF Still
  <1> QED BY <1>3, <1>4 DEF UniqueEntered

(* Its methods move the entries.                                           *)
LEMMA MethodMoves ==
    ASSUME AllFollowed, UniqueKeyed, StartupInv, phase = "serve", UniqueReplayed,
           Turn("unique"), UniqueMethod(feed[taken])
    PROVE  Moves(unique, unique', cache, feed[taken])
  <1>1. /\ taken \in 1..Len(feed) /\ feed[taken] \in Events /\ cache \in States
        /\ Ahead("unique") = cache
    BY TurnPlace
  <1> PICK e \in Events : e = feed[taken]
    BY <1>1
  <1> PICK id \in Ids : id = e.id
    BY DEF Events
  <1> DEFINE new == Key(e.fields, UniqueFrom)
             old == Key(cache[id], UniqueFrom)
             then == Brought(cache, e)
  <1>2. /\ e.fields \in Docs /\ e.fields # NoDoc /\ e.op \in Ops
        /\ cache[id] \in Docs \cup {NoDoc}
        /\ then[id] = After(cache[id], e)
    BY <1>1, BroughtFacts, NoDocNoDocument DEF Events, States
  <1>3. e.op = "insert" => new # <<>>
    BY <1>1, AddedKeyed
  <1>4. cache[id] # NoDoc => cache[id] \in Docs /\ old # <<>>
    BY <1>1, <1>2 DEF UniqueReplayed, Keyed
  <1>5. ASSUME e.op = "update", cache[id] # NoDoc
        PROVE  then[id] # NoDoc /\ Key(then[id], UniqueFrom) = IF new = <<>> THEN old ELSE new
    <2>1. KeyKept(UniqueFrom) /\ UniqueFrom \in Seq(Fields)
      BY EntityStoreAssumption DEF KeyKept, UniqueKeyed
    <2> QED BY <1>5, <2>1, BroughtKey DEF KeyAfter
  <1> HIDE DEF then
  <1> SUFFICES ASSUME NEW key \in Keys(UniqueFrom)
               PROVE  /\ HasKey(then[id], key) =>
                            unique'[key] = IF HasKey(cache[id], key) /\ e.op # "insert" THEN unique[key] ELSE id
                      /\ ~ HasKey(then[id], key) /\ ~ HasKey(cache[id], key) => unique'[key] = unique[key]
    BY DEF Moves, then
  <1>6. HasKey(cache[id], key) <=> cache[id] # NoDoc /\ key = old
    BY DEF HasKey
  <1>7. CASE e.op = "insert"
    <2>1. unique'[key] = IF key = new THEN id ELSE unique[key]
      BY <1>2, <1>3, <1>7, UniqueMethods DEF UniqueMethod
    <2>2. HasKey(then[id], key) <=> key = new
      BY <1>2, <1>7 DEF After, HasKey
    <2> QED BY <1>7, <2>1, <2>2
  <1>8. CASE e.op = "update" /\ cache[id] # NoDoc
    <2>1. HasKey(then[id], key) <=> key = IF new = <<>> THEN old ELSE new
      BY <1>5, <1>8 DEF HasKey
    <2>2. CASE new = <<>>
      <3>1. unique' = unique
        BY <1>2, <1>4, <1>8, <2>2, UniqueMethods DEF UniqueMethod
      <3> QED BY <1>6, <1>8, <2>1, <2>2, <3>1
    <2>3. CASE new # <<>>
      <3>1. unique'[key] = IF key = new /\ key # old THEN id
                           ELSE IF key = old /\ key # new THEN Nil
                           ELSE unique[key]
        BY <1>2, <1>4, <1>8, <2>3, UniqueMethods DEF UniqueMethod
      <3> QED BY <1>6, <1>8, <2>1, <2>3, <3>1
    <2> QED BY <2>2, <2>3
  <1>9. CASE e.op # "insert" /\ cache[id] = NoDoc
    <2>1. unique' = unique
      BY <1>2, <1>9 DEF UniqueMethod, Unique!Update, Unique!Delete, Ops
    <2>2. ~ HasKey(then[id], key)
      BY <1>2, <1>9 DEF After, HasKey
    <2> QED BY <2>1, <2>2
  <1>10. CASE e.op = "delete" /\ cache[id] # NoDoc
    <2>1. unique'[key] = IF key = old THEN Nil ELSE unique[key]
      BY <1>2, <1>4, <1>10, UniqueMethods DEF UniqueMethod
    <2>2. ~ HasKey(then[id], key)
      BY <1>2, <1>10 DEF After, HasKey
    <2> QED BY <1>6, <1>10, <2>1, <2>2
  <1> QED BY <1>2, <1>7, <1>8, <1>9, <1>10 DEF Ops

LEMMA EnteredTurn ==
    ASSUME AllFollowed, UniqueKeyed, StartupInv, phase = "serve", UniqueReplayed, UniqueEntered,
           Turn("unique"), UniqueMethod(feed[taken])
    PROVE  UniqueEntered'
  <1>1. /\ taken \in 1..Len(feed) /\ taken = Applied + 1 /\ Applied \in Nat
        /\ cache \in States /\ Ahead("unique") = cache
        /\ ToldBy("unique") = Applied /\ ToldBy("unique")' = taken
        /\ Ahead("unique")' = Brought(cache, feed[taken])
    BY TurnPlace
  <1>2. Moves(unique, unique', cache, feed[taken])
    BY MethodMoves
  <1>3. PICK index, docs, s :
           /\ index = unique /\ docs = Ahead("unique") /\ s = StreamedAt(ToldBy("unique"))
           /\ AllEntered(index, docs, s)
    BY DEF UniqueEntered
  <1>4. PICK next, then, e : next = unique' /\ then = Brought(cache, feed[taken]) /\ e = feed[taken]
    OBVIOUS
  <1>5. /\ docs \in States /\ Moves(index, next, docs, e) /\ then = Brought(docs, e)
        /\ s = Streamed
    BY <1>1, <1>2, <1>3, <1>4 DEF Streamed
  <1>6. PICK t \in 0..Len(log) : t = StreamedAt(taken) /\ AllEntered(next, then, t)
    <2>1. CASE taken \in 1..Len(found) /\ feed[taken] = found[taken]
      <3>1. s = 0 /\ StreamedAt(taken) = 0 /\ 0 \in 0..Len(log)
        BY <1>1, <1>5, <2>1, ReadPlaces DEF Streamed, StreamedAt
      <3>2. e = found[taken]
        BY <1>4, <2>1
      <3>3. AllEntered(next, then, 0)
        BY <1>3, <1>5, <2>1, <3>1, <3>2, EnteredLoading
      <3> QED BY <3>1, <3>3
    <2>2. CASE \E m \in 1..Len(log) : feed[taken] = log[m] /\ StreamedAt(taken) = m /\ Streamed = m - 1
      <3>1. PICK m \in 1..Len(log) : feed[taken] = log[m] /\ StreamedAt(taken) = m /\ Streamed = m - 1
        BY <2>2
      <3>2. e = log[m] /\ AllEntered(index, docs, m - 1)
        BY <1>3, <1>4, <1>5, <3>1
      <3>3. AllEntered(next, then, m)
        BY <1>5, <3>2, EnteredEvent
      <3> QED BY <3>1, <3>3
    <2> QED BY <1>1, <2>1, <2>2, TurnStream
  <1>7. /\ found' = found /\ readAt' = readAt /\ log' = log /\ history' = history /\ phase' = phase
        /\ Len(log) \in Nat
    BY ReadPlaces DEF Turn, startupVars, mongoVars
  <1>8. AllEntered(next, then, t)'
    BY <1>6, <1>7, EnteredSame
  <1>9. /\ next = unique' /\ then = Ahead("unique")' /\ t = StreamedAt(ToldBy("unique"))'
    BY <1>1, <1>4, <1>6, <1>7 DEF StreamedAt
  <1> QED BY <1>8, <1>9 DEF UniqueEntered
-----------------------------------------------------------------------------
(* The sorted index.                                                       *)

(* A document was added with the text it had when the query found it.      *)
AddedAsFound ==
    \E j \in DOMAIN found : \E k \in 1..readAt[found[j].id] :
       /\ log[k].op = "insert" /\ log[k].id = found[j].id
       /\ Key(log[k].fields, SortedFrom) = Key(found[j].fields, SortedFrom)

(* Its items are those of documents that have the key, or had it when they *)
(* were read; it was blocked by an item it had.                            *)
SortedReplayed ==
    IF phase = "serve"
    THEN /\ \A item \in items : \E key \in Keys(SortedFrom), id \in Ids :
               item = <<key, id>> /\ Holder("sorted", id, key, SortedFrom)
         /\ locked => AddedAsFound
    ELSE Sorted!Init

(* The sorted index is told: an item that is there already is that of the  *)
(* same document, whose insertion is replayed over the text it brought.    *)
LEMMA SortedTurn ==
    ASSUME AllFollowed, KeyKept(SortedFrom), StartupInv, phase = "serve", SortedReplayed,
           Turn("sorted"), SortedMethod(feed[taken])
    PROVE  SortedReplayed'
  <1>1. /\ taken \in 1..Len(feed) /\ feed[taken] \in Events /\ cache \in States
        /\ Ahead("sorted") = cache /\ Ahead("sorted")' = Brought(cache, feed[taken])
        /\ Brought(cache, feed[taken]) \in States
    BY TurnPlace
  <1> PICK e \in Events : e = feed[taken]
    BY <1>1
  <1> PICK id \in Ids : id = e.id
    BY DEF Events
  <1> DEFINE new == Key(e.fields, SortedFrom)
             old == Key(cache[id], SortedFrom)
             then == Brought(cache, e)
             H(x, key) == Holder("sorted", x, key, SortedFrom)
  <1>2. /\ e.fields \in Docs /\ e.op \in Ops /\ SortedFrom \in Seq(Fields)
        /\ new # <<>> => new \in Keys(SortedFrom)
    BY <1>1, KeyFacts, EntityStoreAssumption DEF Events
  <1>3. then[id] = After(cache[id], e) /\ \A x \in Ids \ {id} : then[x] = cache[x]
    BY <1>1, BroughtFacts
  <1>4. ASSUME e.op = "update", cache[id] # NoDoc
        PROVE  then[id] # NoDoc /\ Key(then[id], SortedFrom) = IF new = <<>> THEN old ELSE new
    BY <1>2, <1>4, BroughtKey DEF KeyAfter
  <1> HIDE DEF then
  <1>5. ASSUME NEW x \in Ids, NEW key, H(x, key)
        PROVE  /\ H(x, key)' \/ (x = id /\ e.op # "insert" /\ Has(cache[id], key, SortedFrom))
               /\ x = id /\ Has(then[id], key, SortedFrom) => H(x, key)'
    <2>1. /\ Heard("sorted", x)'
          /\ \/ Has(Past("sorted", x)', key, SortedFrom)
             \/ /\ Has(cache[x], key, SortedFrom)
                /\ x = feed[taken].id => feed[taken].op # "insert"
      BY <1>5, HolderAfter
    <2>2. Ahead("sorted")' = then
      BY <1>1 DEF then
    <2> QED BY <1>3, <2>1, <2>2 DEF Holder, Has
  <1>6. ASSUME NEW item \in items
        PROVE  \E key \in Keys(SortedFrom), x \in Ids : item = <<key, x>> /\ H(x, key)
    BY <1>6 DEF SortedReplayed
  <1>7. /\ phase' = "serve" /\ found' = found /\ readAt' = readAt /\ log' = log
        /\ AddedAsFound' = AddedAsFound
    BY DEF Turn, startupVars, mongoVars, AddedAsFound
  <1>8. locked => AddedAsFound
    BY DEF SortedReplayed
  <1>9. ASSUME locked' => AddedAsFound,
               \A item \in items' : \E key \in Keys(SortedFrom), x \in Ids : item = <<key, x>> /\ H(x, key)'
        PROVE  SortedReplayed'
    BY <1>7, <1>9 DEF SortedReplayed
  <1>10. ASSUME NEW item \in items,
                \A key \in Keys(SortedFrom) :
                   item = <<key, id>> /\ e.op # "insert" /\ Has(cache[id], key, SortedFrom)
                      => Has(then[id], key, SortedFrom)
         PROVE  \E key \in Keys(SortedFrom), x \in Ids : item = <<key, x>> /\ H(x, key)'
    <2>1. PICK key \in Keys(SortedFrom), x \in Ids : item = <<key, x>> /\ H(x, key)
      BY <1>6
    <2>2. H(x, key)'
      BY <1>5, <1>10, <2>1
    <2> QED BY <2>1, <2>2
  <1>11. \A key \in Keys(SortedFrom) : key # <<>>
    BY DEF Keys
  <1>12. CASE e.op = "insert" /\ new # <<>>
    <2>1. items' = items \cup {<<new, id>>} /\ locked' = (<<new, id>> \in items)
      BY <1>12, SameDocuments DEF SortedMethod, Sorted!Add
    <2>2. H(id, new)'
      <3>1. Ahead("sorted")'[id] = e.fields /\ e.fields # NoDoc
        BY <1>1, <1>2, <1>3, <1>12, NoDocNoDocument DEF After, then
      <3>2. Heard("sorted", id)'
        BY <1>12, HeardGrows
      <3> QED BY <3>1, <3>2 DEF Holder, Has
    <2>3. ASSUME <<new, id>> \in items
          PROVE  AddedAsFound
      <3>1. PICK key \in Keys(SortedFrom), x \in Ids : <<new, id>> = <<key, x>> /\ H(x, key)
        BY <1>6, <2>3
      <3>2. H(id, new)
        BY <3>1
      <3>3. /\ Heard("sorted", id)
            /\ Has(cache[id], new, SortedFrom) \/ Has(Past("sorted", id), new, SortedFrom)
        BY <1>1, <3>2 DEF Holder
      <3>4. Twice(id, new, SortedFrom)
        BY <1>12, <3>3, AddedAgain
      <3>5. DOMAIN found = 1..Len(found)
        BY DEF StartupInv, FoundOK
      <3> QED BY <3>4, <3>5 DEF Twice, AddedAsFound, Has
    <2>4. ASSUME NEW item \in items'
          PROVE  \E key \in Keys(SortedFrom), x \in Ids : item = <<key, x>> /\ H(x, key)'
      <3>1. CASE item = <<new, id>>
        BY <1>2, <1>12, <2>2, <3>1
      <3>2. CASE item \in items
        BY <1>10, <1>12, <3>2
      <3> QED BY <2>1, <2>4, <3>1, <3>2
    <2>5. locked' => AddedAsFound
      BY <2>1, <2>3
    <2> QED BY <1>9, <2>4, <2>5
  <1>13. CASE e.op = "insert" /\ new = <<>>
    <2>1. items' = items /\ locked' = locked
      BY <1>13, SameDocuments DEF SortedMethod, Sorted!Add
    <2> QED BY <1>8, <1>9, <1>10, <1>13, <2>1
  <1>14. CASE e.op # "insert" /\ cache[id] = NoDoc
    <2>1. items' = items /\ locked' = locked
      BY <1>2, <1>14 DEF SortedMethod, Sorted!Update, Sorted!Delete, Ops
    <2> QED BY <1>8, <1>9, <1>10, <1>14, <2>1 DEF Has
  <1>15. CASE e.op = "update" /\ cache[id] # NoDoc
    <2>1. \A key : Has(then[id], key, SortedFrom) <=> key = IF new = <<>> THEN old ELSE new
      BY <1>4, <1>15 DEF Has
    <2>2. \A key : Has(cache[id], key, SortedFrom) <=> key = old
      BY <1>15 DEF Has
    <2>3. CASE new = <<>> \/ old = <<>>
      <3>1. items' = items /\ locked' = locked
        BY <1>15, <2>3, SameDocuments DEF SortedMethod, Sorted!Update
      <3>2. ASSUME NEW item \in items
            PROVE  \E key \in Keys(SortedFrom), x \in Ids : item = <<key, x>> /\ H(x, key)'
        BY <1>10, <1>11, <2>1, <2>2, <2>3
      <3> QED BY <1>8, <1>9, <3>1, <3>2
    <2>4. CASE new # <<>> /\ old # <<>>
      <3>1. items' = (items \ {<<old, id>>}) \cup {<<new, id>>} /\ locked' = locked
        BY <1>15, <2>4, SameDocuments DEF SortedMethod, Sorted!Update
      <3>2. H(id, new)'
        <4>1. Has(Ahead("sorted")'[id], new, SortedFrom)
          BY <1>1, <2>1, <2>4 DEF then
        <4>2. Heard("sorted", id)'
          <5>1. Met(id)
            BY <1>15, TurnReplay
          <5>2. Heard("sorted", id)
            BY <5>1, TurnPlace
          <5> QED BY <5>2, HeardGrows
        <4> QED BY <4>1, <4>2 DEF Holder
      <3>3. ASSUME NEW item \in items'
            PROVE  \E key \in Keys(SortedFrom), x \in Ids : item = <<key, x>> /\ H(x, key)'
        <4>1. CASE item = <<new, id>>
          BY <1>2, <2>4, <3>2, <4>1
        <4>2. CASE item \in items /\ item # <<old, id>>
          BY <1>10, <2>2, <4>2
        <4> QED BY <3>1, <3>3, <4>1, <4>2
      <3> QED BY <1>8, <1>9, <3>1, <3>3
    <2> QED BY <2>3, <2>4
  <1>16. CASE e.op = "delete" /\ cache[id] # NoDoc
    <2>1. \A key : Has(cache[id], key, SortedFrom) <=> key = old
      BY <1>16 DEF Has
    <2>2. locked' = locked /\ items' = IF old = <<>> THEN items ELSE items \ {<<old, id>>}
      BY <1>16, SameDocuments DEF SortedMethod, Sorted!Delete
    <2>3. ASSUME NEW item \in items'
          PROVE  \E key \in Keys(SortedFrom), x \in Ids : item = <<key, x>> /\ H(x, key)'
      <3>1. item \in items /\ \A key \in Keys(SortedFrom) : item = <<key, id>> => key # old
        BY <1>11, <2>2, <2>3
      <3> QED BY <1>10, <2>1, <3>1
    <2> QED BY <1>8, <1>9, <2>2, <2>3
  <1> QED BY <1>2, <1>12, <1>13, <1>14, <1>15, <1>16 DEF Ops
-----------------------------------------------------------------------------
(* The inverse index.                                                      *)

(* Documents that an event has taken a field of the key from.              *)
Lost == {feed[k].id : k \in {j \in 1..taken : ~ RemovesNone(feed[j])}}

(* It lists every document under the key it will have, and but for those   *)
(* added twice and those that have lost a field of the key, nothing else.  *)
InverseReplayed ==
    IF phase = "serve"
    THEN /\ Inverse!TypeOK
         /\ \A id \in Ids : Finds(Ahead("inverse"), id)
         /\ \A id \in Ids \ (AddedTwice \cup Lost) : Exactly(Ahead("inverse"), id)
    ELSE Inverse!Init

(* A document that an index meets again is one of those added twice.       *)
LEMMA TwiceAdded ==
    ASSUME StartupInv, NEW id, NEW key, NEW from, Twice(id, key, from)
    PROVE  id \in AddedTwice
  <1>1. DOMAIN found = 1..Len(found)
    BY DEF StartupInv, FoundOK
  <1> QED BY <1>1 DEF Twice, AddedTwice

(* The inverse index is told: a document found already is added again if   *)
(* the event is its insertion, and otherwise moves from the list of its    *)
(* older key to that of its newer one.                                     *)
LEMMA InverseTurn ==
    ASSUME AllFollowed, InverseWhole, RemovedWhole, StartupInv, phase = "serve", InverseReplayed,
           Turn("inverse"), InverseMethod(feed[taken])
    PROVE  InverseReplayed'
  <1>1. /\ taken \in 1..Len(feed) /\ feed[taken] \in Events /\ cache \in States
        /\ Ahead("inverse") = cache /\ Ahead("inverse")' = Brought(cache, feed[taken])
        /\ Brought(cache, feed[taken]) \in States
    BY TurnPlace
  <1> PICK e \in Events : e = feed[taken]
    BY <1>1
  <1> PICK id \in Ids : id = e.id
    BY DEF Events
  <1> PICK then \in States : then = Brought(cache, e)
    BY <1>1
  <1>2. e.fields \in Docs /\ e.op \in Ops
    BY DEF Events
  <1>3. then[id] = After(cache[id], e) /\ \A x \in Ids \ {id} : then[x] = cache[x]
    BY <1>1, BroughtFacts
  <1>4. /\ phase' = "serve" /\ AddedTwice' = AddedTwice /\ Lost' = Lost
    BY DEF Turn, startupVars, mongoVars, AddedTwice, Lost, feed
  <1>5. /\ Inverse!TypeOK
        /\ \A x \in Ids : Finds(cache, x)
        /\ \A x \in Ids \ (AddedTwice \cup Lost) : Exactly(cache, x)
    BY <1>1 DEF InverseReplayed
  <1>6. ASSUME Inverse!TypeOK', \A x \in Ids : Finds(then, x)',
               \A x \in Ids \ (AddedTwice \cup Lost) : Exactly(then, x)'
        PROVE  InverseReplayed'
    <2>1. Ahead("inverse")' = then
      BY <1>1
    <2> QED BY <1>4, <1>6, <2>1 DEF InverseReplayed, Finds, Exactly
  <1>7. e.op # "insert" => Meant(e)
    BY <1>1, FeedMeant
  <1>8. id \notin Lost => RemovesNone(e)
    <2>1. taken \in 1..taken
      BY <1>1
    <2> QED BY <2>1 DEF Lost
  <1>9. CASE e.op = "insert"
    <2>1. ASSUME cache[id] # NoDoc
          PROVE  id \in AddedTwice
      <3>1. Met(id)
        BY <2>1, TurnReplay
      <3>2. Heard("inverse", id) /\ Has(cache[id], Key(cache[id], InverseFrom), InverseFrom)
        BY <2>1, <3>1, TurnPlace DEF Has
      <3>3. Twice(id, Key(cache[id], InverseFrom), InverseFrom)
        BY <1>9, <3>2, AddedAgain
      <3> QED BY <3>3, TwiceAdded
    <2>2. /\ Inverse!TypeOK' /\ OthersKept(id)
          /\ \A key \in Keys(InverseFrom) :
                Times(inverse'[key], id) =
                   IF key = Key(e.fields, InverseFrom) /\ Times(inverse[key], id) = 0 THEN 1
                   ELSE Times(inverse[key], id)
          /\ Key(e.fields, InverseFrom) = <<>> => Times(inverseNil', id) >= 1
      BY <1>2, <1>5, <1>9, AddMethod DEF InverseMethod, InverseWhole
    <2>3. \A key \in Keys(InverseFrom) : Times(inverse[key], id) \in Nat
      BY <1>5, KeptNumber
    <2>4. then[id] = e.fields
      BY <1>3, <1>9 DEF After
    <2>5. \A key : Holds(then[id], key) <=> key = Key(e.fields, InverseFrom)
      BY <1>2, <2>4, NoDocNoDocument DEF Holds
    <2>6. ASSUME NEW x \in Ids
          PROVE  Finds(then, x)'
      <3>1. CASE x = id
        BY <2>2, <2>3, <2>5, <3>1 DEF Finds
      <3>2. CASE x # id
        BY <1>3, <1>5, <2>2, <3>2 DEF Finds, OthersKept, Holds
      <3> QED BY <3>1, <3>2
    <2>7. ASSUME NEW x \in Ids \ (AddedTwice \cup Lost)
          PROVE  Exactly(then, x)'
      <3>1. CASE x = id
        <4>1. \A key \in Keys(InverseFrom) : Times(inverse[key], id) = 0
          BY <1>5, <2>1, <3>1 DEF Exactly, Holds
        <4> QED BY <2>2, <2>5, <3>1, <4>1 DEF Exactly
      <3>2. CASE x # id
        BY <1>3, <1>5, <2>2, <3>2 DEF Exactly, OthersKept, Holds
      <3> QED BY <3>1, <3>2
    <2> QED BY <1>6, <2>2, <2>6, <2>7
  <1>10. CASE e.op = "update" /\ cache[id] = NoDoc
    <2>1. inverse' = inverse /\ inverseNil' = inverseNil
      BY <1>10 DEF InverseMethod, Inverse!Update
    <2>2. \A x \in Ids : then[x] = cache[x]
      BY <1>3, <1>10 DEF After
    <2>3. Inverse!TypeOK'
      BY <1>5, <2>1, ListTypes DEF Inverse!TypeOK
    <2>4. \A x \in Ids : Finds(then, x)'
      BY <1>5, <2>1, <2>2 DEF Finds
    <2>5. \A x \in Ids \ (AddedTwice \cup Lost) : Exactly(then, x)'
      BY <1>5, <2>1, <2>2 DEF Exactly
    <2> QED BY <1>6, <2>3, <2>4, <2>5
  <1>11. CASE e.op # "insert" /\ (e.op = "update" => cache[id] # NoDoc)
    <2>1. Did(cache, then, e)
      <3>1. e.op = "update" => then[id] = Merge(cache[id], e.fields, e.removed) /\ then[id] # NoDoc
        <4>1. e.op = "update" => cache[id] \in Docs
          BY <1>1, <1>11 DEF States
        <4> QED BY <1>2, <1>3, <1>11, <4>1, MergeType, NoDocNoDocument DEF After
      <3>2. e.op # "update" => then[id] = NoDoc
        BY <1>2, <1>3, <1>11 DEF After, Ops
      <3> QED BY <1>3, <1>11, <3>1, <3>2 DEF Did
    <2>2. Follows(cache, then, e)
      BY <1>1, <1>5, <1>7, <1>11, <2>1 DEF Follows, InverseMethod, InverseWhole, Agree
    <2>3. e.op = "update" => RemovesNone(e) \/ RemovesAll(e)
      BY <1>7, <1>11 DEF Meant, RemovedWhole, RemovesNone, RemovesAll
    <2>4. /\ Inverse!TypeOK'
          /\ \A x \in Ids : Exactly(cache, x) /\ (x = e.id /\ e.op = "update" => RemovesNone(e)) =>
                Exactly(then, x)'
          /\ \A x \in Ids : Finds(cache, x) => Finds(then, x)'
      BY <1>1, <1>2, <2>2, <2>3, InverseFollows
    <2>5. \A x \in Ids \ (AddedTwice \cup Lost) : Exactly(then, x)'
      BY <1>5, <1>8, <2>4
    <2> QED BY <1>5, <1>6, <2>4, <2>5
  <1> QED BY <1>2, <1>9, <1>10, <1>11 DEF Ops
=============================================================================
