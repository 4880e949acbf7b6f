---------------------------- MODULE Startup_proofs ----------------------------
(***************************************************************************)
(* A start beside writers, for any documents, updates, filter and number   *)
(* of writes: the cache converges, and invents nothing on the way; the     *)
(* unique index leads to documents with the key, and from every key to its *)
(* document but for those passed over, the inverse index misses none, and  *)
(* the sorted index is blocked by replay alone.  The argument is           *)
(* that of Warmup_proofs; here are the steps of the Listener, the index    *)
(* whose turn each is, and the theorems.                                   *)
(***************************************************************************)
EXTENDS Startup, Warmup_proofs

LEMMA FeedApply ==
    ASSUME cache \in States, feed[taken] \in Events, Feed!Apply
    PROVE  Applying
  <1> PICK e \in Events : e = feed[taken]
    OBVIOUS
  <1>1. /\ stage = "before" /\ stage' = "after" /\ taken' = taken
        /\ e.id \in Ids /\ e.op \in Ops
    BY DEF Feed!Apply, Events
  <1>2. ASSUME e.op = "insert"
        PROVE  cache' = Brought(cache, e)
    BY <1>2 DEF Feed!Apply, Feed!event, Feed!C!Add, Brought, After
  <1>3. ASSUME e.op = "delete"
        PROVE  cache' = Brought(cache, e)
    BY <1>3 DEF Feed!Apply, Feed!event, Feed!C!Delete, Brought, After
  <1>4. ASSUME e.op = "update"
        PROVE  cache' = Brought(cache, e)
    <2>1. cache' = IF cache[e.id] = NoDoc THEN cache
                   ELSE [cache EXCEPT ![e.id] = Merge(@, e.fields, e.removed)]
      BY <1>4 DEF Feed!Apply, Feed!event, Feed!C!Update, Feed!C!Merge, Merge
    <2>2. cache = [cache EXCEPT ![e.id] = cache[e.id]]
      BY <1>1 DEF States
    <2> QED BY <1>4, <2>1, <2>2 DEF Brought, After
  <1> QED BY <1>1, <1>2, <1>3, <1>4 DEF Applying, Ops

LEMMA FeedOthers == Feed!Handle /\ ~ Feed!Apply => Passing
  <1>1. Feed!Receive => Passing
    BY DEF Feed!Receive, Feed!cacheVars, Passing
  <1>2. ASSUME NEW listener, Feed!CallBefore(listener)
        PROVE  Passing
    BY <1>2 DEF Feed!CallBefore, Feed!cacheVars, Passing
  <1>3. Feed!BeforeInverse => Passing
    BY <1>2 DEF Feed!BeforeInverse
  <1>4. Feed!BeforeUnique => Passing
    BY <1>2 DEF Feed!BeforeUnique
  <1>5. Feed!BeforeSorted => Passing
    BY <1>2 DEF Feed!BeforeSorted
  <1>6. Feed!BeforeSuffix => Passing
    BY <1>2 DEF Feed!BeforeSuffix
  <1>7. Feed!AfterSuffix => Passing
    BY DEF Feed!AfterSuffix, Feed!cacheVars, Passing
  <1> QED BY <1>1, <1>3, <1>4, <1>5, <1>6, <1>7 DEF Feed!Handle

(* What the Listener has been handed.                                      *)
LEMMA EventInHand ==
    ASSUME StartupInv, phase = "serve", stage # "idle"
    PROVE  taken \in 1..Len(feed) /\ feed[taken] \in Events
  <1>1. taken \in 1..Len(feed)
    BY FeedFacts DEF StartupInv, ListenerOK
  <1> QED BY <1>1, FeedEvent

LEMMA StartupInvInductive ==
    ASSUME StartupInv, [StartupNext]_<<vars, startupVars>>
    PROVE  StartupInv'
  <1>1. CASE Write
    BY <1>1, WriteKeeps
  <1>2. CASE \E id \in Ids : Read(id)
    BY <1>2, ReadKeeps
  <1>3. CASE QueryFails
    <2>1. /\ phase = "query" /\ phase' = "failed" /\ history' = history /\ log' = log
          /\ stage' = stage /\ taken' = taken /\ cache' = cache
          /\ found' = found /\ readAt' = readAt
      BY <1>3 DEF QueryFails, vars, mongoVars, listenerVars, cacheVars
    <2> QED BY <2>1 DEF StartupInv, Recorded, EventsOK, ReadingOK, FoundOK, WritesOK, ListenerOK
  <1>4. CASE Listen
    BY <1>4, ListenKeeps
  <1>5. CASE HandleFeed
    <2>1. /\ phase = "serve" /\ Feed!Handle /\ UNCHANGED <<startupVars, mongoVars>>
      BY <1>5 DEF HandleFeed
    <2>2. ASSUME Feed!Apply
          PROVE  Applying
      <3>1. stage = "before"
        BY <2>2 DEF Feed!Apply
      <3> QED BY <2>1, <2>2, <3>1, EventInHand, FeedApply DEF StartupInv, ListenerOK
    <2> QED BY <2>1, <2>2, HandleKeeps, FeedOthers
  <1>6. CASE UNCHANGED <<vars, startupVars>>
    <2>1. /\ phase' = phase /\ history' = history /\ log' = log
          /\ stage' = stage /\ taken' = taken /\ cache' = cache
          /\ found' = found /\ readAt' = readAt
      BY <1>6 DEF vars, startupVars, mongoVars, listenerVars, cacheVars
    <2>2. AllFollowed /\ phase = "serve" => ReplayOK'
      BY <2>1, ReplayKept DEF Applied, feed, StartupInv
    <2> QED BY <2>1, <2>2 DEF StartupInv, Recorded, EventsOK, ReadingOK, FoundOK, WritesOK, ListenerOK
  <1> QED BY <1>1, <1>2, <1>3, <1>4, <1>5, <1>6 DEF StartupNext

-----------------------------------------------------------------------------
(* The cache converges, however the query, the writers and the stream      *)
(* alternate: a document that the stream has caught up with is as the      *)
(* collection had it there (NewInMemory over Listener and Cache).          *)
THEOREM StartupConverges ==
    ASSUME AllFollowed
    PROVE  StartupSpec => []Converged
  <1>1. StartupInit => StartupInv
    BY InitEstablishes
  <1>2. StartupInv /\ [StartupNext]_<<vars, startupVars>> => StartupInv'
    BY StartupInvInductive
  <1>3. StartupInv => Converged
    BY ReplayedIsReached DEF Converged, UpToDate
  <1> QED BY <1>1, <1>2, <1>3, PTL DEF StartupSpec

(* While it has not converged, the cache may mix two states of a document, *)
(* the one the query has read and the one the stream has left, but no      *)
(* others: a field that is neither as the one has it nor as the other does *)
(* not occur, and once the stream is past the reading there is one state.  *)
THEOREM StartupInventsNothing ==
    ASSUME AllFollowed
    PROVE  StartupSpec => []NothingInvented
  <1>1. StartupInit => StartupInv
    BY InitEstablishes
  <1>2. StartupInv /\ [StartupNext]_<<vars, startupVars>> => StartupInv'
    BY StartupInvInductive
  <1>3. StartupInv => NothingInvented
    <2> SUFFICES ASSUME StartupInv, NEW id \in Ids, cache[id] # NoDoc, NEW f \in Fields
                 PROVE  LET streamed == IF Replayed > 0 THEN Replayed ELSE 0 IN
                        \E n \in {streamed, readAt[id]} :
                           n >= streamed /\ history[n + 1][id] # NoDoc /\ cache[id][f] = history[n + 1][id][f]
      BY DEF NothingInvented
    <2>1. /\ Streamed = IF Replayed > 0 THEN Replayed ELSE 0
          /\ \E n \in {Streamed, readAt[id]} :
                n >= Streamed /\ history[n + 1][id] # NoDoc /\ cache[id][f] = history[n + 1][id][f]
      BY ShownWasThere
    <2> QED BY <2>1
  <1> QED BY <1>1, <1>2, <1>3, PTL DEF StartupSpec

-----------------------------------------------------------------------------
(* The types.  Here a document may be added to the cache and the indexes   *)
(* while they have it.                                                     *)

LEMMA SameText ==
    ASSUME NEW key
    PROVE  Feed!Suffix!Text(key) = Suffix!Text(key)
  BY DEF Feed!Suffix!Text, Suffix!Text, Feed!Suffix!FlattenSeq, Suffix!FlattenSeq

LEMMA SameInverse ==
    ASSUME NEW doc, NEW id
    PROVE  /\ Feed!Inverse!Add(id, doc) <=> Inverse!Add(id, doc)
           /\ Feed!Inverse!Update(id, doc) <=> Inverse!Update(id, doc)
           /\ Feed!Inverse!Delete(id) <=> Inverse!Delete(id)
  BY DEF Feed!Inverse!Add, Inverse!Add, Feed!Inverse!Update, Inverse!Update,
         Feed!Inverse!Delete, Inverse!Delete, Feed!Inverse!Key, Inverse!Key,
         Feed!Inverse!Target, Inverse!Target, Feed!Inverse!Contains, Inverse!Contains,
         Feed!Inverse!RemoveFirst, Inverse!RemoveFirst, Feed!Inverse!RemoveAt, Inverse!RemoveAt,
         Feed!Inverse!SelectInSeq, Inverse!SelectInSeq, Feed!Inverse!Min, Inverse!Min

LEMMA SameUnique ==
    ASSUME NEW doc, NEW id
    PROVE  /\ Feed!Unique!Add(id, doc) <=> Unique!Add(id, doc)
           /\ Feed!Unique!Update(id, doc) <=> Unique!Update(id, doc)
           /\ Feed!Unique!Delete(id) <=> Unique!Delete(id)
  BY DEF Feed!Unique!Add, Unique!Add, Feed!Unique!Update, Unique!Update,
         Feed!Unique!Delete, Unique!Delete, Feed!Unique!KeysOf, Unique!KeysOf,
         Feed!Unique!Key, Unique!Key, Feed!Unique!Keys, Unique!Keys,
         Feed!Unique!Target, Unique!Target

LEMMA SameSorted ==
    ASSUME NEW doc, NEW id
    PROVE  /\ Feed!Sorted!Add(id, doc) <=> Sorted!Add(id, doc)
           /\ Feed!Sorted!Update(id, doc) <=> Sorted!Update(id, doc)
           /\ Feed!Sorted!Delete(id) <=> Sorted!Delete(id)
  BY DEF Feed!Sorted!Add, Sorted!Add, Feed!Sorted!Update, Sorted!Update,
         Feed!Sorted!Delete, Sorted!Delete, Feed!Sorted!Key, Sorted!Key,
         Feed!Sorted!Target, Sorted!Target

LEMMA SamePosting ==
    ASSUME NEW text, NEW n
    PROVE  /\ Feed!Suffix!Put(text, n) = Suffix!Put(text, n)
           /\ Feed!Suffix!Withdraw(text, n) = Suffix!Withdraw(text, n)
  <1>1. \A gram : Feed!Suffix!Posted(gram) = Suffix!Posted(gram)
    BY DEF Feed!Suffix!Posted, Suffix!Posted
  <1>2. Feed!Suffix!Range(Feed!Suffix!Grams(text)) = Suffix!Range(Suffix!Grams(text))
    BY DEF Feed!Suffix!Range, Suffix!Range, Feed!Suffix!Grams, Suffix!Grams
  <1>3. \A list, x : Feed!Suffix!Contains(list, x) <=> Suffix!Contains(list, x)
    BY DEF Feed!Suffix!Contains, Suffix!Contains
  <1>4. \A list, x : Feed!Suffix!RemoveFirst(list, x) = Suffix!RemoveFirst(list, x)
    BY DEF Feed!Suffix!RemoveFirst, Suffix!RemoveFirst, Feed!Suffix!RemoveAt, Suffix!RemoveAt,
           Feed!Suffix!SelectInSeq, Suffix!SelectInSeq, Feed!Suffix!Min, Suffix!Min
  <1>5. Feed!Suffix!Put(text, n) = Suffix!Put(text, n)
    BY <1>1, <1>2, <1>3 DEF Feed!Suffix!Put, Suffix!Put
  <1>6. Feed!Suffix!Withdraw(text, n) = Suffix!Withdraw(text, n)
    BY <1>2, <1>4 DEF Feed!Suffix!Withdraw, Suffix!Withdraw
  <1> QED BY <1>5, <1>6

LEMMA SameSuffix ==
    ASSUME NEW doc, NEW id
    PROVE  /\ Feed!Suffix!Add(id, doc) <=> Suffix!Add(id, doc)
           /\ Feed!Suffix!Update(id) <=> Suffix!Update(id)
           /\ Feed!Suffix!Delete(id) <=> Suffix!Delete(id)
  <1>1. \A d, from : Feed!Suffix!Key(d, from) = Suffix!Key(d, from)
    BY DEF Feed!Suffix!Key, Suffix!Key
  <1>2. \A i, d, to : Feed!Suffix!Target(i, d, to) = Suffix!Target(i, d, to)
    BY DEF Feed!Suffix!Target, Suffix!Target
  <1>3. \A i, d : Feed!Suffix!Number(i, d) = Suffix!Number(i, d)
    BY <1>1, <1>2 DEF Feed!Suffix!Number, Suffix!Number
  <1>4. \A d : Feed!Suffix!Contents(d) = Suffix!Contents(d)
    BY <1>1, SameText DEF Feed!Suffix!Contents, Suffix!Contents
  <1> QED BY <1>3, <1>4, SamePosting
       DEF Feed!Suffix!Add, Suffix!Add, Feed!Suffix!Update, Suffix!Update,
           Feed!Suffix!Delete, Suffix!Delete

(* A step of the Listener is one of a kind that ProcessKept knows of.      *)
LEMMA FeedTyped ==
    ASSUME ProcessTypes, stage # "idle" => Feed!event \in Events, Feed!Handle
    PROVE  ProcessTypes'
  <1> DEFINE e == Feed!event
  <1>1. stage # "idle" => e \in Events /\ e.op \in Ops
    BY DEF Events
  <1>2. CASE Feed!Receive
    <2>1. todo' = BeforeListeners /\ UNCHANGED <<cacheVars, indexVars>>
      BY <1>2 DEF Feed!Receive, Feed!BeforeListeners, BeforeListeners, Feed!cacheVars, cacheVars,
              Feed!indexVars, indexVars, Feed!inverseVars, inverseVars, Feed!sortedVars, sortedVars
    <2> QED BY <2>1, ProcessKept
  <1>3. ASSUME stage # "idle", todo' \subseteq todo, UNCHANGED cacheVars, Calls(e)
        PROVE  ProcessTypes'
    BY <1>1, <1>3, ProcessKept DEF ProcessTypes
  <1>4. ASSUME NEW listener, Feed!CallBefore(listener)
        PROVE  stage # "idle" /\ todo' \subseteq todo /\ UNCHANGED cacheVars
    BY <1>4 DEF Feed!CallBefore, Feed!cacheVars, cacheVars
  <1>5. CASE Feed!BeforeInverse
    <2>1. stage # "idle" /\ todo' \subseteq todo /\ UNCHANGED cacheVars
      BY <1>4, <1>5 DEF Feed!BeforeInverse
    <2>2. \/ Feed!Inverse!Add(e.id, e.fields)
          \/ Feed!Inverse!Update(e.id, e.fields)
          \/ Feed!Inverse!Delete(e.id)
      BY <1>1, <1>5, <2>1 DEF Feed!BeforeInverse, Ops
    <2>3. Inverse!Add(e.id, e.fields) \/ Inverse!Update(e.id, e.fields) \/ Inverse!Delete(e.id)
      BY <2>2, SameInverse
    <2>4. Calls(e)
      BY <1>5, <2>1, <2>3 DEF Feed!BeforeInverse, cacheVars, Calls,
              Feed!sortedVars, sortedVars
    <2> QED BY <1>3, <2>1, <2>4
  <1>6. CASE Feed!BeforeUnique
    <2>1. stage # "idle" /\ todo' \subseteq todo /\ UNCHANGED cacheVars
      BY <1>4, <1>6 DEF Feed!BeforeUnique
    <2>2. \/ Feed!Unique!Add(e.id, e.fields)
          \/ Feed!Unique!Update(e.id, e.fields)
          \/ Feed!Unique!Delete(e.id)
      BY <1>1, <1>6, <2>1 DEF Feed!BeforeUnique, Ops
    <2>3. Unique!Add(e.id, e.fields) \/ Unique!Update(e.id, e.fields) \/ Unique!Delete(e.id)
      BY <2>2, SameUnique
    <2>4. Calls(e)
      BY <1>6, <2>1, <2>3 DEF Feed!BeforeUnique, cacheVars, Calls,
              Feed!inverseVars, inverseVars, Feed!sortedVars, sortedVars
    <2> QED BY <1>3, <2>1, <2>4
  <1>7. CASE Feed!BeforeSorted
    <2>1. stage # "idle" /\ todo' \subseteq todo /\ UNCHANGED cacheVars
      BY <1>4, <1>7 DEF Feed!BeforeSorted
    <2>2. \/ Feed!Sorted!Add(e.id, e.fields)
          \/ Feed!Sorted!Update(e.id, e.fields)
          \/ Feed!Sorted!Delete(e.id)
      BY <1>1, <1>7, <2>1 DEF Feed!BeforeSorted, Ops
    <2>3. Sorted!Add(e.id, e.fields) \/ Sorted!Update(e.id, e.fields) \/ Sorted!Delete(e.id)
      BY <2>2, SameSorted
    <2>4. Calls(e)
      BY <1>7, <2>1, <2>3 DEF Feed!BeforeSorted, cacheVars, Calls,
              Feed!inverseVars, inverseVars
    <2> QED BY <1>3, <2>1, <2>4
  <1>8. CASE Feed!BeforeSuffix
    <2>1. stage # "idle" /\ todo' \subseteq todo /\ UNCHANGED cacheVars
      BY <1>4, <1>8 DEF Feed!BeforeSuffix
    <2>2. \/ Feed!Suffix!Add(e.id, e.fields)
          \/ Feed!Suffix!Update(e.id)
          \/ Feed!Suffix!Delete(e.id)
      BY <1>1, <1>8, <2>1 DEF Feed!BeforeSuffix, Ops
    <2>3. Suffix!Add(e.id, e.fields) \/ Suffix!Update(e.id) \/ Suffix!Delete(e.id)
      BY <2>2, SameSuffix
    <2>4. Calls(e)
      BY <1>8, <2>1, <2>3 DEF Feed!BeforeSuffix, cacheVars, Calls,
              Feed!inverseVars, inverseVars, Feed!sortedVars, sortedVars
    <2> QED BY <1>3, <2>1, <2>4
  <1>9. CASE Feed!AfterSuffix
    <2>1. stage # "idle" /\ todo' \subseteq todo /\ UNCHANGED cacheVars
      BY <1>9 DEF Feed!AfterSuffix, Feed!cacheVars, cacheVars
    <2>2. \/ Feed!Suffix!Add(e.id, e.fields)
          \/ Feed!Suffix!Update(e.id)
          \/ Feed!Suffix!Delete(e.id)
      BY <1>1, <1>9, <2>1 DEF Feed!AfterSuffix, Ops
    <2>3. Suffix!Add(e.id, e.fields) \/ Suffix!Update(e.id) \/ Suffix!Delete(e.id)
      BY <2>2, SameSuffix
    <2>4. Calls(e)
      BY <1>9, <2>1, <2>3 DEF Feed!AfterSuffix, cacheVars, Calls,
              Feed!inverseVars, inverseVars, Feed!sortedVars, sortedVars
    <2> QED BY <1>3, <2>1, <2>4
  <1>10. CASE Feed!Apply
    <2>1. /\ stage # "idle" /\ todo' = todo /\ UNCHANGED indexVars
      BY <1>10 DEF Feed!Apply, Feed!indexVars, indexVars, Feed!inverseVars, inverseVars,
              Feed!sortedVars, sortedVars
    <2>2. \/ Feed!C!Add(e.id, e.fields)
          \/ Feed!C!Update(e.id, e.fields, e.removed)
          \/ Feed!C!Delete(e.id)
      BY <1>1, <1>10, <2>1 DEF Feed!Apply, Ops
    <2>3. C!Add(e.id, e.fields) \/ C!Update(e.id, e.fields, e.removed) \/ C!Delete(e.id)
      BY <2>2 DEF Feed!C!Add, C!Add, Feed!C!Update, C!Update, Feed!C!Delete, C!Delete,
              Feed!C!Merge, C!Merge, Feed!C!Forget, C!Forget, Feed!C!idxVars, C!idxVars
    <2> QED BY <1>1, <2>1, <2>3, ProcessKept DEF ProcessTypes
  <1> QED BY <1>2, <1>5, <1>6, <1>7, <1>8, <1>9, <1>10 DEF Feed!Handle

LEMMA StartupTypesInductive ==
    ASSUME StartupTypes, [StartupNext]_<<vars, startupVars>>
    PROVE  StartupTypes'
  <1>1. StartupInv'
    BY StartupInvInductive DEF StartupTypes
  <1>2. CASE HandleFeed
    <2>1. phase = "serve" /\ phase' = phase /\ found' = found /\ Feed!Handle
      BY <1>2 DEF HandleFeed, startupVars
    <2>2. stage # "idle" => Feed!event \in Events
      BY <2>1, EventInHand DEF StartupTypes, Feed!event
    <2>3. ProcessTypes'
      BY <2>1, <2>2, FeedTyped DEF StartupTypes
    <2> QED BY <1>1, <2>1, <2>3 DEF StartupTypes
  <1> QED BY <1>1, <1>2, OthersTyped DEF StartupNext

(* Loading what the query has found and replaying old events over it keep  *)
(* every list, number and entry in its range, whichever fields an update   *)
(* does not reach (NewInMemory over Listener, cache and indexes).          *)
THEOREM StartupTypeCorrect == StartupSpec => []StartupTypeOK
  <1>1. StartupInit => StartupTypes
    BY StartupTypesInit
  <1>2. StartupTypes /\ [StartupNext]_<<vars, startupVars>> => StartupTypes'
    BY StartupTypesInductive
  <1>3. StartupTypes => StartupTypeOK
    <2> SUFFICES ASSUME StartupTypes PROVE StartupTypeOK
      OBVIOUS
    <2> QED BY StartupTypesGive DEF StartupTypes, ProcessTypes, IndexTypes, StartupTypeOK, FoundTypes
  <1> QED BY <1>1, <1>2, <1>3, PTL DEF StartupSpec
-----------------------------------------------------------------------------
(* The indexes.  Nothing happens to them before the Listener is at work.   *)
LEMMA BeforeServing ==
    ASSUME StartupInv, phase # "serve", [StartupNext]_<<vars, startupVars>>
    PROVE  /\ UNCHANGED indexVars
           /\ phase' = "serve" => stage' = "idle" /\ cache' = [id \in Ids |-> NoDoc]
  <1>1. stage = "idle" /\ cache = [id \in Ids |-> NoDoc]
    BY DEF StartupInv, ListenerOK
  <1>2. CASE Write
    <2>1. phase' = phase
      BY <1>2 DEF Write, startupVars
    <2>2. db \in States
      BY RecordedFacts DEF StartupInv
    <2>3. PICK e \in Events, state \in States : Wrote(e, state)
      BY <1>2, <2>2, WriteKinds DEF Write, SomeoneWrote
    <2> QED BY <2>1, <2>3 DEF Wrote
  <1>3. CASE \E id \in Ids : Read(id)
    BY <1>3 DEF Read, vars
  <1>4. CASE QueryFails
    BY <1>4 DEF QueryFails, vars
  <1>5. CASE Listen
    BY <1>1, <1>5 DEF Listen, vars, listenerVars, cacheVars
  <1>6. CASE HandleFeed
    BY <1>6 DEF HandleFeed
  <1>7. CASE UNCHANGED <<vars, startupVars>>
    BY <1>7 DEF vars, startupVars
  <1> QED BY <1>2, <1>3, <1>4, <1>5, <1>6, <1>7 DEF StartupNext

(* The steps at which the index is told of nothing.                        *)
StillSteps(listener) ==
    \/ Write
    \/ /\ UNCHANGED <<startupVars, mongoVars>>
       /\ \/ Feed!Receive \/ Feed!Apply \/ Feed!AfterSuffix
          \/ \E other \in BeforeListeners \ {listener} : Feed!CallBefore(other)
    \/ UNCHANGED <<vars, startupVars>>

(* What the index has been told of stays as it is when it is not its turn. *)
LEMMA StillStep ==
    ASSUME StartupInv, phase = "serve", NEW listener \in BeforeListeners, StillSteps(listener)
    PROVE  Still(listener)
  <1>1. CASE Write
    <2>1. /\ stage = "idle" /\ phase' = phase /\ found' = found /\ readAt' = readAt
      BY <1>1 DEF Write, startupVars
    <2>2. Recorded /\ db \in States
      BY RecordedFacts DEF StartupInv
    <2>3. PICK e \in Events, state \in States : Wrote(e, state)
      BY <1>1, <2>2, WriteKinds DEF Write, SomeoneWrote
    <2>4. /\ history \in Seq(States) /\ log \in Seq(Events) /\ Len(history) = Len(log) + 1
          /\ history' = Append(history, state) /\ log' = Append(log, e)
          /\ stage' = stage /\ taken' = taken /\ cache' = cache
      BY <2>2, <2>3 DEF Recorded, EventsOK, Wrote, listenerVars, cacheVars
    <2>5. /\ \A k \in 1..Len(log) : log'[k] = log[k]
          /\ \A k \in 1..(Len(log) + 1) : history'[k] = history[k]
          /\ Len(log') = Len(log) + 1 /\ Len(log) \in Nat /\ Len(log') \in Nat /\ log' \in Seq(Events)
      BY <2>4, AppendFacts
    <2>6. \A k \in 1..Len(feed) : feed'[k] = feed[k]
      <3>1. feed = found \o log /\ feed' = found \o log'
        BY <2>1 DEF feed
      <3> QED BY <2>4, <2>5, <3>1 DEF StartupInv, FoundOK
    <2>7. taken \in Nat
      BY DEF StartupInv, ListenerOK
    <2>8. ToldBy(listener)' = ToldBy(listener) /\ Ahead(listener)' = Ahead(listener)
      BY <2>1, <2>4 DEF ToldBy, Ahead
    <2> QED BY <2>1, <2>4, <2>5, <2>6, <2>7, <2>8 DEF Still
  <1>2. ASSUME UNCHANGED <<startupVars, mongoVars>>, taken' \in {taken, taken + 1},
               ToldBy(listener)' = ToldBy(listener), Ahead(listener)' = Ahead(listener)
        PROVE  Still(listener)
    <2>1. taken \in Nat /\ Len(log) \in Nat
      BY DEF StartupInv, ListenerOK, Recorded
    <2> QED BY <1>2, <2>1 DEF Still, startupVars, mongoVars, feed
  <1>3. ASSUME UNCHANGED <<startupVars, mongoVars>>
        PROVE  feed' = feed
    BY <1>3 DEF startupVars, mongoVars, feed
  <1>4. CASE UNCHANGED <<startupVars, mongoVars>> /\ Feed!Receive
    <2>1. /\ stage = "idle" /\ stage' = "before" /\ taken' = taken + 1 /\ listener \in todo'
          /\ cache' = cache /\ taken \in Int
      BY <1>4 DEF Feed!Receive, Feed!BeforeListeners, BeforeListeners, Feed!cacheVars,
              StartupInv, ListenerOK
    <2> QED BY <1>2, <1>4, <2>1 DEF ToldBy, Ahead
  <1>5. CASE UNCHANGED <<startupVars, mongoVars>> /\ Feed!Apply
    <2>1. /\ stage = "before" /\ todo = {} /\ todo' = todo
      BY <1>5 DEF Feed!Apply
    <2>2. Applying
      BY <1>5, <2>1, EventInHand, FeedApply DEF StartupInv, ListenerOK
    <2> QED BY <1>2, <1>5, <2>1, <2>2 DEF ToldBy, Ahead, Applying
  <1>6. CASE UNCHANGED <<startupVars, mongoVars>> /\ Feed!AfterSuffix
    <2>1. /\ stage = "after" /\ stage' = "idle" /\ taken' = taken /\ cache' = cache
      BY <1>6 DEF Feed!AfterSuffix, Feed!cacheVars
    <2> QED BY <1>2, <1>6, <2>1 DEF ToldBy, Ahead
  <1>7. CASE /\ UNCHANGED <<startupVars, mongoVars>>
             /\ \E other \in BeforeListeners \ {listener} : Feed!CallBefore(other)
    <2>1. PICK other \in BeforeListeners \ {listener} : Feed!CallBefore(other)
      BY <1>7
    <2>2. /\ stage' = stage /\ taken' = taken /\ cache' = cache
          /\ listener \in todo' <=> listener \in todo
      BY <2>1 DEF Feed!CallBefore, Feed!cacheVars
    <2> QED BY <1>2, <1>3, <1>7, <2>2 DEF ToldBy, Ahead, Brought, After
  <1>8. CASE UNCHANGED <<vars, startupVars>>
    <2>1. /\ UNCHANGED <<startupVars, mongoVars>>
          /\ stage' = stage /\ taken' = taken /\ cache' = cache /\ todo' = todo
      BY <1>8 DEF vars, listenerVars, cacheVars
    <2> QED BY <1>2, <1>3, <2>1 DEF ToldBy, Ahead, Brought, After
  <1> QED BY <1>1, <1>4, <1>5, <1>6, <1>7, <1>8 DEF StillSteps

(* At the turn of an index one of its three methods is called.             *)
LEMMA TurnStep ==
    ASSUME NEW listener, Feed!CallBefore(listener), UNCHANGED <<startupVars, mongoVars>>
    PROVE  Turn(listener)
  BY DEF Feed!CallBefore, Feed!cacheVars, Turn

(* While the Listener is at work, an index is told of an event or rests.   *)
LEMMA ServingSteps ==
    ASSUME StartupInv, phase = "serve", [StartupNext]_<<vars, startupVars>>
    PROVE  /\ \/ Still("inverse") /\ UNCHANGED <<inverse, inverseNil>>
              \/ Turn("inverse") /\ InverseMethod(feed[taken])
           /\ \/ Still("unique") /\ UNCHANGED unique
              \/ Turn("unique") /\ UniqueMethod(feed[taken])
           /\ \/ Still("sorted") /\ UNCHANGED <<items, locked>>
              \/ Turn("sorted") /\ SortedMethod(feed[taken])
  <1>1. {"inverse", "unique", "sorted"} \subseteq BeforeListeners
    BY DEF BeforeListeners
  <1>2. ASSUME Write \/ UNCHANGED <<vars, startupVars>>
        PROVE  UNCHANGED indexVars
    <2>1. db \in States
      BY RecordedFacts DEF StartupInv
    <2>2. Write => SomeoneWrote
      BY <2>1, WriteKinds DEF Write
    <2> QED BY <1>2, <2>2 DEF SomeoneWrote, Wrote, vars
  <1>3. CASE Write \/ UNCHANGED <<vars, startupVars>>
    <2>1. Still("inverse") /\ Still("unique") /\ Still("sorted")
      BY <1>1, <1>3, StillStep DEF StillSteps
    <2> QED BY <1>2, <1>3, <2>1 DEF indexVars, inverseVars, sortedVars
  <1>4. ASSUME HandleFeed
        PROVE  Feed!Handle /\ UNCHANGED <<startupVars, mongoVars>>
    BY <1>4 DEF HandleFeed
  <1>5. CASE HandleFeed /\ (Feed!Receive \/ Feed!Apply \/ Feed!AfterSuffix)
    <2>1. Still("inverse") /\ Still("unique") /\ Still("sorted")
      BY <1>1, <1>4, <1>5, StillStep DEF StillSteps
    <2>2. UNCHANGED <<inverse, inverseNil, unique, items, locked>>
      BY <1>5 DEF Feed!Receive, Feed!Apply, Feed!AfterSuffix, Feed!indexVars,
              Feed!inverseVars, Feed!sortedVars
    <2> QED BY <2>1, <2>2
  <1>6. ASSUME NEW other \in BeforeListeners, HandleFeed, Feed!CallBefore(other)
        PROVE  \A listener \in BeforeListeners \ {other} : Still(listener)
    BY <1>4, <1>6, StillStep DEF StillSteps
  <1>7. CASE HandleFeed /\ Feed!BeforeInverse
    <2>1. Feed!CallBefore("inverse") /\ UNCHANGED <<unique, items, locked>>
      BY <1>7 DEF Feed!BeforeInverse, Feed!sortedVars
    <2>2. Turn("inverse") /\ Still("unique") /\ Still("sorted")
      BY <1>4, <1>6, <1>7, <2>1, TurnStep DEF BeforeListeners
    <2>3. InverseMethod(feed[taken])
      <3>1. /\ feed[taken].op = "insert" => Feed!Inverse!Add(feed[taken].id, feed[taken].fields)
            /\ feed[taken].op = "update" => Feed!Inverse!Update(feed[taken].id, feed[taken].fields)
            /\ feed[taken].op = "delete" => Feed!Inverse!Delete(feed[taken].id)
        BY <1>7 DEF Feed!BeforeInverse, Feed!event
      <3> QED BY <3>1, SameInverse DEF InverseMethod
    <2> QED BY <2>1, <2>2, <2>3
  <1>8. CASE HandleFeed /\ Feed!BeforeUnique
    <2>1. Feed!CallBefore("unique") /\ UNCHANGED <<inverse, inverseNil, items, locked>>
      BY <1>8 DEF Feed!BeforeUnique, Feed!sortedVars, Feed!inverseVars
    <2>2. Still("inverse") /\ Turn("unique") /\ Still("sorted")
      BY <1>4, <1>6, <1>8, <2>1, TurnStep DEF BeforeListeners
    <2>3. UniqueMethod(feed[taken])
      <3>1. /\ feed[taken].op = "insert" => Feed!Unique!Add(feed[taken].id, feed[taken].fields)
            /\ feed[taken].op = "update" => Feed!Unique!Update(feed[taken].id, feed[taken].fields)
            /\ feed[taken].op = "delete" => Feed!Unique!Delete(feed[taken].id)
        BY <1>8 DEF Feed!BeforeUnique, Feed!event
      <3> QED BY <3>1, SameUnique DEF UniqueMethod
    <2> QED BY <2>1, <2>2, <2>3
  <1>9. CASE HandleFeed /\ Feed!BeforeSorted
    <2>1. Feed!CallBefore("sorted") /\ UNCHANGED <<inverse, inverseNil, unique>>
      BY <1>9 DEF Feed!BeforeSorted, Feed!inverseVars
    <2>2. Still("inverse") /\ Still("unique") /\ Turn("sorted")
      BY <1>4, <1>6, <1>9, <2>1, TurnStep DEF BeforeListeners
    <2>3. SortedMethod(feed[taken])
      <3>1. /\ feed[taken].op = "insert" => Feed!Sorted!Add(feed[taken].id, feed[taken].fields)
            /\ feed[taken].op = "update" => Feed!Sorted!Update(feed[taken].id, feed[taken].fields)
            /\ feed[taken].op = "delete" => Feed!Sorted!Delete(feed[taken].id)
        BY <1>9 DEF Feed!BeforeSorted, Feed!event
      <3> QED BY <3>1, SameSorted DEF SortedMethod
    <2> QED BY <2>1, <2>2, <2>3
  <1>10. CASE HandleFeed /\ Feed!BeforeSuffix
    <2>1. Feed!CallBefore("suffix") /\ UNCHANGED <<inverse, inverseNil, unique, items, locked>>
      BY <1>10 DEF Feed!BeforeSuffix, Feed!sortedVars, Feed!inverseVars
    <2>2. Still("inverse") /\ Still("unique") /\ Still("sorted")
      BY <1>6, <1>10, <2>1 DEF BeforeListeners
    <2> QED BY <2>1, <2>2
  <1>11. CASE HandleFeed
    BY <1>4, <1>5, <1>7, <1>8, <1>9, <1>10, <1>11 DEF Feed!Handle
  <1>12. ~ (\E id \in Ids : Read(id)) /\ ~ QueryFails /\ ~ Listen
    BY DEF Read, QueryFails, Listen
  <1> QED BY <1>3, <1>11, <1>12 DEF StartupNext
-----------------------------------------------------------------------------
(* The invariants of the indexes.                                          *)
LEMMA UniqueReplayedInductive ==
    ASSUME AllFollowed, UniqueKeyed, StartupInv, UniqueReplayed, [StartupNext]_<<vars, startupVars>>
    PROVE  UniqueReplayed'
  <1>1. CASE phase # "serve"
    <2>1. /\ unique' = unique /\ \A key \in Keys(UniqueFrom) : unique[key] = Nil
          /\ phase' = "serve" => stage' = "idle" /\ cache' = [id \in Ids |-> NoDoc]
      BY <1>1, BeforeServing, SameKeys DEF indexVars, UniqueReplayed, Unique!Init
    <2>2. CASE phase' = "serve"
      <3>1. Ahead("unique")' = [id \in Ids |-> NoDoc]
        BY <2>1, <2>2 DEF Ahead
      <3>2. Keyed(Ahead("unique"))'
        BY <3>1 DEF Keyed
      <3> QED BY <2>1, <2>2, <3>2 DEF UniqueReplayed
    <2>3. CASE phase' # "serve"
      BY <1>1, <2>1, <2>3 DEF UniqueReplayed, Unique!Init
    <2> QED BY <2>2, <2>3
  <1>2. CASE phase = "serve" /\ Still("unique") /\ UNCHANGED unique
    <2>1. /\ phase' = "serve" /\ Ahead("unique")' = Ahead("unique")
          /\ \A id \in Ids : \A key : Holder("unique", id, key, UniqueFrom)' <=> Holder("unique", id, key, UniqueFrom)
      BY <1>2, StillHolder DEF Still
    <2> QED BY <1>2, <2>1 DEF UniqueReplayed, Keyed
  <1>3. CASE phase = "serve" /\ Turn("unique") /\ UniqueMethod(feed[taken])
    BY <1>3, UniqueTurn
  <1> QED BY <1>1, <1>2, <1>3, ServingSteps

LEMMA UniqueEnteredInductive ==
    ASSUME AllFollowed, UniqueKeyed, StartupInv, UniqueReplayed, UniqueEntered,
           [StartupNext]_<<vars, startupVars>>
    PROVE  UniqueEntered'
  <1>1. CASE phase # "serve"
    <2> SUFFICES ASSUME phase' = "serve" PROVE UniqueEntered'
      BY DEF UniqueEntered
    <2>1. stage' = "idle" /\ cache' = [id \in Ids |-> NoDoc]
      BY <1>1, BeforeServing
    <2>2. PICK index, docs, s :
             index = unique' /\ docs = Ahead("unique")' /\ s = StreamedAt(ToldBy("unique"))'
      OBVIOUS
    <2>3. docs = [id \in Ids |-> NoDoc]
      BY <2>1, <2>2 DEF Ahead
    <2>4. AllEntered(index, docs, s)'
      BY <2>3 DEF AllEntered, HasKey
    <2> QED BY <2>2, <2>4 DEF UniqueEntered
  <1>2. CASE phase = "serve" /\ Still("unique") /\ UNCHANGED unique
    BY <1>2, EnteredStill
  <1>3. CASE phase = "serve" /\ Turn("unique") /\ UniqueMethod(feed[taken])
    BY <1>3, EnteredTurn
  <1> QED BY <1>1, <1>2, <1>3, ServingSteps

LEMMA SortedReplayedInductive ==
    ASSUME AllFollowed, KeyKept(SortedFrom), StartupInv, SortedReplayed,
           [StartupNext]_<<vars, startupVars>>
    PROVE  SortedReplayed'
  <1>1. CASE phase # "serve"
    <2>1. items' = {} /\ locked' = FALSE
      BY <1>1, BeforeServing DEF indexVars, sortedVars, SortedReplayed, Sorted!Init
    <2> QED BY <2>1 DEF SortedReplayed, Sorted!Init
  <1>2. CASE phase = "serve" /\ Still("sorted") /\ UNCHANGED <<items, locked>>
    <2>1. /\ phase' = "serve"
          /\ \A id \in Ids : \A key : Holder("sorted", id, key, SortedFrom)' <=> Holder("sorted", id, key, SortedFrom)
      BY <1>2, StillHolder DEF Still
    <2>2. AddedAsFound => AddedAsFound'
      <3> SUFFICES ASSUME AddedAsFound PROVE AddedAsFound'
        OBVIOUS
      <3>1. PICK j \in DOMAIN found : \E k \in 1..readAt[found[j].id] :
               /\ log[k].op = "insert" /\ log[k].id = found[j].id
               /\ Key(log[k].fields, SortedFrom) = Key(found[j].fields, SortedFrom)
        BY DEF AddedAsFound
      <3>2. PICK k \in 1..readAt[found[j].id] :
               /\ log[k].op = "insert" /\ log[k].id = found[j].id
               /\ Key(log[k].fields, SortedFrom) = Key(found[j].fields, SortedFrom)
        BY <3>1
      <3>3. readAt[found[j].id] \in 0..Len(log) /\ Len(log) \in Nat
        <4>1. /\ found[j].id \in DOMAIN readAt
              /\ \A id \in DOMAIN readAt : readAt[id] \in 0..Len(log)
          BY DEF StartupInv, FoundOK, ReadingOK
        <4>2. Len(log) \in Nat
          BY DEF StartupInv, Recorded
        <4> QED BY <4>1, <4>2
      <3>4. log'[k] = log[k]
        BY <1>2, <3>3 DEF Still
      <3> QED BY <1>2, <3>2, <3>4 DEF AddedAsFound, Still
    <2> QED BY <1>2, <2>1, <2>2 DEF SortedReplayed
  <1>3. CASE phase = "serve" /\ Turn("sorted") /\ SortedMethod(feed[taken])
    BY <1>3, SortedTurn
  <1> QED BY <1>1, <1>2, <1>3, ServingSteps

LEMMA InverseReplayedInductive ==
    ASSUME AllFollowed, InverseWhole, RemovedWhole, StartupInv, InverseReplayed,
           [StartupNext]_<<vars, startupVars>>
    PROVE  InverseReplayed'
  <1>1. CASE phase # "serve"
    <2>1. /\ inverse' = inverse /\ inverseNil' = inverseNil
          /\ phase' = "serve" => stage' = "idle" /\ cache' = [id \in Ids |-> NoDoc]
          /\ inverse = [key \in Keys(InverseFrom) |-> <<>>] /\ inverseNil = <<>>
      BY <1>1, BeforeServing, InverseSame DEF indexVars, inverseVars, InverseReplayed, Inverse!Init
    <2>2. CASE phase' = "serve"
      <3>1. Ahead("inverse")' = [id \in Ids |-> NoDoc]
        BY <2>1, <2>2 DEF Ahead
      <3>2. \A key \in Keys(InverseFrom), id \in Ids : Times(inverse'[key], id) = 0
        BY <2>1, SameTimes, ListFacts!TimesEmpty
      <3>3. Inverse!TypeOK'
        BY <2>1, ListTypes DEF Inverse!TypeOK
      <3>4. \A id \in Ids : Exactly(Ahead("inverse"), id)' /\ Finds(Ahead("inverse"), id)'
        BY <3>1, <3>2 DEF Exactly, Finds, Holds
      <3> QED BY <2>2, <3>3, <3>4 DEF InverseReplayed
    <2>3. CASE phase' # "serve"
      BY <1>1, <2>1, <2>3 DEF InverseReplayed, Inverse!Init
    <2> QED BY <2>2, <2>3
  <1>2. CASE phase = "serve" /\ Still("inverse") /\ UNCHANGED <<inverse, inverseNil>>
    <2>1. /\ phase' = "serve" /\ Ahead("inverse")' = Ahead("inverse")
      BY <1>2 DEF Still
    <2>2. AddedTwice \subseteq AddedTwice'
      <3> SUFFICES ASSUME NEW j \in DOMAIN found, NEW k \in 1..readAt[found[j].id],
                          log[k].op = "insert", log[k].id = found[j].id
                   PROVE  found[j].id \in AddedTwice'
        BY DEF AddedTwice
      <3>1. readAt[found[j].id] \in 0..Len(log) /\ Len(log) \in Nat
        BY DEF StartupInv, FoundOK, ReadingOK, Recorded
      <3>2. log'[k] = log[k]
        BY <1>2, <3>1 DEF Still
      <3> QED BY <1>2, <3>2 DEF AddedTwice, Still
    <2>3. Lost \subseteq Lost'
      <3> SUFFICES ASSUME NEW k \in 1..taken, ~ RemovesNone(feed[k])
                   PROVE  feed[k].id \in Lost'
        BY DEF Lost
      <3>1. /\ taken \in Nat /\ taken <= Len(feed) /\ Len(feed) \in Nat
        BY <1>2, FeedFacts DEF StartupInv, ListenerOK
      <3>2. feed'[k] = feed[k]
        BY <1>2, <3>1 DEF Still
      <3>3. k \in 1..taken'
        BY <1>2, <3>1 DEF Still
      <3> QED BY <3>2, <3>3 DEF Lost, RemovesNone
    <2>4. Inverse!TypeOK'
      BY <1>2, ListTypes DEF InverseReplayed, Inverse!TypeOK
    <2> QED BY <1>2, <2>1, <2>2, <2>3, <2>4 DEF InverseReplayed, Exactly, Finds
  <1>3. CASE phase = "serve" /\ Turn("inverse") /\ InverseMethod(feed[taken])
    BY <1>3, InverseTurn
  <1> QED BY <1>1, <1>2, <1>3, ServingSteps

LEMMA ReplayedInit == StartupInit => UniqueReplayed /\ UniqueEntered /\ SortedReplayed /\ InverseReplayed
  BY DEF StartupInit, UniqueReplayed, UniqueEntered, SortedReplayed, InverseReplayed
-----------------------------------------------------------------------------
(* Between the steps of the Listener, and for all documents but the one an *)
(* event is changing, the indexes are as far as the cache.                 *)
LEMMA SettledAhead ==
    ASSUME StartupInv, phase = "serve", NEW listener, NEW id \in Feed!Settled
    PROVE  Ahead(listener)[id] = cache[id]
  <1>1. CASE stage = "idle"
    BY <1>1 DEF Ahead
  <1>2. CASE stage # "idle"
    <2>1. feed[taken] \in Events /\ id \in Ids /\ id # feed[taken].id
      BY <1>2, EventInHand DEF Feed!Settled, Feed!event
    <2>2. Brought(cache, feed[taken])[id] = cache[id]
      BY <2>1, BroughtFacts DEF StartupInv, ListenerOK
    <2> QED BY <2>2 DEF Ahead
  <1> QED BY <1>1, <1>2

(* When the stream has come to the reading of all documents, the Listener  *)
(* is between two events.                                                  *)
LEMMA AllUpToDate ==
    ASSUME StartupInv, Replayed >= 0, UpToDate = Ids
    PROVE  /\ phase = "serve" /\ stage = "idle"
           /\ \A id \in Ids : readAt[id] <= Replayed
  <1>1. phase = "serve"
    BY DEF Replayed
  <1>2. stage = "idle"
    <2> SUFFICES ASSUME stage # "idle" PROVE FALSE
      OBVIOUS
    <2>1. feed[taken] \in Events
      BY <1>1, EventInHand
    <2>2. feed[taken].id \in UpToDate
      BY <2>1 DEF Events
    <2> QED BY <2>2 DEF UpToDate, Feed!Settled, Feed!event
  <1> QED BY <1>1, <1>2 DEF UpToDate

LEMMA KeyIsKeyOf ==
    ASSUME UniqueKeyed, NEW doc \in Docs, NEW key \in Keys(UniqueFrom)
    PROVE  key \in KeysOf(doc, UniqueFrom) <=> key = Key(doc, UniqueFrom)
  <1>1. UniqueFrom \in Seq(Fields) /\ key # <<>>
    BY EntityStoreAssumption DEF Keys
  <1> QED BY <1>1, KeysOfScalars DEF UniqueKeyed

(* What the invariant says to who looks up a key.                          *)
LEMMA UniqueReplayedLeads ==
    ASSUME AllFollowed, UniqueKeyed, StartupInv, UniqueReplayed, Replayed >= 0, UpToDate = Ids,
           NEW key \in Keys(UniqueFrom), unique[key] # Nil
    PROVE  cache[unique[key]] # NoDoc /\ key \in KeysOf(cache[unique[key]], UniqueFrom)
  <1>1. phase = "serve" /\ stage = "idle" /\ \A id \in Ids : readAt[id] <= Replayed
    BY AllUpToDate
  <1>2. PICK id \in Ids : unique[key] = id /\ Holder("unique", id, key, UniqueFrom)
    BY <1>1 DEF UniqueReplayed
  <1>3. Has(cache[id], key, UniqueFrom)
    BY <1>1, <1>2, HolderIsCached
  <1>4. cache[id] \in Docs
    BY <1>3 DEF Has, StartupInv, ListenerOK, States
  <1> QED BY <1>2, <1>3, <1>4, KeyIsKeyOf DEF Has

(* And to who misses a document.                                           *)
LEMMA PassedByIsPassedOver ==
    ASSUME UniqueKeyed, StartupInv, phase = "serve", NEW id \in Ids, NEW key \in Keys(UniqueFrom),
           Replayed \in 0..Len(log), PassedBy(Replayed, id, key)
    PROVE  PassedOver(id, key)
  <1>1. /\ Len(log) \in Nat /\ Len(history) = Len(log) + 1 /\ readAt[id] \in 0..Len(log)
        /\ \A n \in 1..Len(history) : history[n] \in States
        /\ \A k \in 1..Len(log) : log[k] \in Events
        /\ found \in Seq(Events)
    <2>1. Recorded /\ found \in Seq(Events)
      BY DEF StartupInv, FoundOK
    <2> QED BY <2>1, ReadPlaces, RecordedFacts
  <1>2. PICK j \in 1..Len(found), k \in 1..readAt[id] :
           /\ found[j].id = id
           /\ k \in 1..Len(log) /\ log[k].op = "update" /\ log[k].id = id
           /\ Key(log[k].fields, UniqueFrom) = key
           /\ \E n \in 1..k, other \in Ids \ {id} : HasKey(history[n][other], key)
           /\ \A n \in k..Replayed : HasKey(history[n + 1][id], key)
    BY DEF PassedBy
  <1>3. ASSUME NEW n \in 1..Len(history), NEW x \in Ids, HasKey(history[n][x], key)
        PROVE  history[n][x] # NoDoc /\ key \in KeysOf(history[n][x], UniqueFrom)
    <2>1. history[n][x] # NoDoc /\ history[n][x] \in Docs /\ key = Key(history[n][x], UniqueFrom)
      BY <1>1, <1>3 DEF HasKey, States
    <2> QED BY <2>1, KeyIsKeyOf
  <1>4. key \in KeysOf(log[k].fields, UniqueFrom)
    <2>1. log[k].fields \in Docs
      BY <1>1, <1>2 DEF Events
    <2> QED BY <1>2, <2>1, KeyIsKeyOf
  <1>5. \E n \in 1..k, other \in Ids \ {id} :
           history[n][other] # NoDoc /\ key \in KeysOf(history[n][other], UniqueFrom)
    <2>1. PICK n \in 1..k, other \in Ids \ {id} : HasKey(history[n][other], key)
      BY <1>2
    <2>2. n \in 1..Len(history)
      BY <1>1, <1>2
    <2> QED BY <1>3, <2>1, <2>2
  <1>6. \A n \in k..Replayed :
           history[n + 1][id] # NoDoc /\ key \in KeysOf(history[n + 1][id], UniqueFrom)
    <2>1. \A n \in k..Replayed : n + 1 \in 1..Len(history)
      BY <1>1, <1>2
    <2> QED BY <1>2, <1>3, <2>1
  <1>7. j \in DOMAIN found
    BY <1>1
  <1> QED BY <1>2, <1>4, <1>5, <1>6, <1>7 DEF PassedOver

LEMMA UniqueEnteredFinds ==
    ASSUME AllFollowed, UniqueKeyed, StartupInv, UniqueEntered, Replayed >= 0, UpToDate = Ids,
           NEW key \in Keys(UniqueFrom), NEW holder \in Ids, unique[key] # holder,
           cache[holder] # NoDoc, key \in KeysOf(cache[holder], UniqueFrom)
    PROVE  PassedOver(holder, key)
  <1>1. phase = "serve" /\ stage = "idle" /\ \A id \in Ids : readAt[id] <= Replayed
    BY AllUpToDate
  <1>2. /\ Applied = taken /\ ToldBy("unique") = taken /\ Ahead("unique") = cache
        /\ Replayed = Applied - Len(found)
    BY <1>1 DEF Applied, ToldBy, Ahead, Replayed
  <1>3. Replayed \in 0..Len(log) /\ StreamedAt(ToldBy("unique")) = Replayed
    <2>1. Applied \in Nat /\ Len(found) \in Nat /\ Streamed \in 0..Len(log)
      BY <1>1, FeedFacts
    <2> QED BY <1>2, <2>1 DEF Streamed, StreamedAt
  <1>4. HasKey(cache[holder], key)
    <2>1. cache[holder] \in Docs
      BY DEF StartupInv, ListenerOK, States
    <2> QED BY <2>1, KeyIsKeyOf DEF HasKey
  <1>5. HasKey(history[Replayed + 1][holder], key)
    <2>1. cache[holder] = history[1 + Replayed][holder]
      BY <1>1, ReplayedIsReached
    <2>2. 1 + Replayed = Replayed + 1
      BY <1>3
    <2> QED BY <1>4, <2>1, <2>2
  <1>6. Entered(unique, Replayed, holder, key)
    BY <1>1, <1>2, <1>3, <1>4 DEF UniqueEntered, AllEntered
  <1>7. ~ Coming(Replayed, holder, key)
    <2>1. \A id \in Ids : readAt[id] \in Nat
      BY <1>1, ReadPlaces
    <2> QED BY <1>1, <1>3, <2>1 DEF Coming
  <1>8. PassedBy(Replayed, holder, key)
    BY <1>5, <1>6, <1>7 DEF Entered
  <1> QED BY <1>1, <1>3, <1>8, PassedByIsPassedOver

LEMMA LostAreLost == StartupInv /\ phase = "serve" => Lost \subseteq Feed!LostKey
  <1> SUFFICES ASSUME StartupInv, phase = "serve", NEW k \in 1..taken, ~ RemovesNone(feed[k])
               PROVE  feed[k].id \in Feed!LostKey
    BY DEF Lost
  <1>1. PICK n \in 1..Len(InverseFrom) : InverseFrom[n] \in feed[k].removed
    BY DEF RemovesNone
  <1>2. InverseFrom[n] \in Feed!Lists!ToSet(InverseFrom)
    BY EntityStoreAssumption DEF Feed!Lists!ToSet
  <1> QED BY <1>1, <1>2 DEF Feed!LostKey

(* What the invariant says to who asks for the documents under a key.      *)
LEMMA InverseReplayedLists ==
    ASSUME StartupInv, InverseReplayed
    PROVE  ListedAfterStartup
  <1> SUFFICES ASSUME NEW id \in UpToDate, NEW key \in Keys(InverseFrom)
               PROVE  /\ Due(id, key) <= Times(inverse[key], id)
                      /\ id \notin AddedTwice \cup Feed!LostKey => Due(id, key) = Times(inverse[key], id)
    BY Lookups DEF ListedAfterStartup
  <1>1. id \in Ids /\ phase = "serve" /\ id \in Feed!Settled
    BY DEF UpToDate, Replayed
  <1>2. /\ Inverse!TypeOK /\ Finds(Ahead("inverse"), id)
        /\ id \notin AddedTwice \cup Lost => Exactly(Ahead("inverse"), id)
    BY <1>1 DEF InverseReplayed
  <1>3. Due(id, key) = IF Holds(Ahead("inverse")[id], key) THEN 1 ELSE 0
    BY <1>1, SettledAhead DEF Due, Holds
  <1>4. Times(inverse[key], id) \in Nat
    BY <1>1, <1>2, KeptNumber
  <1>5. Due(id, key) <= Times(inverse[key], id)
    BY <1>2, <1>3, <1>4 DEF Finds
  <1>6. id \notin AddedTwice \cup Feed!LostKey => Due(id, key) = Times(inverse[key], id)
    BY <1>1, <1>2, <1>3, LostAreLost DEF Exactly
  <1> QED BY <1>5, <1>6
-----------------------------------------------------------------------------
(* Once the stream has come to where the query was, a lookup in the unique *)
(* index leads to a document that has the key, and from every key a cached *)
(* document has to that document, unless it was passed over: it has the    *)
(* key from an update the query had seen already, and another had it       *)
(* before.  This is so though documents were added twice and older keys    *)
(* replayed over newer ones, provided every document has a key that no     *)
(* update takes away or changes a part of, and the fields are no slices    *)
(* (NewInMemory over Listener and the unique index).                       *)
THEOREM UniqueAfterReplay ==
    ASSUME AllFollowed, UniqueKeyed
    PROVE  StartupSpec => []UniqueAfterStartup
  <1> DEFINE I == StartupInv /\ UniqueReplayed /\ UniqueEntered
  <1>1. StartupInit => I
    BY InitEstablishes, ReplayedInit
  <1>2. I /\ [StartupNext]_<<vars, startupVars>> => I'
    BY StartupInvInductive, UniqueReplayedInductive, UniqueEnteredInductive
  <1>3. I => UniqueAfterStartup
    <2> SUFFICES ASSUME I, Replayed >= 0, UpToDate = Ids, NEW key \in Keys(UniqueFrom)
                 PROVE  /\ unique[key] # Nil => /\ cache[unique[key]] # NoDoc
                                                /\ key \in KeysOf(cache[unique[key]], UniqueFrom)
                        /\ \A holder \in Ids \ {unique[key]} :
                              cache[holder] # NoDoc /\ key \in KeysOf(cache[holder], UniqueFrom)
                                 => PassedOver(holder, key)
      BY DEF UniqueAfterStartup, Unique!Get
    <2> QED BY UniqueReplayedLeads, UniqueEnteredFinds
  <1> HIDE DEF I
  <1> QED BY <1>1, <1>2, <1>3, PTL DEF StartupSpec

(* The inverse index misses no document, and lists only those that were    *)
(* added twice, or have lost their key, where they do not belong, provided *)
(* an update changes or takes away all fields of the key or none           *)
(* (NewInMemory over Listener and the inverse index).                      *)
THEOREM InverseAfterReplay ==
    ASSUME AllFollowed, InverseWhole, RemovedWhole
    PROVE  StartupSpec => []ListedAfterStartup
  <1> DEFINE I == StartupInv /\ InverseReplayed
  <1>1. StartupInit => I
    BY InitEstablishes, ReplayedInit
  <1>2. I /\ [StartupNext]_<<vars, startupVars>> => I'
    BY StartupInvInductive, InverseReplayedInductive
  <1>3. I => ListedAfterStartup
    BY InverseReplayedLists
  <1> HIDE DEF I
  <1> QED BY <1>1, <1>2, <1>3, PTL DEF StartupSpec

(* Whatever the order of the query, the writers and the stream, nothing    *)
(* blocks the sorted index but the replay of an insertion over the very    *)
(* text it brought, provided an update changes all fields of the key or    *)
(* none and takes none away (NewInMemory over Listener and Sorted.Add).    *)
THEOREM SortedAfterReplay ==
    ASSUME AllFollowed, KeyKept(SortedFrom)
    PROVE  StartupSpec => []BlockedByReplay
  <1> DEFINE I == StartupInv /\ SortedReplayed
  <1>1. StartupInit => I
    BY InitEstablishes, ReplayedInit
  <1>2. I /\ [StartupNext]_<<vars, startupVars>> => I'
    BY StartupInvInductive, SortedReplayedInductive
  <1>3. I => BlockedByReplay
    BY DEF SortedReplayed, Sorted!Init, AddedAsFound, BlockedByReplay
  <1> HIDE DEF I
  <1> QED BY <1>1, <1>2, <1>3, PTL DEF StartupSpec
=============================================================================
