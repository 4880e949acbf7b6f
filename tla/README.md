# A TLA+ model of go-mongo-platform

go-mongo-platform keeps a typed, indexed copy of MongoDB collections in the
memory of one process, updates it from a change stream, and offers `Await*`
operations that write to MongoDB and return once the copy shows the write.
This directory holds TLA+ modules that model the library, TLC configurations
that check them on small instances, and TLAPS proofs of the central results for
every value of the constants.

## The system

| Component | Code | State | Operations |
|---|---|---|---|
| `Await*` | `pkg/inmemory/factory.go` | a channel per call | `AwaitCreate`, `AwaitUpdate`, `AwaitUpdateDoc`, `AwaitDelete` |
| Notifier | `pkg/inmemory/notifier.go` | three maps (operation, id) → callbacks, one lock | `AddListener*`, `DeleteListener*`; `Add`, `Update`, `Delete` from the stream |
| Stream | `pkg/mongo/stream.go` | the change stream, listeners by namespace | `Listen` (one goroutine), `AddListener` |
| Event decoding | `pkg/mongo/listener.go`, `models.go` | none | `Listen`: event → `Add`, `Update` or `Delete` |
| Listener | `pkg/inmemory/listener.go` | ordered lists of before- and after-listeners | `Add`, `Update`, `Delete`: before-listeners, cache, after-listeners |
| Cache, Idx | `pkg/inmemory/cache.go`, `idx.go` | documents by id; ids ↔ numbers | `Add`, `Update` (merge), `Delete`, `Get`, `GetByIndex`, `All` |
| Indexes | `inverseindex.go`, `inverseuniqindex.go`, `sortedindex.go`, `suffixindex.go` | key → ids; key → id; a B-tree; trigrams → numbers | `Add`, `Update`, `Delete` before the cache (the suffix index before and after), lookups |
| Processor | `pkg/mongo/processor.go` | none; reads the cache | `Create`, `Update` (diff against the cache), `Delete` |
| Creator, Updater, Remover | `pkg/mongo/*.go` | none | one MongoDB command each; `UpdateOne` filters on the version |
| Start-up | `NewInMemory` | what the query has found | registers with the stream, loads the (filtered) collection, hands it to the Listener |
| Intersect | `pkg/inmemory/intersect.go` | none | what lists of ids, or of numbers, have in common |
| Searcher | `pkg/mongo/searcher.go` | none | reads by id and by filter, decoded without JSON |
| Listeners of the application | registered by the application | its own | run on the stream goroutine |
| Index configuration, Upsert | `pkg/inmemory/builder.go`, `pkg/mongo/upsert.go` | none | parsing of tags, bulk writes |

How they interact. A write goes from an `Await*` call through the Processor
(which reads the cache) to MongoDB. MongoDB orders the writes and emits a change
event for each. The stream goroutine takes them one at a time: decode, Listener
(before-listeners, cache, after-listeners), and last the Notifier, which calls
the callbacks of the operation and id of the event. Each callback sends on the
unbuffered channel of its call.

What is hard here. The writer's goroutine, other writers and the stream goroutine
meet at the Notifier's lock and at the channels; the events of one's own write
and of another's look the same; events carry only the changed fields, so an
error in one merge never heals; each index finds the entry it must remove by
computing the *old* key from the cache, so the order of calls within one event
matters; `Processor.Update` diffs against a cache that lags behind the
database it then writes to; a process that starts replays events over documents
that show their effect already; and an entity passes through BSON, JSON and
reflection, which do not agree on names, nulls and embedded structs. `PROJECT.json` lists these points, under `hazards`,
with the line where each bites.

What makes each component correct:

* *Await and Notifier*: a call that returns without error finds its write in the
  cache; no wake-up is lost; no callback runs after its call has returned; every
  call returns; the stream goroutine never gets stuck.
* *Stream, Listener, Cache*: the cache always equals a state the collection has
  been in, and moves through these states in order.
* *Indexes*: a lookup answers as the cached documents would.
* *Start-up*: whenever the collection is written to meanwhile, cache and indexes
  converge to it.
* *Locks*: every lookup returns; memory is not shared without a lock.
* *Entities*: collection, cache and application agree on every field, and an edit
  of one field leaves the others alone.
* *Processor and Updater*: no update overwrites a change its author has not
  seen; what is written is what the author meant; an update that is not written
  is an error.

## The modules

| Module | Models |
|---|---|
| `Projection` | the promise about one collection: a view that moves through the collection's history, one write at a time (abstract specification) |
| `Await` | the Await protocol: callers, Notifier, stream goroutine, MongoDB, faults |
| `Await_proofs` | the theorems about `Await` |
| `Documents` | documents, the merge of an update event, the keys of the indexes |
| `Cache`, `InverseIndex`, `UniqueIndex`, `SortedIndex`, `SuffixIndex` | one component each, one action per method |
| `Texts`, `Intersections` | texts as codes, their order and their trigrams; `Intersect` and `IntersectInt` |
| `EntityStore` | composes these: the Listener handling one event, call by call, with other writes and lookups in between |
| `EntityStore_proofs` | theorems about the cache, the numbering, the types, the unique and the inverse index in `EntityStore`; facts about keys |
| `Indexes_proofs` | theorems about the sorted and the suffix index in `EntityStore`, and about queries that combine the indexes; extends `EntityStore_proofs` |
| `Warmup` | a process starting beside writers: the query, the writers, and what is handed to the Listener; extends `EntityStore` |
| `Startup` | extends `Warmup`: the Listener of `EntityStore`, driven with the query's result and then the stream |
| `Warmup_proofs`, `Startup_proofs` | theorems about `Startup`: the invariants and what a step does to them; the Listener's steps and the theorems. `Warmup_proofs` extends `EntityStore_proofs` |
| `Lists_proofs` | facts about numbers, lists and loops that the other proofs cite |
| `Entities` | an entity field by field, through Create, Update, decoding, the merge and the copy `Get` returns |
| `OptimisticUpdate` | clients that read, edit and update documents through Processor and Updater |
| `OptimisticUpdate_proofs` | the theorems about `OptimisticUpdate` |
| `Locks` | who takes which RWMutex, in which order, and what memory is used under it |
| `Locks_proofs` | the theorems about `Locks` |
| `MCAwait`, `MCEntityStore`, `MCStartup`, `MCEntities`, `MCOptimisticUpdate` | the instances for TLC (`Locks` needs none) |

Definitions whose comment begins with *Mutation* are variants with a plausible
bug. No specification uses them; each is put in the place of the definition it
precedes to see that a property fails then.

### Await

| Code | Model |
|---|---|
| `AddListener*` returning | `Subscribe`: needs the Notifier's lock |
| `Processor.Update`: absent from the cache, no difference, difference | the three disjuncts of `Prepare` |
| the MongoDB command | `WriteHit`, `WriteMiss`, `WriteFails`; `WriteNothing` for an `AwaitUpdateDoc` without fields |
| `if err != nil { DeleteListener* … }` | `GiveUp`, then `Unsubscribe`, which needs the lock |
| `<-ch` | `pc[c] = "receive"`, left by `Handoff` only: there is no other way out in the code |
| `Stream.Listen` up to the Notifier | `TryNext`: cache lookups are atomic under the cache's lock, so the steps before the Notifier's lock show as one |
| `Notifier.Add/Update/Delete` | `NotifyLock`, `CallNext` and `Handoff` per callback in any order, `NotifyDone` |
| `Listen` returning | `StreamEnds` |

A document is its version, and a version is the position of its write in the
oplog, which assumes that clock readings differ. `listeners` holds callers
where the code holds callbacks under fresh uuids. `own` is a ghost: where in the
oplog the call's own write is. Faults are chosen by the constant `Faults`.
`FreshCallers` restricts callers to documents, and versions, that they see in the
cache; without it a write may match nothing, and `CallsReturn` fails as
`await_unmatched` shows.

### EntityStore

`Receive` takes the next event; `CallBefore` calls one before-listener, in any
order (the code ranges over a Go map to register them), `Apply` the cache,
`AfterSuffix` the suffix index once more. `Insert`, `Modify`, `Remove` are the
collection, which keeps the unique keys apart as a unique index of the
database would. `GetByIndex` is an application thread.

`QueryExact` is about what an application does with the answers: it intersects the
list of a key with the result of a search, and has the sorted index order what is
left.

A key is a sequence of values instead of their concatenation: two different
sequences that spell the same text are not modelled. Only a nil pointer is left out of a key
(`Nil`); in a field that is no pointer the code makes a key of the empty string and of zero as well,
and no instance has such a field in a key. The trigrams of a text and
the spelling of values are constants. `SortedIndex!locked` is the lock
`sorted.Add` never releases when it meets an item that is there already.

### OptimisticUpdate

A client reads a document from the cache or the database, edits it (`ReadCache`,
`ReadMongo`), or edits the entity `Update` has returned (`EditAgain`); `Prepare`
diffs it against the cache as it is by then; `UpdateOne` and `UpdateNone` are
the command, with the filter on the version. `Overwrite` is an `UpdateOne` with
no version. Edits do not clear a field: what clearing does is the subject of the
run `store_cleared`. `origin` and `own` are ghosts. Fields are pointers, slices or
maps (`Plain = {}`): other kinds are in `Entities`.

### Startup

All of this is in `Warmup` but `HandleFeed`, which is in `Startup`.

| Code | Model |
|---|---|
| `mongo.NewStream` before `NewInMemory` | the stream keeps all events from the initial state on: `feed` |
| `Searcher.All` / `FindWithFilter` and the cursor | `Read` per document, in any order, with writes in between; a document that does not match is passed over |
| the query or the cursor fails | `QueryFails` |
| the loop that calls `listener.Add`, then `Stream.Listen` | `HandleFeed`: first `found`, then the events, all through `EntityStore!Handle` |
| `NewInMemory` returning, `Listen` | `Listen` |

A cursor is no snapshot, so each document is read at a time of its own (`readAt`).
Writes happen before `Listen` or while the Listener has nothing to do: the Listener
never looks at the collection, so a write in the middle of an event's handling
differs in nothing from one after it. The indexes are registered in one fixed
order here (`Order`); `store` has checked all orders.

### Entities

One entity of one of three types, with structs (embedded, tagged, inline), pointers,
slices, maps, scalars and ObjectIDs. `PrepareCreate`, `FieldDoc` and `Value` are what
`Create` writes; `PrepareUpdate` compares with the cached copy; `Decode("json", ...)`
is how events reach the cache, `Decode("bson", ...)` how the warm-up query does;
`Upd` is `cache._upd`; `Copy` is `Get`. `Create`, `Edit`, `WriteThrough`
(an application that writes through a pointer it got) and `Restart` are the steps, each
with its event applied at once: timing is the subject of the other modules. MongoDB's
`updatedFields` are taken to be the keys whose value has changed. A nil slice and an
empty document are encoded as null.

### Locks

A method is a set of paths, a path a sequence of locking, reading, writing and calling.
`Want` and `Lock` split `RWMutex.Lock` in two: a writer that waits stops new readers, and
that includes a reader that asks for a second read lock. A writer takes no lock it has.
`Find`, which `SuffixSearch` and `SuffixFind` share, searches once or twice (`Search`)
under the lock `m`. Listeners of the application
(`listener`) make any lookup, on the stream goroutine. What is read and written is left
out here; in the other modules, in turn, a method that holds its lock throughout is one
step. The Notifier's lock is in `Await`, the lock that `sorted.Add` keeps in `Startup`.

## The runs

| Run | Expects | Shows |
|---|---|---|
| `await_exclusive` | pass | Callers that share no document and write what they see in the cache, through `Await*` only; writes may fail: `ReadYourWrite`, `NotWedged`, `CallsReturn`; cache and collection implement `Projection` with its fairness. |
| `await_shared` | pass | Overlapping callers, another process, every fault: `NoSendOnClosed`, `NoMissedNotification`, `ProjectionSafety`, and `Inv`, the inductive invariant of the proofs. |
| `await_early_wake` | violation | `ReadYourWrite` fails for two callers of one document: the first update event wakes both. |
| `await_failed_write` | violation | `FailedCallsReturn`: the failed caller and the stream goroutine wait for each other. |
| `await_unmatched` | violation | `UnmatchedCallsReturn`: a write that matches no document makes no event, and the call does not return. |
| `store` | pass | `CacheIsProjection`; `InverseExact`, `InverseComplete`, `UniqueExact`, `SortedExact`, `SuffixFinds`, `NumbersAgree`, most of them also between the calls for one event; `QueryExact`; `SearchedBefore`: what old texts a search may still find. |
| `store_cleared` | violation | `CacheIsProjection` fails if a field is set to null. |
| `startup` | pass | `Converged`, `NothingInvented`, `ListedAfterStartup`, `UniqueAfterStartup`, `FoundAfterStartup`: what the replay leaves, and which documents the unique index may miss (`PassedOver`); `BlockedByReplay`: what it takes to block the sorted index; `CatchesUp`: else everything is handled in the end. |
| `entity` | pass | `FoundById`, `HandedInOrShown`, `ViewsAgree`, `ShownOrZero`, `EditsAreLocal`: how far the three copies of each field agree, for each kind of field. |
| `entity_overwrites` | violation | `OnlyChangedFields` fails: a nested struct is written as a whole, from a copy that an earlier event has zeroed. |
| `update` | pass | `NoLostUpdate` wherever the client has read the document; `WrittenAsEdited` for copies read from the cache; `CacheIsProjection`. |
| `locks` | pass | `RacesKnown`: the only unguarded memory; `LookupsReturn`: no deadlock, except by `GetByIndex`. |

The findings in `PROJECT.json` quote the sentence of the docs or comments that each
violation contradicts. Seven more are attached to properties of passing runs whose
statement has to make room for them:

* `store` / `InverseExact`, `LostKey`: a document that lost its key is never taken out
  of its list again.
* `store` / `SearchedBefore`: old texts stay searchable after an update.
* `entity` / `FoundById`: the zero id is replaced by a fresh one where the decoder does
  not find the id.
* `entity` / `HandedInOrShown`: the copies of `Get` share what pointers to scalars point to.
* `startup` / `UniqueAfterStartup`, `PassedOver`: x is read with the unique key a and then deleted, y is
  updated to a and then read. The replayed deletion of x takes the entry of a away, the replayed
  update of y finds a in the document and does not enter it: y is not found by its key any
  more, though nothing is left to be handled.
* `startup` / `BlockedByReplay`: a replayed insert leaves the sorted index locked.
* `locks` / `LookupsReturn`: `GetByIndex` takes its read lock twice.

Bounds. `MaxWrites` bounds the writes of a behaviour; calls that have begun count,
so that they are never starved by the bound.

* Await: two callers, two documents (`await_exclusive`) or overlapping sets of
  them (`await_shared`). Every hazard of the protocol is between one caller,
  the stream goroutine and one other writer. The theorems cover any number.
* Store: two documents, two values, four fields, four writes (564 137 states):
  enough for a key to go from one document to another and back, for a key to be removed and
  set again, for a document to be deleted and created again, and for two updates in a
  row to touch the same index. `MaxLag = 1` lets one write commit while an event is being
  handled; what commits further ahead does not influence the handling.
* Startup: the same two documents with three fields, any initial collection, three writes
  spread in any way over the query and the time after it (409 691 states, with liveness):
  enough to create a document behind the cursor's back, to change it, and to hand a unique
  key on.
* Entities: three types that have every kind of field between them, three edits (41 674
  states): one to bring the cache out of step, one that acts on it, one that writes back.
* Update: two clients, one document, three writes (creation, and two writes that
  race, one of which may be an overwrite or a deletion); four writes
  (4.7 million states) were run as well. Clients are interchangeable, so
  the run uses symmetry; it has no liveness property.
* Locks: the stream goroutine and one thread of the application, no bound on the number of
  calls (53 788 states). With two threads of the application (4.1 million states) the
  invariants were checked as well: no further race appears, and the theorems say so for any
  number.

`CHECK_DEADLOCK FALSE`: with `MaxWrites` used up and everything delivered,
nothing is left to do, and some deadlocks are what the runs show. `NotWedged`, `CallsReturn`,
`CatchesUp` and `LookupsReturn` say where waiting must end.

Fairness (`Await!Fairness`, for `CallsReturn`, `ProjectionSpec` and the two
temporal violations). A caller that has begun goes on: MongoDB commands end at
the latest with `connectionTimeout`, so `CallStep` is weakly fair. Go's mutexes
hand over to a starving waiter, so `Subscribe` and `Unsubscribe` are strongly
fair: the lock may be taken and released for ever meanwhile. The stream goroutine
loops on `TryNext` and ranges over callbacks, so `Deliver` is weakly fair.
Nothing makes callers begin, other processes write or the stream end.
In `Startup` one weak fairness suffices, that of the starting goroutine: the query
answers or fails, `NewInMemory` goes on, `Listen` loops. In `Locks` a thread that has
begun is strongly fair: a mutex in starvation mode is handed to who waits, and
`RWMutex.Unlock` lets the waiting readers in before the next writer.

## The proofs

`Await_proofs.tla`, checked by TLAPS for all sets of callers and documents, all
`Writes`, `Foreign`, `Faults` and `MaxWrites` that satisfy `ConstantsAssumption`:

1. `Invariance`: `Spec => []Inv`. `Inv` joins the types with four parts.
   `HistoryOK`: each oplog entry explains a step of the history, and the cache
   is the state the applied prefix leads to. An update in the oplog found its
   document when it was written; since the cache follows the same states, it
   finds it in the cache too, and ignoring updates of absent documents loses
   nothing. `ListenersOK`: a call is registered from `Subscribe` to its return,
   under its own key only; what else is registered was woken a moment ago and is
   dropped by `NotifyDone` before the lock is free. `StreamOK`: the callbacks
   still to run are exactly the registered ones of the event's key whose calls
   have not returned. `AwaitedOK`: the event a caller waits for is not behind the
   stream. None of the properties is inductive alone: `NoSendOnClosed` needs
   `StreamOK` to know that a caller cannot leave during a delivery other than
   by being woken, which needs `ListenersOK`, and `NoMissedNotification` needs
   all three.
2. `TypeCorrect`, `ChannelsOpen`, `NothingMissed` follow from `Inv`.
3. `CacheIsProjection`: `Spec => ProjectionSafety`, by refinement: a write is
   `Projection!Commit`, `TryNext` is `Projection!Apply`, the rest stutters.
4. `ReadAfterWrite`, `StreamNotWedged`: under `Exclusive` (no two callers share
   a document, nobody else writes theirs, answers arrive), which is a sufficient
   condition that the docs do not state; the violations show what happens
   without it. The invariant on top of `Inv` is `ExclusiveInv`: of the events
   on a caller's documents that are not yet delivered to it, there is at most
   one, and it is the one the caller waits for.

`OptimisticUpdate_proofs.tla`, for all clients, documents, contents, overwrites and bounds
that satisfy `OptimisticUpdateAssumption` (no plain fields; versions are distinct because
version k is the one the k-th write stored):

1. `Invariance`: `Spec => []Inv`. The argument is about versions: a version is stored by
   one write, and a document that has moved on never has it again (`VersionsOK`). So if the
   filter of `UpdateOne` matches, nothing has happened to the document since the client read it,
   in the database; nor in the cache between the reading and the diff, since the
   cache runs through the same history (`CacheOK`, which needs that events tell what
   the writes did: `EventsOK`). `Knows` is what a client in the middle of `Update`
   carries along: what it has read stands in the history where its version says, and
   the fields it is to set are the difference to a state in between.
2. `TypeCorrect`, `NothingLost`, `WritesWhatWasEdited` follow from `Inv`;
   `NoLostUpdate` alone is not inductive, since it says nothing of calls under way.
3. `CacheFollows`: `Spec => CacheIsProjection`, by refinement.

`EntityStore_proofs.tla`, for all documents, fields, index definitions, updates and bounds
that satisfy `EntityStoreAssumption`:

1. `Invariance`: `Spec => []Inv`. `EventsOK` says what each event tells of its write;
   `CacheOK` that the cache has the documents of the state reached, with the same values in
   all *followed* fields: those that are not plain, never set to null and never removed from an
   embedded struct. So an insert event meets no cached document, and
   `NumbersAgree` then says that the id has no number: this is why `Add`, which would not
   take an old number back, never leaves one.
2. `NumbersStayOneToOne`: `Spec => []NumbersAgree`, with `GetByIndex` at any moment.
3. `CacheFollows`: if all fields are followed (`AllFollowed`, a condition on the entity type and
   the updates), `Spec => CacheIsProjection`. `store_cleared` shows a behaviour without it.
4. `TypeCorrect`: `Spec => []TypeOK`, over every method of every index. It rests on what
   the keys are: `Key` is a loop over the fields (`Loop`), and what it has put
   together after n of them is proved by induction on n, as the induction of a
   set of numbers that has 0 and with each number the next (`Lists_proofs`; the library's
   own induction takes a predicate as a parameter and cannot be used).

An index is compared with the state of the collection that
the events have led *that index* to: while a before-listener is still to be called, one
state less than where the cache will be (`UniqueReached`, `InverseReached`). This is the
strengthening: `UniqueExact` and `InverseExact` speak of the cache and only of documents
the Listener is not busy with, while an index finds the entry it must remove through the
cache's old content.

5. `UniqueIsExact`: `Spec => []UniqueExact` if `UniqueKeyed`. The invariant `UniqueInv` says that
   the database keeps keys apart in every state of the history, that every document has a
   key, and that the index leads from a key to a document exactly if the document has it
   in the state reached. `UniqueKeyed` is what the code needs, not what the proof does: an
   update of some fields of a composite key makes a key of these alone (`Whole`), one that
   removes the key leaves its entry behind, and `Delete` formats a slice as a whole and
   misses the entries of its elements.
6. `InverseIsExact`: `Spec => []InverseExact` if `InverseWhole`. The invariant counts: how often
   the list under a key holds an id is 1 if the document has the key in the state reached,
   and 0 if not; for documents that have lost their key (`LostKey`) the property, and so
   the invariant, makes room. `InverseWhole` asks that an update brings all fields of a
   key or none, and that the lists hold ids (`To = Nil`: with a `to` field they hold
   values that several documents share).
7. `InverseMissesNone`: `Spec => []InverseComplete` if in addition an update removes all fields of a
   key or none (`RemovedWhole`). This one leaves no document out: one that has lost its key
   is listed too often, never too rarely.

`Indexes_proofs.tla`, under the same assumption, goes on with the other two indexes:

1. `SortedNeverBlocks`, `SortedHoldsTexts`: `Spec => []` that `Sorted.Add` never meets its item
   in the tree, and that the tree has for each cached document the item of its text and no
   other of it. Again the tree is compared with the state its events have led it to
   (`SortedReached`). `SortedKeyed` and `KeyKept` are needed by the code: `Update` leaves the
   old item where an event takes the text away, and a document that is then deleted and
   created again with that text meets it, which leaves the lock taken for good.
2. `SuffixPostsTexts`, without hypotheses, and `SuffixPostsNoOther`, if the indexed fields are
   followed. `PostingsInv`: a number is posted at most once under a trigram (`Once`), and the
   number of a settled document is posted under all trigrams of its text. It holds across
   deletion and re-creation because a number that is given out is fresh, so it is posted
   nowhere yet, and because ids and numbers are one to one (`NumbersAgree`).
   `PostedBefore` says the converse: what is posted was a trigram of the text since
   the document was created last (`Since`).
3. `PartsAreFound`: `Spec => []SuffixFinds`, without hypotheses, and `OldTextsAtMost`:
   `Spec => []SearchedBefore`. The trigrams of a part of a text are trigrams of the
   text (`PartGrams`), and what `Search` has after k trigrams is, by induction on k, what is posted
   under all of them, once (`NumbersTimes`). The loops `Only` and `Numbers` are recursive
   functions; that such a definition has a result is `Recursion` in `Lists_proofs`.
4. `SortedIsExact`: `Spec => []SortedExact` if `KeyKept(SortedFrom)`, `SortedKeyed` and `IdsSpelled`
   (ids have equally many characters, as hexadecimal ObjectIDs do, and differ). The tree is finite, so
   there is an order of its items (`Lists_proofs`: a finite set is sorted by a strict total order),
   which is what `fill` reads off; that `Less` is such an order needs that no two items spell
   alike, for which the ids must be of one length. Where the order of two items is not that of their
   texts, the one text begins with the other (`OnlyPrefixesTurn`).
5. `QueriesAreExact`: `Spec => []QueryExact` if in addition `InverseWhole`. `Intersect` counts: an id
   is in the result if the list of the key and that of the search hold it twice together
   (`CountOfTwo`), which means once each, because by the invariants of the two indexes neither
   holds it twice.

The instance of the run `store` satisfies all these hypotheses: its keys have
one field, and its unique field is never removed.

`Warmup_proofs.tla`, `Startup_proofs.tla`, for all documents, updates, filters and bounds:

1. `StartupConverges`, `StartupInventsNothing`: `StartupSpec => []Converged` and
   `[]NothingInvented` if `AllFollowed`. Neither is inductive: between the reading of a document and the
   moment the stream gets there, old events run over newer content, and a cached document may be a
   mixture, one that the collection has never had. `ReplayOK` says of what: it is `Between` the
   state at its reading (or the stream's, if that is further) and the stream's own, each field
   being as in one of the two. An event that touches a field brings both to the same value, one
   that does not leaves both, a deletion takes the document from the cache and the stream's
   state, and where the stream comes to the reading the two are the same state. `NothingInvented`
   is what a reader sees of this: two states, and no third.
2. `StartupTypeCorrect`: `StartupSpec => []StartupTypeOK`, without any hypothesis on the updates. The
   Listener's actions in `Startup` are those of `EntityStore` with `feed` in the place of `log`
   (`Feed`); lemmas say for each that it is the same relation, so that the proofs of
   `EntityStore` carry over. Here an insert may find its document in the cache, and
   the numbering may be left with an old number: types are what survives.
3. `UniqueAfterReplay`, `InverseAfterReplay`, `SortedAfterReplay`: `StartupSpec => []UniqueAfterStartup`,
   `[]ListedAfterStartup`, `[]BlockedByReplay`, if `AllFollowed` and, of the keys, `UniqueKeyed`,
   `InverseWhole` with `RemovedWhole`, and `KeyKept`. While old events run over newer documents no index
   agrees with the cache's state or the stream's: each entry is of a key that the document has as
   the index knows it (`Ahead`: one event further than the cache, at most) or that it had
   when it was read. What the invariants count on is that both are the same key as soon as
   the stream has come to the reading, so what is wrong with an entry ends there.
   For the other direction of `UniqueAfterStartup`, that a document is found by its key, the
   invariant is `Entered`: if a document has a key, as the index knows it, then it has it from
   the stream or from its reading, and the key leads to it unless another had the key before, or at
   that other's own reading (`AlsoHad`); and if the stream's document has the key, then the key
   leads to it, or an update was passed over (`PassedBy`), or another is still to be replayed
   that was read with the key later (`Coming`). `Coming` ends with the last reading. Only
   one document has a key in any one state (`OneHasKey`), so an event that takes a
   key from one document and an event that gives it to another cannot be confused.
   A document that was added twice (`Twice`) is listed twice in the inverse index for good: the
   property says so.

`Locks_proofs.tla`, for any set of threads:

1. `LocksAreExclusive`: `Spec => []TypeOK`, which says that a lock is had by one writer or by readers
   and that a writer has first announced itself. The invariant `LocksInv` is built on a small
   calculus: `Runs(p, h, g)` says that the path p, begun with the locks h, uses all memory under
   its lock but where `RacesKnown` makes an exception, takes locks in order, and ends with
   the locks g. Each path of each method ends with the locks it began with, so that
   replacing a call by the method's path (`Enter`) keeps `Held`: what a thread has yet to do runs,
   begun with the locks it has.
2. `RacesAreKnown`: `Spec => []RacesKnown`. Two threads about to use the same memory, one of them writing,
   would both have the lock that guards it, which `Exclusive` excludes.
3. `LocksNeverStuck`: while any thread has work, one can go on, unless a thread of the application
   waits in `GetByIndex` for the read lock of the cache that it has itself. Locks have two ranks: whoever
   has one of the second (`Last`) waits for none but the cache's, again, to read; so of all who
   wait, one waits for somebody who goes on. The stream goroutine is not among those that block
   themselves, because only it writes the cache (`OneWriter`). That every lookup *returns*
   (`LookupsReturn`) is liveness and stays with TLC.

Only model-checked:

* liveness, which TLAPS cannot reach: `CallsReturn`, `CatchesUp`, `LookupsReturn`, the fairness part
  of `ProjectionSpec`; their safety halves are `StreamNotWedged` and `LocksNeverStuck`;
* `FoundAfterStartup`: after a start the suffix index may know a document under two numbers, which the
  proofs about it exclude (`NumbersAgree`);
* all of `Entities`, whose operators are recursive as the code is.

## Not modelled

* Of entities: arrays, pointers to slices and maps, `json.RawMessage`, decimals, options in the
  tags of scalars, structs nested more than once; the text of keys, so that different keys that
  spell alike are told apart; composite and slice keys in the runs (the modules have them).
* `prepareIdxs`, the parsing of index tags: fields of indexes are constants.
* The ranking of `Find` beyond the counts, B-trees, pools of tree nodes.
* Results of data races: `RacesKnown` shows where there are races, the other modules take
  methods to be atomic.
* Contexts (no `Await*` receive looks at one); clocks that repeat a reading.
* Replacements of documents and updates of paths inside a struct, which writers outside the
  library may make and the Listener does not know; events that do not decode, several
  collections on one stream; resumption of a
  broken stream, which the docs describe and `src` does not contain.
* `Upsert`, `RemoveMany`, `Union`, `UnionInt`, `LeftOutter`, which the library does not call;
  what listeners of the application do besides lookups, `Notify` included; the
  wiring of a collection, which keeps no state; the examples.

## Plan

1. Composite keys, slice keys and `to` fields in the instances of the store.
2. Events that do not decode, and several collections, in a module of `Stream.Listen`.
3. `prepareIdxs` as a pure algorithm with a reference definition.
4. `Entities` without recursive operators, so that `EditsAreLocal` can be proved for structs without
   nesting.
