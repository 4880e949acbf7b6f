-------------------------------- MODULE Await --------------------------------
(***************************************************************************)
(* The read-after-write protocol of the library: callers of AwaitCreate,   *)
(* AwaitUpdate, AwaitUpdateDoc and AwaitDelete, MongoDB with its change    *)
(* stream, the one goroutine that runs Stream.Listen, the cache it         *)
(* maintains, and the Notifier (AwaitNotify) through which it wakes the    *)
(* callers.                                                                *)
(*                                                                         *)
(* A caller subscribes for (operation, id), writes to MongoDB, and blocks  *)
(* on an unbuffered channel until the stream goroutine, having applied an  *)
(* event of that operation on that id to the cache, calls its callback.    *)
(* The callback sends on the channel while the goroutine holds the         *)
(* Notifier's lock, which subscribing and unsubscribing need too.          *)
(*                                                                         *)
(* Data: a document is its `version' field, which every write sets; since  *)
(* versions are clock readings taken at the write, a version is modelled   *)
(* by the position of the write in the oplog (distinct readings are        *)
(* assumed).  The merge of partial updates is the subject of EntityStore.  *)
(* Every event is taken to decode and to belong to the collection.         *)
(***************************************************************************)
EXTENDS Integers, Sequences, FiniteSets

CONSTANTS
    Clients,        \* goroutines that call Await* on this collection
    Ids,            \* document ids
    Writes,         \* Writes[c]: the ids caller c writes
    Foreign,        \* the ids other processes write
    Faults,         \* what the environment may do, a subset of AllFaults
    FreshCallers,   \* TRUE: callers only touch documents they see in the cache
    MaxWrites,      \* bound on the writes of a behaviour
    NoClient        \* no callback is running

AllFaults == {"outage",         \* the write fails and changes nothing
              "lostReply",      \* the write commits, its answer does not arrive
              "streamEnd"}      \* the change stream ends with an error

Ops == {"create", "update", "delete"}
Kinds == Ops \cup {"updateDoc"}

ASSUME ConstantsAssumption ==
    /\ Writes \in [Clients -> SUBSET Ids]
    /\ Foreign \subseteq Ids
    /\ Faults \subseteq AllFaults
    /\ FreshCallers \in BOOLEAN
    /\ MaxWrites \in Nat
    /\ NoClient \notin Clients

VARIABLES
    history,        \* states of the collection, one more per committed write
    oplog,          \* the writes: oplog[k] turned history[k] into history[k+1]
    streamPc,       \* where the stream goroutine is
    applied,        \* how many oplog entries it has consumed
    cache,          \* the cached documents
    listeners,      \* the Notifier's maps: (operation, id) -> callers
    pending,        \* callbacks of the running notification not yet returned
    calling,        \* the caller whose callback is blocked in its send
    pc,             \* where each caller is
    call,           \* the arguments of its call
    reply,          \* what its write returned, then what the call returned
    own             \* ghost: oplog position of the call's write, 0 if none

mongoVars  == <<history, oplog>>
streamVars == <<streamPc, applied, cache, pending, calling>>
callVars   == <<pc, call, reply, own>>
vars == <<mongoVars, streamVars, listeners, callVars>>

NoDoc == 0
AnyVersion == 0     \* a nil version: UpdateOne does not filter on it

db == history[Len(history)]

(* AwaitUpdate and AwaitUpdateDoc both wait for an update event.           *)
OpOf(kind) == IF kind = "updateDoc" THEN "update" ELSE kind
KeyOf(c) == <<OpOf(call[c].kind), call[c].id>>

(* The key under which the stream looks for the listeners of the event it  *)
(* has just applied.                                                       *)
Dispatched == <<oplog[applied].op, oplog[applied].id>>

(* The Notifier's lock is held across the callbacks.                       *)
LockFree == streamPc # "deliver"

Busy == {c \in Clients : pc[c] # "idle"}

Init ==
    /\ history = <<[i \in Ids |-> NoDoc]>>
    /\ oplog = <<>>
    /\ streamPc = "tryNext"
    /\ applied = 0
    /\ cache = [i \in Ids |-> NoDoc]
    /\ listeners = [key \in Ops \X Ids |-> {}]
    /\ pending = {}
    /\ calling = NoClient
    /\ pc = [c \in Clients |-> "idle"]
    /\ \E i \in Ids :
          call = [c \in Clients |-> [kind |-> "create", id |-> i, base |-> NoDoc]]
    /\ reply = [c \in Clients |-> "none"]
    /\ own = [c \in Clients |-> 0]

-----------------------------------------------------------------------------
(* MongoDB.                                                                *)

Commit(op, i) ==
    /\ oplog' = Append(oplog, [op |-> op, id |-> i])
    /\ history' = Append(history,
          [db EXCEPT ![i] = IF op = "delete" THEN NoDoc ELSE Len(oplog) + 1])

(* Does the write find its document?  An update filters on the version the *)
(* caller read, if it has one; a create needs the id to be free.           *)
Matches(kind, i, base) ==
    CASE kind = "create" -> db[i] = NoDoc
      [] kind = "delete" -> db[i] # NoDoc
      [] OTHER           -> db[i] # NoDoc /\ base \in {AnyVersion, db[i]}

(* Another process, or code of this one that does not await, writes.       *)
ForeignWrite ==
    \E op \in Ops, i \in Foreign :
       /\ Len(oplog) + Cardinality(Busy) < MaxWrites
       /\ Matches(op, i, AnyVersion)
       /\ Commit(op, i)
       /\ UNCHANGED <<streamVars, listeners, callVars>>

-----------------------------------------------------------------------------
(* The Await* calls.                                                       *)

(* A version the caller may have read, from the cache or the database, for *)
(* the document it is about to write; a nil version for AwaitUpdateDoc.    *)
Bases(kind, i) ==
    IF kind # "update" THEN {AnyVersion}
    ELSE IF FreshCallers THEN {AnyVersion, cache[i]}
    ELSE {AnyVersion} \cup
         {k \in 1..Len(oplog) : oplog[k].id = i /\ oplog[k].op # "delete"}

(* A caller makes its channel and calls AddListener*, which waits for the  *)
(* Notifier's lock.                                                        *)
Begin(c) ==
    /\ pc[c] = "idle"
    /\ Len(oplog) + Cardinality(Busy) < MaxWrites
    /\ \E kind \in Kinds, i \in Writes[c] :
          /\ FreshCallers /\ kind # "create" => cache[i] # NoDoc
          /\ \E base \in Bases(kind, i) :
                call' = [call EXCEPT ![c] = [kind |-> kind, id |-> i, base |-> base]]
    /\ pc' = [pc EXCEPT ![c] = "subscribe"]
    /\ reply' = [reply EXCEPT ![c] = "none"]
    /\ own' = [own EXCEPT ![c] = 0]
    /\ UNCHANGED <<mongoVars, streamVars, listeners>>

(* Mutation: every subscription goes to the map for creates.               *)
SubscribeToCreates(c) ==
    /\ pc[c] = "subscribe"
    /\ LockFree
    /\ listeners' = [listeners EXCEPT ![<<"create", call[c].id>>] = @ \cup {c}]
    /\ pc' = [pc EXCEPT ![c] = IF call[c].kind = "update" THEN "prepare" ELSE "write"]
    /\ UNCHANGED <<mongoVars, streamVars, call, reply, own>>

Subscribe(c) ==
    /\ pc[c] = "subscribe"
    /\ LockFree
    /\ listeners' = [listeners EXCEPT ![KeyOf(c)] = @ \cup {c}]
    /\ pc' = [pc EXCEPT ![c] = IF call[c].kind = "update" THEN "prepare" ELSE "write"]
    /\ UNCHANGED <<mongoVars, streamVars, call, reply, own>>

(* Mutation: the failed call returns and leaves its callback behind.       *)
GiveUpSubscribed(c, outcome) ==
    /\ pc' = [pc EXCEPT ![c] = "idle"]
    /\ reply' = [reply EXCEPT ![c] = outcome]
    /\ UNCHANGED call

(* The call fails, or has nothing to write: it goes on to DeleteListener*. *)
GiveUp(c, outcome) ==
    /\ pc' = [pc EXCEPT ![c] = "unsubscribe"]
    /\ reply' = [reply EXCEPT ![c] = outcome]
    /\ UNCHANGED call

(* Mutation: the call does not wait for its event.                         *)
AwaitNothing(c, outcome) ==
    /\ pc' = [pc EXCEPT ![c] = "idle"]
    /\ reply' = [reply EXCEPT ![c] = outcome]
    /\ UNCHANGED call

(* The call goes on to receive from its channel.                           *)
Await(c, outcome) ==
    /\ pc' = [pc EXCEPT ![c] = "receive"]
    /\ reply' = [reply EXCEPT ![c] = outcome]
    /\ UNCHANGED call

(* Processor.Update diffs the entity against the cached one.  When the     *)
(* versions are equal the other fields may be, too; when they differ, the  *)
(* difference is something to write.                                       *)
Prepare(c) ==
    LET cached == cache[call[c].id] IN
    /\ pc[c] = "prepare"
    /\ \/ cached = NoDoc /\ GiveUp(c, "error")
       \/ cached # NoDoc /\ cached = call[c].base /\ GiveUp(c, "noop")
       \/ /\ cached # NoDoc
          /\ pc' = [pc EXCEPT ![c] = "write"]
          /\ UNCHANGED <<call, reply>>
    /\ UNCHANGED <<mongoVars, streamVars, listeners, own>>

(* The write commits; the caller learns of it, unless the answer is lost.  *)
WriteHit(c) ==
    /\ pc[c] = "write"
    /\ Matches(call[c].kind, call[c].id, call[c].base)
    /\ Commit(OpOf(call[c].kind), call[c].id)
    /\ own' = [own EXCEPT ![c] = Len(oplog) + 1]
    /\ \/ Await(c, "ok")
       \/ "lostReply" \in Faults /\ GiveUp(c, "error")
    /\ UNCHANGED <<streamVars, listeners>>

(* The write finds no document (or, creating, a duplicate key).  Only the  *)
(* duplicate key is an error: Processor.Update drops UpdateOne's `found',  *)
(* Processor.Delete the deleted count, and AwaitUpdateDoc looks at its     *)
(* `found' only after it has been woken.                                   *)
WriteMiss(c) ==
    /\ pc[c] = "write"
    /\ ~ Matches(call[c].kind, call[c].id, call[c].base)
    /\ IF call[c].kind = "create" THEN GiveUp(c, "error") ELSE Await(c, "unmatched")
    /\ UNCHANGED <<mongoVars, streamVars, listeners, own>>

(* AwaitUpdateDoc given neither fields to set nor to unset: UpdateOne      *)
(* returns (false, nil) without writing.                                   *)
WriteNothing(c) ==
    /\ pc[c] = "write"
    /\ call[c].kind = "updateDoc" /\ ~ FreshCallers
    /\ Await(c, "unmatched")
    /\ UNCHANGED <<mongoVars, streamVars, listeners, own>>

WriteFails(c) ==
    /\ pc[c] = "write"
    /\ "outage" \in Faults
    /\ GiveUp(c, "error")
    /\ UNCHANGED <<mongoVars, streamVars, listeners, own>>

(* DeleteListener*, then the call returns, closing its channel.            *)
Unsubscribe(c) ==
    /\ pc[c] = "unsubscribe"
    /\ LockFree
    /\ listeners' = [listeners EXCEPT ![KeyOf(c)] = @ \ {c}]
    /\ pc' = [pc EXCEPT ![c] = "idle"]
    /\ UNCHANGED <<mongoVars, streamVars, call, reply, own>>

-----------------------------------------------------------------------------
(* The stream goroutine.                                                   *)

(* Mutation: the position moves by two.                                    *)
TryNextTwice ==
    /\ streamPc = "tryNext"
    /\ applied < Len(oplog)
    /\ applied' = applied + 2
    /\ streamPc' = "notify"
    /\ UNCHANGED <<mongoVars, cache, pending, calling, listeners, callVars>>

(* Mutation: updates reach only the documents that are not in the cache.   *)
TryNextInverted ==
    /\ streamPc = "tryNext"
    /\ applied < Len(oplog)
    /\ LET event == oplog[applied + 1] IN
       cache' = [cache EXCEPT ![event.id] =
                   CASE event.op = "create" -> applied + 1
                     [] event.op = "delete" -> NoDoc
                     [] event.op = "update" -> IF @ # NoDoc THEN @ ELSE applied + 1]
    /\ applied' = applied + 1
    /\ streamPc' = "notify"
    /\ UNCHANGED <<mongoVars, pending, calling, listeners, callVars>>

(* It reads the next event, finds the collection's Listener and applies    *)
(* the event to the cache; an update of an absent document is ignored.     *)
TryNext ==
    /\ streamPc = "tryNext"
    /\ applied < Len(oplog)
    /\ LET event == oplog[applied + 1] IN
       cache' = [cache EXCEPT ![event.id] =
                   CASE event.op = "create" -> applied + 1
                     [] event.op = "delete" -> NoDoc
                     [] event.op = "update" -> IF @ = NoDoc THEN @ ELSE applied + 1]
    /\ applied' = applied + 1
    /\ streamPc' = "notify"
    /\ UNCHANGED <<mongoVars, pending, calling, listeners, callVars>>

(* Listen returns, and nothing starts it again.                            *)
StreamEnds ==
    /\ "streamEnd" \in Faults
    /\ streamPc = "tryNext"
    /\ streamPc' = "returned"
    /\ UNCHANGED <<mongoVars, applied, cache, pending, calling, listeners, callVars>>

(* Notifier.Add, Update or Delete takes the lock and ranges over the       *)
(* callbacks of the key ...                                                *)
NotifyLock ==
    /\ streamPc = "notify"
    /\ pending' = listeners[Dispatched]
    /\ streamPc' = "deliver"
    /\ UNCHANGED <<mongoVars, applied, cache, calling, listeners, callVars>>

(* ... in an order of the runtime's choice, one at a time ...              *)
CallNext ==
    /\ streamPc = "deliver"
    /\ calling = NoClient
    /\ calling' \in pending
    /\ UNCHANGED <<mongoVars, streamPc, applied, cache, pending, listeners, callVars>>

(* ... each blocked until its caller receives, which makes the call return *)
Handoff(c) ==
    /\ calling = c
    /\ pc[c] = "receive"
    /\ pc' = [pc EXCEPT ![c] = "idle"]
    /\ pending' = pending \ {c}
    /\ calling' = NoClient
    /\ UNCHANGED <<mongoVars, streamPc, applied, cache, listeners, call, reply, own>>

(* Mutation: the callbacks stay registered.                                *)
NotifyDoneKeeping ==
    /\ streamPc = "deliver"
    /\ pending = {}
    /\ streamPc' = "tryNext"
    /\ UNCHANGED <<mongoVars, applied, cache, pending, calling, listeners, callVars>>

(* ... and at the end drops the key's callbacks and the lock.              *)
NotifyDone ==
    /\ streamPc = "deliver"
    /\ pending = {}
    /\ listeners' = [listeners EXCEPT ![Dispatched] = {}]
    /\ streamPc' = "tryNext"
    /\ UNCHANGED <<mongoVars, applied, cache, pending, calling, callVars>>

-----------------------------------------------------------------------------
CallStep(c) ==
    \/ Subscribe(c)
    \/ Prepare(c)
    \/ WriteHit(c)
    \/ WriteMiss(c)
    \/ WriteNothing(c)
    \/ WriteFails(c)
    \/ Unsubscribe(c)

Deliver == TryNext \/ NotifyLock \/ CallNext \/ (\E c \in Clients : Handoff(c)) \/ NotifyDone

Next ==
    \/ \E c \in Clients : Begin(c) \/ CallStep(c)
    \/ Deliver
    \/ StreamEnds
    \/ ForeignWrite

Spec == Init /\ [][Next]_vars

(* Calls that have begun go on: a write ends at the latest when its        *)
(* context times out; a goroutine waiting for a sync.RWMutex that is       *)
(* released again and again gets it (Go's mutexes go into starvation       *)
(* mode), hence strong fairness.  The stream goroutine keeps polling, but  *)
(* nothing obliges callers to begin, others to write or the environment to *)
(* fail.                                                                   *)
Fairness ==
    /\ \A c \in Clients : /\ SF_vars(Subscribe(c))
                          /\ SF_vars(Unsubscribe(c))
                          /\ WF_vars(CallStep(c))
    /\ WF_vars(Deliver)

FairSpec == Spec /\ Fairness
-----------------------------------------------------------------------------
(* Types.  An oplog entry, a history state, the Notifier's three maps (one *)
(* function of operation and id), the calls.                               *)
TypeOK ==
    /\ history \in Seq([Ids -> Nat])
    /\ oplog \in Seq([op : Ops, id : Ids])
    /\ streamPc \in {"tryNext", "notify", "deliver", "returned"}
    /\ applied \in 0..Len(oplog)
    /\ cache \in [Ids -> Nat]
    /\ listeners \in [Ops \X Ids -> SUBSET Clients]
    /\ pending \subseteq Clients
    /\ calling \in Clients \cup {NoClient}
    /\ pc \in [Clients -> {"idle", "subscribe", "prepare", "write", "receive", "unsubscribe"}]
    /\ call \in [Clients -> [kind : Kinds, id : Ids, base : Nat]]
    /\ reply \in [Clients -> {"none", "ok", "unmatched", "error", "noop"}]
    /\ own \in [Clients -> Nat]

(* A callback still to be run belongs to a call that has not returned and  *)
(* so has not closed its channel: a send on a closed channel would panic   *)
(* the stream goroutine.  And it is registered under the key of the event  *)
(* being delivered.                                                        *)
NoSendOnClosed ==
    /\ calling # NoClient => calling \in pending
    /\ \A c \in pending : pc[c] \notin {"idle", "subscribe"} /\ KeyOf(c) = Dispatched

(* No lost wake-up: a caller whose write has committed and that has not    *)
(* been woken still has the event of that write ahead of it, or the stream *)
(* is dispatching this very event and will come to its callback.           *)
NoMissedNotification ==
    \A c \in Clients :
       pc[c] = "receive" /\ reply[c] = "ok" =>
          \/ applied < own[c]
          \/ applied = own[c] /\ streamPc = "notify" /\ c \in listeners[Dispatched]
          \/ applied = own[c] /\ streamPc = "deliver" /\ c \in pending

(* The inductive invariant behind the two properties above and behind      *)
(* ProjectionSafety.  HistoryOK: the oplog explains the history, and the   *)
(* cache is the state the applied part of it leads to.  ListenersOK: a     *)
(* call is registered under its key from Subscribe on; what else is        *)
(* registered has just been woken and will be dropped by NotifyDone.       *)
(* StreamOK: what the stream goroutine still has to call.  AwaitedOK:      *)
(* where the awaited event is.                                             *)
HistoryOK ==
    /\ Len(history) = Len(oplog) + 1
    /\ cache = history[applied + 1]
    /\ \A k \in 1..Len(oplog) :
          /\ history[k + 1] =
                [history[k] EXCEPT ![oplog[k].id] = IF oplog[k].op = "delete" THEN NoDoc ELSE k]
          /\ oplog[k].op = "update" => history[k][oplog[k].id] # NoDoc

Subscribed(c) == pc[c] \notin {"idle", "subscribe"}

ListenersOK ==
    /\ \A c \in Clients : Subscribed(c) => c \in listeners[KeyOf(c)]
    /\ \A key \in Ops \X Ids : \A c \in listeners[key] :
          IF Subscribed(c) THEN key = KeyOf(c)
                           ELSE streamPc = "deliver" /\ key = Dispatched /\ c \notin pending

StreamOK ==
    /\ streamPc \in {"notify", "deliver"} => applied # 0
    /\ streamPc # "deliver" => pending = {} /\ calling = NoClient
    /\ streamPc = "deliver" =>
          \A c \in Clients : c \in pending <=> Subscribed(c) /\ KeyOf(c) = Dispatched
    /\ calling # NoClient => calling \in pending

AwaitedOK ==
    \A c \in Clients :
       pc[c] = "receive" /\ reply[c] = "ok" =>
          /\ own[c] \in 1..Len(oplog)
          /\ <<oplog[own[c]].op, oplog[own[c]].id>> = KeyOf(c)
          /\ applied <= own[c]
          /\ applied = own[c] => streamPc \in {"notify", "deliver"}

Inv == TypeOK /\ HistoryOK /\ ListenersOK /\ StreamOK /\ AwaitedOK

(* Each id is written by one caller only, and only through Await*; every   *)
(* answer arrives.                                                         *)
Exclusive ==
    /\ \A c, d \in Clients : c # d => Writes[c] \cap Writes[d] = {}
    /\ \A c \in Clients : Writes[c] \cap Foreign = {}
    /\ "lostReply" \notin Faults

(* Read-after-write: when an Await* call that has written returns without  *)
(* an error, the cache has reached that write.                             *)
ReadYourWrite ==
    \A c \in Clients :
       pc[c] = "idle" /\ reply[c] = "ok" => own[c] \in 1..applied

(* The stream goroutine, holding the Notifier's lock, never sends to a     *)
(* caller that will not receive: that caller would wait for the lock, and  *)
(* neither they nor any other caller or event would get any further.       *)
NotWedged ==
    calling # NoClient => pc[calling] = "receive"

(* The inductive invariant behind ReadYourWrite and NotWedged, on top of   *)
(* Inv: of the events still to be applied, or to be delivered to c, those  *)
(* on c's ids are the one c awaits.                                        *)
InFlight(c, k) == pc[c] = "receive" /\ reply[c] = "ok" /\ own[c] = k

ExclusiveInv ==
    \A c \in Clients :
       /\ pc[c] # "idle" => call[c].id \in Writes[c]
       /\ pc[c] = "unsubscribe" => reply[c] # "ok"
       /\ pc[c] = "idle" /\ reply[c] = "ok" => own[c] \in 1..applied
       /\ \A k \in 1..Len(oplog) :
             /\ oplog[k].id \in Writes[c]
             /\ \/ applied < k
                \/ applied = k /\ streamPc = "notify"
                \/ applied = k /\ streamPc = "deliver" /\ c \in pending
             => InFlight(c, k)

(* The cache is a projection of the collection (module Projection).        *)
Projected == INSTANCE Projection WITH Docs <- Nat, position <- applied + 1, view <- cache

ProjectionSafety == Projected!Safety
ProjectionSpec == Projected!Spec

(* Every call that has begun returns.                                      *)
CallsReturn == \A c \in Clients : (pc[c] # "idle") ~> (pc[c] = "idle")

(* A call whose write failed returns its error.                            *)
FailedCallsReturn ==
    \A c \in Clients : (pc[c] # "idle" /\ reply[c] = "error") ~> (pc[c] = "idle")

(* A call whose write has matched no document, the document or its version *)
(* being gone, returns: no event will wake it.  Update's nil error (Await- *)
(* Update) and AwaitUpdateDoc's found = false are for the caller to see.   *)
UnmatchedCallsReturn ==
    \A c \in Clients :
       (pc[c] # "idle" /\ reply[c] = "unmatched") ~> (pc[c] = "idle")
=============================================================================
