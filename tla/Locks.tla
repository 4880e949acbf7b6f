-------------------------------- MODULE Locks --------------------------------
(***************************************************************************)
(* The locks of one collection: the stream goroutine calls the methods     *)
(* that change the cache and the indexes, the threads of the application   *)
(* those that look things up.  A method is the set of its paths, a path    *)
(* the sequence of what it does to locks and to shared memory, and of the  *)
(* methods it calls.  What is read and written is left out.                *)
(*                                                                         *)
(* Locks are Go's RWMutexes: one that somebody waits to write under        *)
(* admits no new readers, not even those that read under it already.       *)
(***************************************************************************)
EXTENDS Integers, Sequences

CONSTANTS
    Stream,         \* the goroutine of Stream.Listen
    App,            \* threads of the application
    None

Threads == App \cup {Stream}

ASSUME LocksAssumption == Stream \notin App /\ None \notin Threads

VARIABLES
    work,           \* what a thread has yet to do
    wanted,         \* lock -> who writes under it, or waits to
    writer,         \* lock -> who writes under it
    readers         \* lock -> how often each thread has it for reading

vars == <<work, wanted, writer, readers>>

-----------------------------------------------------------------------------
Locks == {"stream", "cache", "inverse", "unique", "sortedIndex", "sorted", "m", "tree"}

Do(what, on) == <<[do |-> what, on |-> on]>>

Call(method) == Do("call", method)
Reads(memory) == Do("read", memory)
Writes(memory) == Do("write", memory)
Locked(lock, body) == Do("lock", lock) \o body \o Do("unlock", lock)
RLocked(lock, body) == Do("rlock", lock) \o body \o Do("runlock", lock)

Calls(methods) == [k \in DOMAIN methods |-> [do |-> "call", on |-> methods[k]]]

(* cache and Idx, which share a lock.  `documents' is the memory of the    *)
(* cached entities, which Update changes in place.                         *)
GetIDByIndex == {RLocked("cache", Reads("numbering"))}
GetIndexByID == {RLocked("cache", Reads("numbering"))}
Get == {RLocked("cache", Reads("data") \o rest) : rest \in {<<>>, Reads("documents")}}
All == {RLocked("cache", Reads("data") \o Reads("documents"))}
GetByIndex ==
    {RLocked("cache", Call("GetIDByIndex") \o rest) :
        rest \in {Writes("numbering"), Call("Get"), Call("Get") \o Writes("numbering")}}
CacheAdd == {Locked("cache", Writes("data") \o Writes("numbering"))}
CacheUpdate == {Locked("cache", Reads("data") \o rest) : rest \in {<<>>, Writes("documents")}}
CacheDelete == {Locked("cache", Writes("data") \o Writes("numbering"))}

(* inverseIndex.  The caller of Get reads the list it has got, in which    *)
(* removals shift the elements; an element appended is not in that list.   *)
Removed == {<<>>, Writes("inverse"), Writes("lists") \o Writes("inverse")}
InverseGet == {RLocked("inverse", Reads("inverse")) \o Reads("lists")}
InverseAdd == {Locked("inverse", rest) : rest \in {Reads("inverse"), Writes("inverse")}}
InverseUpdate ==
    {Locked("inverse", <<>>)} \cup {Locked("inverse", Call("Get") \o rest) : rest \in Removed}
InverseDelete == {Locked("inverse", Call("Get") \o rest) : rest \in Removed}

(* Mutation: inverseUniqueIndex.Get takes no lock.                         *)
UniqueGetUnlocked == {Reads("unique")}

(* inverseUniqueIndex.                                                     *)
UniqueGet == {RLocked("unique", Reads("unique"))}

UniqueAdd == {Locked("unique", rest) : rest \in {<<>>, Writes("unique")}}
UniqueUpdate ==
    {Locked("unique", rest) : rest \in {<<>>, Call("Get"), Call("Get") \o Writes("unique")}}
UniqueDelete == {Locked("unique", Call("Get") \o rest) : rest \in {<<>>, Writes("unique")}}

(* sortedIndex and sorted; fill runs when sorted's lock is released.  That *)
(* Add may keep this lock is the subject of module Startup.                *)
Sorted == Locked("sorted", Writes("items")) \o Reads("items") \o Writes("ids")
SortedIntersect == {Reads("ids")}
SortedAdd == {Locked("sortedIndex", rest) : rest \in {<<>>, Sorted}}
SortedUpdate == {Locked("sortedIndex", rest) : rest \in {<<>>, Call("Get"), Call("Get") \o Sorted}}
SortedDelete == {Locked("sortedIndex", Call("Get") \o rest) : rest \in {<<>>, Sorted}}

(* m.Search and Find, which searches the tree for each trigram.  What the  *)
(* pool of S hands out is not shared.                                      *)
Search == RLocked("tree", Reads("postings"))
Find(searches) == {RLocked("m", searches \o rest) : rest \in {<<>>, Call("GetIDByIndex")}}
SuffixSearch == Find(Search)
SuffixFind == Find(Search \o Search)

(* Mutation: if the document has no number, the lock is kept.              *)
PostKeeping ==
    {Do("lock", "m") \o Call("GetIndexByID"),
     Locked("m", Call("GetIndexByID") \o Locked("tree", Writes("postings")))}

(* m.Add, Update and Delete.                                               *)
Post ==
    {Locked("m", Call("GetIndexByID") \o rest) : rest \in {<<>>, Locked("tree", Writes("postings"))}}

SuffixAdd == {<<>>, Call("Post")}

(* Update and Delete.                                                      *)
SuffixUpdate == {Call("Get") \o rest : rest \in {<<>>, Call("Post")}}

(* Stream.  An event of another collection ends with the look-up of its    *)
(* listener.  Listeners of the application come before those of the        *)
(* indexes; the Notifier is left to module Await.                          *)
Handled(add, update, delete) == {Calls(add), Calls(update), Calls(delete)}

Listen ==
    {RLocked("stream", Reads("listeners")) \o rest :
        rest \in {<<>>} \cup
           Handled(<<"listener", "InverseAdd", "UniqueAdd", "SortedAdd", "SuffixAdd", "CacheAdd",
                     "listener", "SuffixAdd">>,
                   <<"listener", "InverseUpdate", "UniqueUpdate", "SortedUpdate", "SuffixUpdate",
                     "CacheUpdate", "listener", "SuffixUpdate">>,
                   <<"listener", "InverseDelete", "UniqueDelete", "SortedDelete", "SuffixUpdate",
                     "CacheDelete", "listener", "SuffixUpdate">>)}
AddListener == {Locked("stream", Writes("listeners"))}

Lookups == {"Get", "All", "GetByIndex", "InverseGet", "UniqueGet", "SortedIntersect",
            "SuffixSearch", "SuffixFind"}

Paths ==
    [GetIDByIndex |-> GetIDByIndex, GetIndexByID |-> GetIndexByID,
     Get |-> Get, All |-> All, GetByIndex |-> GetByIndex,
     CacheAdd |-> CacheAdd, CacheUpdate |-> CacheUpdate, CacheDelete |-> CacheDelete,
     InverseGet |-> InverseGet, InverseAdd |-> InverseAdd, InverseUpdate |-> InverseUpdate,
     InverseDelete |-> InverseDelete, UniqueGet |-> UniqueGet, UniqueAdd |-> UniqueAdd,
     UniqueUpdate |-> UniqueUpdate, UniqueDelete |-> UniqueDelete,
     SortedIntersect |-> SortedIntersect, SortedAdd |-> SortedAdd,
     SortedUpdate |-> SortedUpdate, SortedDelete |-> SortedDelete,
     SuffixSearch |-> SuffixSearch, SuffixFind |-> SuffixFind, Post |-> Post,
     SuffixAdd |-> SuffixAdd, SuffixUpdate |-> SuffixUpdate,
     Listen |-> Listen, AddListener |-> AddListener,
     listener |-> {<<>>} \cup {Call(lookup) : lookup \in Lookups}]

-----------------------------------------------------------------------------
Init ==
    /\ work = [t \in Threads |-> <<>>]
    /\ wanted = [l \in Locks |-> None]
    /\ writer = [l \in Locks |-> None]
    /\ readers = [l \in Locks |-> [t \in Threads |-> 0]]

(* The stream goroutine takes the next event; the application makes a      *)
(* call, or registers another collection with the stream.                  *)
Begin(t) ==
    /\ work[t] = <<>>
    /\ \E method \in IF t = Stream THEN {"Listen"} ELSE Lookups \cup {"AddListener"} :
          work' = [work EXCEPT ![t] = Call(method)]
    /\ UNCHANGED <<wanted, writer, readers>>

At(t, what) == work[t] # <<>> /\ Head(work[t]).do = what
On(t) == Head(work[t]).on
Done(t) == work' = [work EXCEPT ![t] = Tail(@)]

Enter(t) ==
    /\ At(t, "call")
    /\ \E path \in Paths[On(t)] : work' = [work EXCEPT ![t] = path \o Tail(@)]
    /\ UNCHANGED <<wanted, writer, readers>>

Access(t) ==
    /\ At(t, "read") \/ At(t, "write")
    /\ Done(t)
    /\ UNCHANGED <<wanted, writer, readers>>

(* Mutation: a reader looks only for who is waiting.                       *)
RLockEager(t) ==
    /\ At(t, "rlock")
    /\ wanted[On(t)] = None \/ writer[On(t)] # None
    /\ readers' = [readers EXCEPT ![On(t)][t] = @ + 1]
    /\ Done(t)
    /\ UNCHANGED <<wanted, writer>>

RLock(t) ==
    /\ At(t, "rlock")
    /\ wanted[On(t)] = None
    /\ readers' = [readers EXCEPT ![On(t)][t] = @ + 1]
    /\ Done(t)
    /\ UNCHANGED <<wanted, writer>>

RUnlock(t) ==
    /\ At(t, "runlock")
    /\ readers' = [readers EXCEPT ![On(t)][t] = @ - 1]
    /\ Done(t)
    /\ UNCHANGED <<wanted, writer>>

(* From here on, no reader comes in.                                       *)
Want(t) ==
    /\ At(t, "lock")
    /\ wanted[On(t)] = None
    /\ wanted' = [wanted EXCEPT ![On(t)] = t]
    /\ UNCHANGED <<work, writer, readers>>

Lock(t) ==
    /\ At(t, "lock")
    /\ wanted[On(t)] = t /\ writer[On(t)] = None
    /\ \A u \in Threads : readers[On(t)][u] = 0
    /\ writer' = [writer EXCEPT ![On(t)] = t]
    /\ Done(t)
    /\ UNCHANGED <<wanted, readers>>

Unlock(t) ==
    /\ At(t, "unlock")
    /\ writer' = [writer EXCEPT ![On(t)] = None]
    /\ wanted' = [wanted EXCEPT ![On(t)] = None]
    /\ Done(t)
    /\ UNCHANGED readers

Step(t) == Enter(t) \/ Access(t) \/ RLock(t) \/ RUnlock(t) \/ Want(t) \/ Lock(t) \/ Unlock(t)

Next == \E t \in Threads : Begin(t) \/ Step(t)

(* A thread that has begun goes on, and one that waits for a lock gets it  *)
(* if it is free again and again: Go hands a mutex over to who has waited  *)
(* too long, and lets waiting readers in before the next writer.           *)
Spec == Init /\ [][Next]_vars /\ \A t \in Threads : SF_vars(Step(t))
-----------------------------------------------------------------------------
TypeOK ==
    /\ \A t \in Threads : \A k \in DOMAIN work[t] :
          /\ work[t][k].do = "call" => work[t][k].on \in DOMAIN Paths
          /\ work[t][k].do \in {"lock", "unlock", "rlock", "runlock"} => work[t][k].on \in Locks
    /\ wanted \in [Locks -> Threads \cup {None}]
    /\ \A l \in Locks : /\ writer[l] \in {None, wanted[l]}
                        /\ \A t \in Threads : readers[l][t] \in 0..2
                        /\ writer[l] # None => \A t \in Threads : readers[l][t] = 0

(* Two threads are about to use the same memory, one of them to write it.  *)
Race(t, u) ==
    /\ t # u
    /\ At(t, "write")
    /\ At(u, "read") \/ At(u, "write")
    /\ On(t) = On(u)

(* There is a data race only on the list that Sorted.Intersect reads, on   *)
(* the elements of a list that InverseIndex.Get has handed out, and on the *)
(* numbering, which GetByIndex changes with the lock for reading.          *)
RacesKnown ==
    \A t, u \in Threads :
       Race(t, u) => \/ On(t) \in {"ids", "lists"}
                     \/ On(t) = "numbering" /\ readers["cache"][t] > 0

(* Waits for a lock it has already, with a writer in between.              *)
SelfBlocked(t) ==
    At(t, "rlock") /\ readers[On(t)][t] > 0 /\ wanted[On(t)] # None

(* Lookups return, and the stream goes on, whoever else is looking things  *)
(* up, also from a listener on the stream goroutine; unless GetByIndex, the*)
(* one method that takes a lock it has, has met a writer.                  *)
LookupsReturn ==
    \A t \in Threads :
       work[t] # <<>> ~> (work[t] = <<>> \/ \E u \in App : SelfBlocked(u))
=============================================================================
