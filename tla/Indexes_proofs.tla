---------------------------- MODULE Indexes_proofs ----------------------------
(***************************************************************************)
(* The sorted and the suffix index, and queries that combine indexes, for  *)
(* keys of any number of fields and any number of documents.  The sorted   *)
(* index holds every document with its text, never blocks, and selects     *)
(* documents in the order of their texts; the suffix index has posted      *)
(* every document once under every trigram of its text, and under no other *)
(* than it has had, so that searches find every part of a text, and by     *)
(* trigrams it has had; and queries that combine the indexes find the      *)
(* documents that each of them should.                                     *)
(***************************************************************************)
EXTENDS EntityStore_proofs
-----------------------------------------------------------------------------
(* The sorted index.                                                       *)

(* Every document is inserted with a text.                                 *)
SortedKeyed == \A doc \in Inserts : Key(doc, SortedFrom) # <<>>

(* Every item is that of a document in s, and if all documents have texts, *)
(* every document in s has its item.                                       *)
Enters(tree, s) ==
    /\ \A item \in tree : \E key \in Keys(SortedFrom), id \in Ids :
          item = <<key, id>> /\ Has(s[id], key, SortedFrom)
    /\ SortedKeyed => \A id \in Ids : s[id] # NoDoc =>
          Key(s[id], SortedFrom) # <<>> /\ <<Key(s[id], SortedFrom), id>> \in tree

(* How far the sorted index is.                                            *)
SortedReached == IF stage = "before" /\ "sorted" \in todo THEN taken ELSE taken + 1

SortedInv ==
    /\ \A k \in 1..Len(log) : Meant(log[k])
    /\ ~ locked
    /\ Enters(items, history[SortedReached])

(* The index takes the step from one state of the collection to the next.  *)
(* An inserted document has no item yet: the one it had when it was last   *)
(* in the collection is that of no document.                               *)
LEMMA SortedFollows ==
    ASSUME KeyKept(SortedFrom), NEW before \in States, NEW after \in States, NEW e \in Events,
           Did(before, after, e), Meant(e), cache \in States, Agree(cache, before),
           Enters(items, before), ~ locked,
           e.op = "insert" => Sorted!Add(e.id, e.fields),
           e.op = "update" => Sorted!Update(e.id, e.fields),
           e.op = "delete" => Sorted!Delete(e.id)
    PROVE  ~ locked' /\ Enters(items', after)
  <1> DEFINE i == e.id
             new == Key(e.fields, SortedFrom)
             old == Key(before[i], SortedFrom)
  <1>1. /\ i \in Ids /\ e.fields \in Docs /\ e.op \in Ops /\ SortedFrom \in Seq(Fields)
        /\ \A j \in Ids \ {i} : after[j] = before[j]
        /\ new # <<>> => new \in Keys(SortedFrom)
        /\ before[i] \in Docs \cup {NoDoc} /\ after[i] \in Docs \cup {NoDoc}
    BY KeyFacts, EntityStoreAssumption DEF Events, Did, States
  <1>2. /\ cache[i] = NoDoc <=> before[i] = NoDoc
        /\ cache[i] # NoDoc => Key(cache[i], SortedFrom) = old
    <2>1. \A n \in 1..Len(SortedFrom) : Followed(SortedFrom[n])
      BY DEF KeyKept, Whole
    <2> QED BY <1>1, <2>1, CachedKey
  <1>3. \A item \in items : \E key \in Keys(SortedFrom), j \in Ids :
           item = <<key, j>> /\ Has(before[j], key, SortedFrom)
    BY DEF Enters
  <1>4. SortedKeyed => \A j \in Ids : before[j] # NoDoc =>
           Key(before[j], SortedFrom) # <<>> /\ <<Key(before[j], SortedFrom), j>> \in items
    BY DEF Enters
  <1>5. \A j, k, key, other : <<key, j>> = <<other, k>> <=> key = other /\ j = k
    OBVIOUS
  <1>6. CASE e.op = "insert"
    <2>1. before[i] = NoDoc /\ after[i] = e.fields /\ after[i] # NoDoc /\ (SortedKeyed => new # <<>>)
      BY <1>1, <1>6, NoDocNoDocument DEF Did, Meant, SortedKeyed
    <2>2. <<new, i>> \notin items
      BY <1>3, <1>5, <2>1 DEF Has
    <2>3. /\ items' = IF new = <<>> THEN items ELSE items \cup {<<new, i>>}
          /\ ~ locked'
      BY <1>6, <2>2, SameDocuments DEF Sorted!Add
    <2>4. ASSUME NEW item \in items'
          PROVE  \E key \in Keys(SortedFrom), j \in Ids :
                    item = <<key, j>> /\ Has(after[j], key, SortedFrom)
      <3>1. CASE item \in items
        <4>1. PICK key \in Keys(SortedFrom), j \in Ids : item = <<key, j>> /\ Has(before[j], key, SortedFrom)
          BY <1>3, <3>1
        <4>2. j # i
          BY <2>1, <4>1 DEF Has
        <4> QED BY <1>1, <4>1, <4>2
      <3>2. CASE new # <<>> /\ item = <<new, i>>
        BY <1>1, <2>1, <3>2 DEF Has
      <3> QED BY <2>3, <2>4, <3>1, <3>2
    <2>5. ASSUME SortedKeyed, NEW j \in Ids, after[j] # NoDoc
          PROVE  Key(after[j], SortedFrom) # <<>> /\ <<Key(after[j], SortedFrom), j>> \in items'
      BY <1>1, <1>4, <2>1, <2>3, <2>5
    <2> QED BY <2>3, <2>4, <2>5 DEF Enters
  <1>7. CASE e.op = "update"
    <2>1. /\ before[i] # NoDoc /\ after[i] # NoDoc /\ before[i] \in Docs /\ after[i] \in Docs
          /\ \A f \in Fields : Followed(f) =>
                after[i][f] = Merge(before[i], e.fields, e.removed)[f]
      BY <1>1, <1>7 DEF Did
    <2>2. \A n \in 1..Len(SortedFrom) : SortedFrom[n] \notin e.removed
      BY <1>7 DEF Meant, KeyKept
    <2>3. Key(after[i], SortedFrom) = IF new = <<>> THEN old ELSE new
      BY <1>1, <1>7, <2>1, <2>2, UpdatedKey DEF KeyKept, KeyAfter
    <2>4. locked' = locked /\ items' = IF new = <<>> \/ old = <<>> THEN items
                                       ELSE (items \ {<<old, i>>}) \cup {<<new, i>>}
      BY <1>2, <1>7, <2>1, SameDocuments DEF Sorted!Update
    <2>5. ASSUME NEW item \in items'
          PROVE  \E key \in Keys(SortedFrom), j \in Ids :
                    item = <<key, j>> /\ Has(after[j], key, SortedFrom)
      <3>1. CASE item \in items /\ item # <<old, i>>
        <4>1. PICK key \in Keys(SortedFrom), j \in Ids : item = <<key, j>> /\ Has(before[j], key, SortedFrom)
          BY <1>3, <3>1
        <4>2. j # i
          BY <3>1, <4>1 DEF Has
        <4> QED BY <1>1, <4>1, <4>2
      <3>2. CASE item = <<old, i>> /\ new = <<>>
        <4>1. item \in items
          BY <2>4, <2>5, <3>2
        <4>2. old \in Keys(SortedFrom)
          BY <1>3, <1>5, <3>2, <4>1
        <4> QED BY <1>1, <2>1, <2>3, <3>2, <4>2 DEF Has
      <3>3. CASE item = <<new, i>> /\ new # <<>>
        BY <1>1, <2>1, <2>3, <3>3 DEF Has
      <3>4. CASE item \in items /\ item = <<old, i>> /\ old = <<>>
        BY <1>3, <1>5, <3>4 DEF Keys
      <3> QED BY <2>4, <2>5, <3>1, <3>2, <3>3, <3>4
    <2>6. ASSUME SortedKeyed, NEW j \in Ids, after[j] # NoDoc
          PROVE  Key(after[j], SortedFrom) # <<>> /\ <<Key(after[j], SortedFrom), j>> \in items'
      <3>1. CASE j = i
        BY <1>4, <2>1, <2>3, <2>4, <2>6, <3>1
      <3>2. CASE j # i
        <4>1. after[j] = before[j] /\ <<Key(before[j], SortedFrom), j>> # <<old, i>>
          BY <1>1, <1>5, <3>2
        <4> QED BY <1>4, <2>4, <2>6, <4>1
      <3> QED BY <3>1, <3>2
    <2> QED BY <2>4, <2>5, <2>6 DEF Enters
  <1>8. CASE e.op = "delete"
    <2>1. after[i] = NoDoc
      BY <1>8 DEF Did
    <2>2. locked' = locked /\ items' = IF before[i] = NoDoc \/ old = <<>> THEN items
                                       ELSE items \ {<<old, i>>}
      BY <1>2, <1>8, SameDocuments DEF Sorted!Delete
    <2>3. ASSUME NEW item \in items'
          PROVE  \E key \in Keys(SortedFrom), j \in Ids :
                    item = <<key, j>> /\ Has(after[j], key, SortedFrom)
      <3>1. PICK key \in Keys(SortedFrom), j \in Ids : item = <<key, j>> /\ Has(before[j], key, SortedFrom)
        BY <1>3, <2>2, <2>3
      <3>2. j # i
        <4> SUFFICES ASSUME j = i PROVE FALSE
          OBVIOUS
        <4>1. before[i] # NoDoc /\ key = old /\ key # <<>>
          BY <3>1 DEF Has, Keys
        <4> QED BY <2>2, <2>3, <3>1, <4>1
      <3> QED BY <1>1, <3>1, <3>2
    <2>4. ASSUME SortedKeyed, NEW j \in Ids, after[j] # NoDoc
          PROVE  Key(after[j], SortedFrom) # <<>> /\ <<Key(after[j], SortedFrom), j>> \in items'
      <3>1. j # i /\ after[j] = before[j] /\ <<Key(before[j], SortedFrom), j>> # <<old, i>>
        BY <1>1, <1>5, <2>1, <2>4
      <3> QED BY <1>4, <2>2, <2>4, <3>1
    <2> QED BY <2>2, <2>3, <2>4 DEF Enters
  <1> QED BY <1>1, <1>6, <1>7, <1>8 DEF Ops

(* A write adds an event and a state; the sorted index stays.              *)
LEMMA SortedWrite ==
    ASSUME Inv, SortedInv, NEW e \in Events, NEW state \in States, Wrote(e, state)
    PROVE  SortedInv'
  <1>1. /\ Len(log) \in Nat /\ Len(log') = Len(log) + 1
        /\ \A k \in 1..Len(log) : log'[k] = log[k]
        /\ log'[Len(log) + 1] = e
        /\ \A k \in 1..(Len(log) + 1) : history'[k] = history[k]
    BY WroteFacts
  <1>2. /\ stage' = stage /\ todo' = todo /\ taken' = taken /\ items' = items /\ locked' = locked
        /\ Meant(e)
    BY DEF Wrote, listenerVars, indexVars, sortedVars
  <1>3. ASSUME NEW k \in 1..Len(log')
        PROVE  Meant(log'[k])
    <2>1. k \in 1..Len(log) \/ k = Len(log) + 1
      BY <1>1
    <2> QED BY <1>1, <1>2, <2>1 DEF SortedInv
  <1>4. SortedReached' = SortedReached /\ SortedReached \in 1..(Len(log) + 1)
    BY <1>2, StateFacts DEF Inv, Typed, SortedReached
  <1>5. history'[SortedReached'] = history[SortedReached]
    BY <1>1, <1>4
  <1> QED BY <1>2, <1>3, <1>5 DEF SortedInv

(* The sorted index is told of the event.                                  *)
LEMMA SortedEvent ==
    ASSUME KeyKept(SortedFrom), Inv, SortedInv, BeforeSorted
    PROVE  SortedInv'
  <1>1. /\ stage = "before" /\ "sorted" \in todo /\ todo' = todo \ {"sorted"}
        /\ history' = history /\ log' = log /\ taken' = taken /\ stage' = stage
    BY DEF BeforeSorted, CallBefore, mongoVars
  <1>2. /\ event.op = "insert" => Sorted!Add(event.id, event.fields)
        /\ event.op = "update" => Sorted!Update(event.id, event.fields)
        /\ event.op = "delete" => Sorted!Delete(event.id)
    BY DEF BeforeSorted
  <1>3. /\ taken \in 1..Len(log) /\ event \in Events
        /\ history[taken] \in States /\ history[taken + 1] \in States
        /\ Did(history[taken], history[taken + 1], event)
        /\ cache \in States /\ Agree(cache, history[taken])
    BY <1>1, EventFacts, StateFacts DEF Inv, CacheOK, Reached
  <1>4. Meant(event) /\ ~ locked /\ Enters(items, history[taken])
    BY <1>1, <1>3 DEF SortedInv, SortedReached, event
  <1>5. ~ locked' /\ Enters(items', history[taken + 1])
    BY <1>2, <1>3, <1>4, SortedFollows
  <1>6. SortedReached' = taken + 1
    BY <1>1 DEF SortedReached
  <1> QED BY <1>1, <1>5, <1>6 DEF SortedInv

(* All other steps leave the sorted index where it is.                     *)
SortedRests ==
    /\ UNCHANGED <<history, log, items, locked>>
    /\ SortedReached' = SortedReached

LEMMA SortedStepKinds ==
    ASSUME Inv, [Next]_vars
    PROVE  SomeoneWrote \/ BeforeSorted \/ SortedRests
  <1> USE DEF SortedRests, SortedReached, mongoVars, sortedVars
  <1>1. Receive => SortedRests
    BY StateFacts DEF Receive, indexVars, BeforeListeners, Inv
  <1>2. BeforeInverse \/ BeforeUnique \/ BeforeSuffix => SortedRests
    BY DEF BeforeInverse, BeforeUnique, BeforeSuffix, CallBefore
  <1>3. Apply => SortedRests
    BY DEF Apply, indexVars
  <1>4. AfterSuffix => SortedRests
    BY DEF AfterSuffix
  <1>5. ASSUME NEW n \in DOMAIN itemsByIndex, GetByIndex(n)
        PROVE  SortedRests
    BY <1>5 DEF GetByIndex, indexVars, listenerVars
  <1>6. UNCHANGED vars => SortedRests
    BY DEF vars, indexVars, listenerVars
  <1> HIDE DEF SortedRests
  <1>7. Handle => BeforeSorted \/ SortedRests
    BY <1>1, <1>2, <1>3, <1>4 DEF Handle
  <1>8. ASSUME NEW id \in Ids,
               \/ \E doc \in Inserts : Insert(id, doc)
               \/ \E u \in Updates : Modify(id, u)
               \/ Remove(id)
        PROVE  SomeoneWrote
    BY <1>8, WriteKinds, StateFacts DEF Inv
  <1>9. Next => SomeoneWrote \/ BeforeSorted \/ SortedRests
    BY <1>5, <1>7, <1>8 DEF Next
  <1> QED BY <1>6, <1>9

LEMMA SortedInvInit == Init => SortedInv
  <1> SUFFICES ASSUME Init PROVE SortedInv
    OBVIOUS
  <1>1. /\ SortedReached = 1 /\ history[1] = [id \in Ids |-> NoDoc] /\ Len(log) = 0
        /\ items = {} /\ locked = FALSE
    BY DEF Init, SortedReached, Sorted!Init
  <1> QED BY <1>1 DEF SortedInv, Enters

LEMMA SortedInvStep ==
    ASSUME KeyKept(SortedFrom)
    PROVE  Inv /\ SortedInv /\ [Next]_vars => SortedInv'
  <1>1. Inv /\ SortedInv /\ SomeoneWrote => SortedInv'
    BY SortedWrite DEF SomeoneWrote
  <1>2. SortedInv /\ SortedRests => SortedInv'
    BY DEF SortedInv, SortedRests
  <1> QED BY <1>1, <1>2, SortedEvent, SortedStepKinds

(* A document that no event is changing has the item of its text, and no   *)
(* other.  The order of the items is not spoken of.                        *)
SortedHolds ==
    \A id \in Settled, key \in Keys(SortedFrom) :
       <<key, id>> \in items <=> Has(cache[id], key, SortedFrom)

LEMMA SortedInvHolds ==
    ASSUME KeyKept(SortedFrom), SortedKeyed, Inv, SortedInv
    PROVE  SortedHolds
  <1> SUFFICES ASSUME NEW id \in Settled, NEW key \in Keys(SortedFrom)
               PROVE  <<key, id>> \in items <=> Has(cache[id], key, SortedFrom)
    BY DEF SortedHolds
  <1>1. /\ id \in Ids /\ cache \in States /\ history[Reached] \in States
        /\ Agree(cache, history[Reached])
    BY StateFacts DEF Settled, Inv, CacheOK
  <1>2. <<key, id>> \in items <=> Has(history[SortedReached][id], key, SortedFrom)
    <2>1. ASSUME <<key, id>> \in items
          PROVE  Has(history[SortedReached][id], key, SortedFrom)
      <3>1. PICK k \in Keys(SortedFrom), j \in Ids :
               <<key, id>> = <<k, j>> /\ Has(history[SortedReached][j], k, SortedFrom)
        BY <2>1 DEF SortedInv, Enters
      <3> QED BY <3>1
    <2>2. ASSUME Has(history[SortedReached][id], key, SortedFrom)
          PROVE  <<key, id>> \in items
      BY <1>1, <2>2 DEF SortedInv, Enters, Has
    <2> QED BY <2>1, <2>2
  <1>3. history[SortedReached][id] = history[Reached][id]
    <2>1. CASE stage = "idle"
      BY <2>1 DEF Reached, SortedReached
    <2>2. CASE stage # "idle"
      <3>1. id # event.id /\ Did(history[taken], history[taken + 1], event)
        BY <2>2, EventFacts DEF Settled
      <3>2. history[taken][id] = history[taken + 1][id]
        BY <1>1, <3>1 DEF Did
      <3> QED BY <2>2, <3>2 DEF Reached, SortedReached
    <2> QED BY <2>1, <2>2
  <1>4. /\ cache[id] = NoDoc <=> history[Reached][id] = NoDoc
        /\ cache[id] # NoDoc => Key(cache[id], SortedFrom) = Key(history[Reached][id], SortedFrom)
    <2>1. SortedFrom \in Seq(Fields) /\ \A n \in 1..Len(SortedFrom) : Followed(SortedFrom[n])
      BY EntityStoreAssumption DEF KeyKept, Whole
    <2> QED BY <1>1, <2>1, CachedKey
  <1> QED BY <1>2, <1>3, <1>4 DEF Has

(* Sorted.Add never finds the item it is to insert, and so never returns   *)
(* with its lock held, however often documents are deleted and created     *)
(* again with the same text, provided an update sets all fields of the     *)
(* text or none and removes none: one that removed the text would leave    *)
(* the item behind (sortedIndex over Sorted.Add).                          *)
THEOREM SortedNeverBlocks ==
    ASSUME KeyKept(SortedFrom)
    PROVE  Spec => []~locked
  <1>1. SortedInv => ~ locked
    BY DEF SortedInv
  <1>2. Inv /\ SortedInv /\ [Next]_vars => SortedInv'
    BY SortedInvStep
  <1> QED BY <1>1, <1>2, SortedInvInit, Invariance, PTL DEF Spec

(* If in addition documents are inserted with a text, the tree of the      *)
(* sorted index has an item for every cached document and its text, and no *)
(* other (sortedIndex.Add, Update and Delete).                             *)
THEOREM SortedHoldsTexts ==
    ASSUME KeyKept(SortedFrom), SortedKeyed
    PROVE  Spec => []SortedHolds
  <1>1. Inv /\ SortedInv => SortedHolds
    BY SortedInvHolds
  <1>2. Inv /\ SortedInv /\ [Next]_vars => SortedInv'
    BY SortedInvStep
  <1> QED BY <1>1, <1>2, SortedInvInit, Invariance, PTL DEF Spec
-----------------------------------------------------------------------------
(* The suffix index.  Trigrams are taken as they come: what is said of     *)
(* them is where the numbers of documents are posted.                      *)
GramsOf(doc) == Suffix!Range(Suffix!Grams(Suffix!Contents(doc)))

Under(tree, gram) == IF gram \in DOMAIN tree THEN tree[gram] ELSE <<>>

On(tree, gram, n) == Suffix!Contains(Under(tree, gram), n)

(* No list holds a number twice.                                           *)
Once(tree) == \A gram, n : Times(Under(tree, gram), n) <= 1

(* All documents but those of which an event is under way are posted under *)
(* the trigrams of their texts; and what the cache has in hand when the    *)
(* index is called again.                                                  *)
PostingsInv ==
    /\ Once(postings)
    /\ \A id \in Settled :
          cache[id] # NoDoc /\ indexByID[id] # 0 /\ Key(cache[id], SuffixFrom) # <<>> =>
             \A gram \in GramsOf(cache[id]) : On(postings, gram, indexByID[id])
    /\ stage = "after" => /\ event.op = "insert" => cache[event.id] = event.fields
                          /\ event.op = "delete" => cache[event.id] = NoDoc

(* The document has been there since a time when the trigram was in its    *)
(* text, after n events.                                                   *)
Since(id, gram, n) ==
    \E k \in 1..n : /\ \A j \in k..n : history[j][id] # NoDoc
                    /\ gram \in GramsOf(history[k][id])

(* A number is posted only under trigrams its document has had.            *)
PostedBefore ==
    \A id \in Ids : indexByID[id] # 0 =>
       \A gram : On(postings, gram, indexByID[id]) => Since(id, gram, Reached)

(* The index looks a number up in a list, and takes its first occurrence   *)
(* away, as the other lists do.                                            *)
LEMMA SuffixOften ==
    ASSUME NEW S, NEW list \in Seq(S), NEW x
    PROVE  Times(list, x) \in Nat /\ (Suffix!Contains(list, x) <=> Times(list, x) # 0)
  BY SameTimes, ListFacts!TimesType DEF Suffix!Contains, ListFacts!Contains

LEMMA SuffixRemoveFirst ==
    ASSUME NEW list, NEW x
    PROVE  Suffix!RemoveFirst(list, x) = ListFacts!RemoveFirst(list, x)
  BY DEF Suffix!RemoveFirst, ListFacts!RemoveFirst, Suffix!RemoveAt, ListFacts!RemoveAt,
         Suffix!SelectInSeq, ListFacts!SelectInSeq, Suffix!Min, ListFacts!Min

(* A list of postings holds numbers that were given out.                   *)
LEMMA UnderTyped ==
    ASSUME NEW tree, NEW last, Posting(tree, last), NEW gram
    PROVE  Under(tree, gram) \in Seq(1..last)
  <1>1. <<>> \in Seq(1..last)
    OBVIOUS
  <1> QED BY <1>1 DEF Posting, Under

(* A number is put under trigrams, or taken away from there.               *)
LEMMA PutOn ==
    ASSUME NEW last \in Nat, Posting(postings, last), Once(postings), NEW text, NEW n \in 1..last
    PROVE  /\ Once(Suffix!Put(text, n))
           /\ \A gram, m : On(Suffix!Put(text, n), gram, m) <=>
                 On(postings, gram, m) \/ (m = n /\ gram \in Suffix!Range(Suffix!Grams(text)))
  <1> DEFINE grams == Suffix!Range(Suffix!Grams(text))
             put == Suffix!Put(text, n)
  <1>1. \A gram : Suffix!Posted(gram) = Under(postings, gram)
    BY DEF Suffix!Posted, Under
  <1>2. \A gram : Under(put, gram) = IF gram \in grams /\ ~ Suffix!Contains(Under(postings, gram), n)
                                     THEN Append(Under(postings, gram), n) ELSE Under(postings, gram)
    BY <1>1 DEF Suffix!Put, Under
  <1> HIDE DEF put, grams
  <1> SUFFICES ASSUME NEW gram, NEW m
               PROVE  /\ Times(Under(put, gram), m) <= 1
                      /\ On(put, gram, m) <=> On(postings, gram, m) \/ (m = n /\ gram \in grams)
    BY DEF Once, grams, put
  <1>3. Under(postings, gram) \in Seq(1..last)
    BY UnderTyped
  <1>4. /\ Times(Under(postings, gram), m) \in Nat /\ Times(Under(postings, gram), m) <= 1
        /\ On(postings, gram, m) <=> Times(Under(postings, gram), m) # 0
        /\ On(postings, gram, n) <=> Times(Under(postings, gram), n) # 0
    BY <1>3, SuffixOften DEF Once, On
  <1>5. CASE gram \in grams /\ ~ On(postings, gram, n)
    <2>1. Under(put, gram) = Append(Under(postings, gram), n)
      BY <1>2, <1>5 DEF On
    <2>2. /\ Under(put, gram) \in Seq(1..last)
          /\ Times(Under(put, gram), m) = IF n = m THEN Times(Under(postings, gram), m) + 1
                                          ELSE Times(Under(postings, gram), m)
      <3>1. /\ Append(Under(postings, gram), n) \in Seq(1..last)
            /\ Times(Append(Under(postings, gram), n), m) =
                  IF n = m THEN Times(Under(postings, gram), m) + 1 ELSE Times(Under(postings, gram), m)
        BY <1>3, SameTimes, AppendFacts, ListFacts!TimesAppend
      <3> QED BY <2>1, <3>1
    <2>3. On(put, gram, m) <=> Times(Under(put, gram), m) # 0
      BY <2>2, SuffixOften DEF On
    <2> QED BY <1>4, <1>5, <2>2, <2>3
  <1>6. CASE ~ (gram \in grams /\ ~ On(postings, gram, n))
    <2>1. Under(put, gram) = Under(postings, gram)
      BY <1>2, <1>6 DEF On
    <2> QED BY <1>4, <1>6, <2>1 DEF On
  <1> QED BY <1>5, <1>6

LEMMA WithdrawOn ==
    ASSUME NEW last \in Nat, Posting(postings, last), Once(postings), NEW text, NEW n \in 1..last
    PROVE  /\ Once(Suffix!Withdraw(text, n))
           /\ \A gram, m : /\ On(Suffix!Withdraw(text, n), gram, m) => On(postings, gram, m)
                           /\ m # n => (On(Suffix!Withdraw(text, n), gram, m) <=> On(postings, gram, m))
  <1> DEFINE grams == Suffix!Range(Suffix!Grams(text))
             left == Suffix!Withdraw(text, n)
  <1>1. \A gram : Under(left, gram) = IF gram \in grams /\ gram \in DOMAIN postings
                                      THEN Suffix!RemoveFirst(Under(postings, gram), n)
                                      ELSE Under(postings, gram)
    BY DEF Suffix!Withdraw, Under
  <1> HIDE DEF left, grams
  <1> SUFFICES ASSUME NEW gram, NEW m
               PROVE  /\ Times(Under(left, gram), m) <= 1
                      /\ On(left, gram, m) => On(postings, gram, m)
                      /\ m # n => (On(left, gram, m) <=> On(postings, gram, m))
    BY DEF Once, left
  <1>2. Under(postings, gram) \in Seq(1..last)
    BY UnderTyped
  <1>3. /\ Times(Under(postings, gram), m) \in Nat /\ Times(Under(postings, gram), m) <= 1
        /\ On(postings, gram, m) <=> Times(Under(postings, gram), m) # 0
    BY <1>2, SuffixOften DEF Once, On
  <1>4. CASE gram \in grams /\ gram \in DOMAIN postings
    <2>1. Under(left, gram) = Suffix!RemoveFirst(Under(postings, gram), n)
      BY <1>1, <1>4
    <2>2. /\ Under(left, gram) \in Seq(1..last)
          /\ Times(Under(left, gram), m) =
                IF m = n /\ Times(Under(postings, gram), m) # 0 THEN Times(Under(postings, gram), m) - 1
                ELSE Times(Under(postings, gram), m)
      BY <1>2, <2>1, SuffixRemoveFirst, SameTimes, ListFacts!RemoveFirstFacts
    <2>3. On(left, gram, m) <=> Times(Under(left, gram), m) # 0
      BY <2>2, SuffixOften DEF On
    <2> QED BY <1>3, <2>2, <2>3
  <1>5. CASE ~ (gram \in grams /\ gram \in DOMAIN postings)
    <2>1. Under(left, gram) = Under(postings, gram)
      BY <1>1, <1>5
    <2> QED BY <1>3, <2>1 DEF On
  <1> QED BY <1>4, <1>5

(* What a method does about a document: post it under the trigrams of a    *)
(* text, or take it from where it was.                                     *)
Posts(id, doc) ==
    IF indexByID[id] = 0 \/ Key(doc, SuffixFrom) = <<>> THEN postings' = postings
    ELSE \A gram, m : On(postings', gram, m) <=>
            On(postings, gram, m) \/ (m = indexByID[id] /\ gram \in GramsOf(doc))

Unposts(id) ==
    \A gram, m : /\ On(postings', gram, m) => On(postings, gram, m)
                 /\ m # indexByID[id] => (On(postings', gram, m) <=> On(postings, gram, m))

(* What the methods of the index do to its lists.                          *)
LEMMA SuffixMethods ==
    ASSUME C!TypeOK, Suffix!TypeOK, Once(postings), cache \in States, NEW id \in Ids, NEW doc \in Docs
    PROVE  /\ Suffix!Add(id, doc) => Once(postings') /\ Posts(id, doc)
           /\ Suffix!Update(id) => Once(postings') /\ (IF cache[id] = NoDoc THEN postings' = postings
                                                       ELSE Posts(id, cache[id]))
           /\ Suffix!Delete(id) => Once(postings') /\ Unposts(id)
           /\ Suffix!Delete(id) /\ cache[id] = NoDoc => postings' = postings
  <1> DEFINE last == Len(itemsByIndex)
  <1>1. Posting(postings, last) /\ last \in Nat
    BY SuffixTypes DEF C!TypeOK
  <1> HIDE DEF last
  <1>2. ASSUME NEW some
        PROVE  Suffix!Number(id, some) = IF Key(some, SuffixFrom) # <<>> THEN indexByID[id] ELSE 0
    BY SameDocuments DEF Suffix!Number
  <1>3. indexByID[id] # 0 => indexByID[id] \in 1..last
    BY <1>1 DEF C!TypeOK, last
  <1>4. ASSUME NEW some, Key(some, SuffixFrom) # <<>>, indexByID[id] # 0,
               postings' = Suffix!Put(Suffix!Contents(some), indexByID[id])
        PROVE  Once(postings') /\ Posts(id, some)
    BY <1>1, <1>3, <1>4, PutOn DEF Posts, GramsOf
  <1>5. ASSUME NEW some, ~ (Key(some, SuffixFrom) # <<>> /\ indexByID[id] # 0), postings' = postings
        PROVE  Once(postings') /\ Posts(id, some)
    BY <1>5 DEF Posts
  <1>6. Suffix!Add(id, doc) => Once(postings') /\ Posts(id, doc)
    BY <1>2, <1>4, <1>5 DEF Suffix!Add
  <1>7. ASSUME Suffix!Update(id), cache[id] # NoDoc
        PROVE  Once(postings') /\ Posts(id, cache[id])
    BY <1>2, <1>4, <1>5, <1>7 DEF Suffix!Update
  <1>8. ASSUME Suffix!Delete(id)
        PROVE  Once(postings') /\ Unposts(id)
    <2>1. CASE cache[id] = NoDoc \/ Suffix!Number(id, cache[id]) = 0
      BY <1>8, <2>1 DEF Suffix!Delete, Unposts
    <2>2. CASE cache[id] # NoDoc /\ Suffix!Number(id, cache[id]) # 0
      <3>1. postings' = Suffix!Withdraw(Suffix!Contents(cache[id]), indexByID[id]) /\ indexByID[id] # 0
        BY <1>2, <1>8, <2>2 DEF Suffix!Delete
      <3> QED BY <1>1, <1>3, <3>1, WithdrawOn DEF Unposts
    <2> QED BY <2>1, <2>2
  <1> QED BY <1>6, <1>7, <1>8 DEF Suffix!Update, Suffix!Delete

-----------------------------------------------------------------------------
(* The steps at which the postings and the cache rest: numbers may be      *)
(* taken away, and an event may come up.                                   *)
PostingsRest ==
    /\ postings' = postings /\ cache' = cache
    /\ \A id \in Ids : indexByID'[id] = indexByID[id] \/ indexByID'[id] = 0
    /\ Settled' \subseteq Settled
    /\ stage' = "after" => stage = "after" /\ event' = event
    /\ Reached' = Reached
    /\ \A k \in 1..Reached : history'[k] = history[k]

(* A write leaves the postings alone; so does all but the three steps.     *)
LEMMA PostingsWrite ==
    ASSUME Inv, SomeWrite
    PROVE  PostingsRest
  <1>1. Recorded /\ Len(log) \in Nat /\ Reached \in 1..(Len(log) + 1)
    BY StateFacts DEF Inv, Typed, Recorded
  <1>2. /\ \A k \in 1..Len(log) : log'[k] = log[k]
        /\ \A k \in 1..(Len(log) + 1) : history'[k] = history[k]
        /\ UNCHANGED <<listenerVars, cacheVars, indexVars>>
    BY <1>1, RecordedWrite DEF SomeWrite
  <1>3. /\ stage' = stage /\ taken' = taken /\ cache' = cache /\ indexByID' = indexByID
        /\ postings' = postings
    BY <1>2 DEF listenerVars, cacheVars, indexVars
  <1>4. Reached' = Reached /\ \A k \in 1..Reached : history'[k] = history[k]
    BY <1>1, <1>2, <1>3 DEF Reached
  <1>5. stage # "idle" => event' = event
    <2>1. stage # "idle" => taken \in 1..Len(log)
      BY EventFacts
    <2> QED BY <1>2, <1>3, <2>1 DEF event
  <1>6. Settled' = Settled
    BY <1>3, <1>5 DEF Settled
  <1> QED BY <1>3, <1>4, <1>5, <1>6 DEF PostingsRest

LEMMA PostingsStepKinds ==
    ASSUME Inv, [Next]_vars
    PROVE  PostingsRest \/ BeforeSuffix \/ Apply \/ AfterSuffix
  <1>1. Receive => PostingsRest
    <2>1. taken \in Nat
      BY StateFacts DEF Inv
    <2> QED BY <2>1 DEF Receive, PostingsRest, Settled, Reached, mongoVars, cacheVars, indexVars
  <1>2. BeforeInverse \/ BeforeUnique \/ BeforeSorted => PostingsRest
    BY DEF BeforeInverse, BeforeUnique, BeforeSorted, CallBefore, PostingsRest, Settled, Reached,
           event, mongoVars, cacheVars
  <1>3. UNCHANGED vars => PostingsRest
    BY DEF vars, mongoVars, listenerVars, cacheVars, indexVars, PostingsRest, Settled, Reached, event
  <1>4. ASSUME NEW n \in DOMAIN itemsByIndex, GetByIndex(n)
        PROVE  PostingsRest
    BY <1>4 DEF GetByIndex, C!GetByIndex, C!Forget, mongoVars, listenerVars, indexVars,
            PostingsRest, Settled, Reached, event
  <1>5. Handle => PostingsRest \/ BeforeSuffix \/ Apply \/ AfterSuffix
    BY <1>1, <1>2 DEF Handle
  <1>6. ASSUME NEW id \in Ids,
               \/ \E doc \in Inserts : Insert(id, doc)
               \/ \E u \in Updates : Modify(id, u)
               \/ Remove(id)
        PROVE  PostingsRest
    BY <1>6, WritesAreWrites, StateFacts, PostingsWrite DEF Inv
  <1>7. Next => PostingsRest \/ BeforeSuffix \/ Apply \/ AfterSuffix
    BY <1>4, <1>5, <1>6 DEF Next
  <1> QED BY <1>3, <1>7

(* Different documents have different numbers.                             *)
LEMMA OwnNumber ==
    ASSUME NumbersAgree, NEW i \in Ids, NEW j \in Ids, indexByID[i] # 0, indexByID[i] = indexByID[j]
    PROVE  i = j
  BY DEF NumbersAgree

(* The index is called before the cache changes.                           *)
LEMMA PostingsBefore ==
    ASSUME Inv, TypeOK, PostingsInv, BeforeSuffix
    PROVE  /\ PostingsInv'
           /\ \/ postings' = postings
              \/ Unposts(event.id)
              \/ cache[event.id] # NoDoc /\ Posts(event.id, cache[event.id])
  <1>1. /\ stage = "before" /\ stage' = stage /\ cache' = cache /\ indexByID' = indexByID
        /\ event' = event
    BY DEF BeforeSuffix, CallBefore, mongoVars, cacheVars, event
  <1>2. /\ event.op = "insert" => Suffix!Add(event.id, event.fields)
        /\ event.op = "update" => Suffix!Update(event.id)
        /\ event.op = "delete" => Suffix!Delete(event.id)
    BY DEF BeforeSuffix
  <1>3. /\ event.id \in Ids /\ event.fields \in Docs /\ event.op \in Ops /\ cache \in States
        /\ C!TypeOK /\ Suffix!TypeOK /\ Once(postings)
        /\ event.op = "insert" => cache[event.id] = NoDoc /\ indexByID[event.id] = 0
    <2>1. event \in Events /\ Did(history[taken], history[taken + 1], event)
      BY <1>1, EventFacts
    <2>2. cache \in States /\ Agree(cache, history[taken])
      BY <1>1, StateFacts DEF Inv, CacheOK, Reached
    <2>3. event.op = "insert" => cache[event.id] = NoDoc
      BY <2>1, <2>2 DEF Did, Agree, Events
    <2> QED BY <2>1, <2>2, <2>3 DEF Events, Inv, NumbersAgree, Typed, TypeOK, PostingsInv
  <1>4. /\ Once(postings')
        /\ \/ postings' = postings
           \/ Unposts(event.id)
           \/ cache[event.id] # NoDoc /\ Posts(event.id, cache[event.id])
    BY <1>2, <1>3, SuffixMethods DEF Ops, Posts
  <1>5. ASSUME NEW id \in Settled, cache[id] # NoDoc, indexByID[id] # 0, Key(cache[id], SuffixFrom) # <<>>,
               NEW gram \in GramsOf(cache[id])
        PROVE  On(postings', gram, indexByID[id])
    <2>1. On(postings, gram, indexByID[id])
      BY <1>5 DEF PostingsInv
    <2>2. indexByID[id] # indexByID[event.id]
      BY <1>1, <1>3, <1>5, OwnNumber DEF Settled, Inv
    <2> QED BY <1>4, <2>1, <2>2 DEF Posts, Unposts
  <1>6. Settled' = Settled
    BY <1>1 DEF Settled
  <1> QED BY <1>1, <1>4, <1>5, <1>6 DEF PostingsInv

(* The cache changes: a number is given out, kept, or dropped.             *)
LEMMA NumbersApplied ==
    ASSUME Inv, Apply
    PROVE  /\ event' = event /\ postings' = postings /\ stage' = "after" /\ stage = "before"
           /\ \A id \in Ids \ {event.id} : cache'[id] = cache[id] /\ indexByID'[id] = indexByID[id]
           /\ event.op = "insert" => /\ cache'[event.id] = event.fields
                                     /\ indexByID'[event.id] = Len(itemsByIndex) + 1
           /\ event.op = "delete" => cache'[event.id] = NoDoc /\ indexByID'[event.id] = 0
           /\ event.op = "update" => indexByID'[event.id] = indexByID[event.id]
  <1>1. /\ event' = event /\ postings' = postings /\ stage' = "after" /\ stage = "before"
        /\ event.op = "insert" => C!Add(event.id, event.fields)
        /\ event.op = "update" => C!Update(event.id, event.fields, event.removed)
        /\ event.op = "delete" => C!Delete(event.id)
    BY DEF Apply, mongoVars, indexVars, event
  <1>2. /\ event.id \in Ids /\ event.op \in Ops /\ cache \in States
        /\ indexByID \in [Ids -> 0..Len(itemsByIndex)]
    BY <1>1, EventFacts, StateFacts DEF Events, Inv, Typed, C!TypeOK
  <1>3. CASE event.op = "insert"
    BY <1>1, <1>2, <1>3 DEF C!Add, States
  <1>4. CASE event.op = "update"
    BY <1>1, <1>2, <1>4 DEF C!Update, C!idxVars, States
  <1>5. CASE event.op = "delete"
    BY <1>1, <1>2, <1>5 DEF C!Delete, C!Forget, States
  <1> QED BY <1>1, <1>2, <1>3, <1>4, <1>5 DEF Ops

LEMMA PostingsApply ==
    ASSUME Inv, PostingsInv, Apply
    PROVE  PostingsInv'
  <1>1. /\ event' = event /\ postings' = postings /\ stage' = "after" /\ stage = "before"
        /\ \A id \in Ids \ {event.id} : cache'[id] = cache[id] /\ indexByID'[id] = indexByID[id]
        /\ event.op = "insert" => cache'[event.id] = event.fields
        /\ event.op = "delete" => cache'[event.id] = NoDoc
    BY NumbersApplied
  <1>2. Settled' = Settled /\ Settled \subseteq Ids \ {event.id}
    BY <1>1 DEF Settled
  <1> QED BY <1>1, <1>2 DEF PostingsInv

(* The index is called after the cache has changed.                        *)
LEMMA PostingsAfter ==
    ASSUME Inv, TypeOK, PostingsInv, AfterSuffix
    PROVE  /\ PostingsInv'
           /\ \/ postings' = postings
              \/ cache[event.id] # NoDoc /\ Posts(event.id, cache[event.id])
  <1>1. /\ stage = "after" /\ stage' = "idle" /\ cache' = cache /\ indexByID' = indexByID
        /\ event' = event
    BY DEF AfterSuffix, mongoVars, cacheVars, event
  <1>2. /\ event.op = "insert" => Suffix!Add(event.id, event.fields)
        /\ event.op = "update" => Suffix!Update(event.id)
        /\ event.op = "delete" => Suffix!Delete(event.id)
    BY DEF AfterSuffix
  <1>3. /\ event.id \in Ids /\ event.fields \in Docs /\ event.op \in Ops /\ cache \in States
        /\ C!TypeOK /\ Suffix!TypeOK /\ Once(postings) /\ event.fields # NoDoc
        /\ event.op = "insert" => cache[event.id] = event.fields
        /\ event.op = "delete" => cache[event.id] = NoDoc
    BY <1>1, EventFacts, StateFacts, NoDocNoDocument DEF Events, Inv, Typed, TypeOK, PostingsInv
  <1>4. /\ Once(postings')
        /\ IF cache[event.id] = NoDoc THEN postings' = postings ELSE Posts(event.id, cache[event.id])
    BY <1>2, <1>3, SuffixMethods DEF Ops
  <1>5. ASSUME NEW id \in Ids, cache[id] # NoDoc, indexByID[id] # 0, Key(cache[id], SuffixFrom) # <<>>,
               NEW gram \in GramsOf(cache[id])
        PROVE  On(postings', gram, indexByID[id])
    <2>1. CASE id = event.id
      BY <1>4, <1>5, <2>1 DEF Posts
    <2>2. CASE id # event.id
      <3>1. On(postings, gram, indexByID[id])
        BY <1>1, <1>5, <2>2 DEF PostingsInv, Settled
      <3> QED BY <1>4, <3>1 DEF Posts
    <2> QED BY <2>1, <2>2
  <1>6. Settled' = Ids
    BY <1>1 DEF Settled
  <1> QED BY <1>1, <1>4, <1>5, <1>6 DEF PostingsInv

LEMMA PostingsInvStep == Inv /\ TypeOK /\ PostingsInv /\ [Next]_vars => PostingsInv'
  <1>1. ASSUME PostingsInv, PostingsRest
        PROVE  PostingsInv'
    <2>1. ASSUME NEW id \in Settled', cache[id] # NoDoc, indexByID'[id] # 0, Key(cache[id], SuffixFrom) # <<>>,
                 NEW gram \in GramsOf(cache[id])
          PROVE  On(postings, gram, indexByID'[id])
      <3>1. id \in Settled /\ indexByID'[id] = indexByID[id]
        BY <1>1, <2>1 DEF PostingsRest, Settled
      <3> QED BY <1>1, <2>1, <3>1 DEF PostingsInv
    <2> QED BY <1>1, <2>1 DEF PostingsInv, PostingsRest
  <1> QED BY <1>1, PostingsStepKinds, PostingsBefore, PostingsApply, PostingsAfter

LEMMA PostingsInvInit == Init => PostingsInv
  <1> SUFFICES ASSUME Init PROVE PostingsInv
    OBVIOUS
  <1>1. stage = "idle" /\ postings = <<>> /\ cache = [id \in Ids |-> NoDoc]
    BY DEF Init, Suffix!Init, C!Init
  <1>2. \A gram : Under(postings, gram) = <<>>
    BY <1>1 DEF Under
  <1>3. Once(postings)
    BY <1>2, SameTimes, ListFacts!TimesEmpty DEF Once
  <1> QED BY <1>1, <1>3 DEF PostingsInv, Settled

(* The text that the index cuts up is that of the database's document.     *)
LEMMA CachedGrams ==
    ASSUME \A n \in 1..Len(SuffixFrom) : Followed(SuffixFrom[n]), Inv, NEW id \in Ids, cache[id] # NoDoc
    PROVE  GramsOf(cache[id]) = GramsOf(history[Reached][id]) /\ history[Reached][id] # NoDoc
  <1>1. cache \in States /\ history[Reached] \in States /\ Agree(cache, history[Reached])
        /\ SuffixFrom \in Seq(Fields)
    BY StateFacts, EntityStoreAssumption DEF Inv, CacheOK
  <1>2. Key(cache[id], SuffixFrom) = Key(history[Reached][id], SuffixFrom) /\ history[Reached][id] # NoDoc
    BY <1>1, CachedKey
  <1> QED BY <1>2, SameDocuments DEF GramsOf, Suffix!Contents

(* A document that is posted under the trigrams of its text has them now.  *)
LEMMA PostedNow ==
    ASSUME \A n \in 1..Len(SuffixFrom) : Followed(SuffixFrom[n]), Inv, PostedBefore,
           NEW e \in Ids, cache[e] # NoDoc, Posts(e, cache[e]),
           NEW id \in Ids, indexByID[id] # 0, NEW gram, On(postings', gram, indexByID[id])
    PROVE  Since(id, gram, Reached)
  <1>1. CASE On(postings, gram, indexByID[id])
    BY <1>1 DEF PostedBefore
  <1>2. CASE ~ On(postings, gram, indexByID[id])
    <2>1. indexByID[id] = indexByID[e] /\ gram \in GramsOf(cache[e])
      BY <1>2 DEF Posts
    <2>2. id = e
      BY <2>1, OwnNumber DEF Inv
    <2>3. gram \in GramsOf(history[Reached][id]) /\ history[Reached][id] # NoDoc
      BY <2>1, <2>2, CachedGrams
    <2>4. Reached \in 1..Reached /\ \A j \in Reached..Reached : j = Reached
      BY StateFacts DEF Inv
    <2> QED BY <2>3, <2>4 DEF Since
  <1> QED BY <1>1, <1>2

(* The cache comes to the next state of the collection: a document that    *)
(* keeps its number is still there, and one that gets its number is posted *)
(* nowhere yet.                                                            *)
LEMMA PastApply ==
    ASSUME Inv, TypeOK, PostedBefore, Apply
    PROVE  PostedBefore'
  <1>1. /\ event' = event /\ postings' = postings /\ stage' = "after" /\ stage = "before"
        /\ \A id \in Ids \ {event.id} : indexByID'[id] = indexByID[id]
        /\ event.op = "insert" => indexByID'[event.id] = Len(itemsByIndex) + 1
        /\ event.op = "delete" => indexByID'[event.id] = 0
        /\ event.op = "update" => indexByID'[event.id] = indexByID[event.id]
    BY NumbersApplied
  <1>2. /\ event \in Events /\ taken \in Nat /\ Did(history[taken], history[taken + 1], event)
        /\ history' = history /\ taken' = taken
        /\ Reached = taken /\ Reached' = taken + 1
    BY <1>1, EventFacts, StateFacts DEF Apply, mongoVars, Reached, Inv
  <1>3. cache \in States /\ Agree(cache, history[taken])
    BY <1>1, <1>2, StateFacts DEF Inv, CacheOK
  <1> SUFFICES ASSUME NEW id \in Ids, indexByID'[id] # 0, NEW gram, On(postings, gram, indexByID'[id])
               PROVE  Since(id, gram, taken + 1)'
    BY <1>1, <1>2 DEF PostedBefore
  <1>4. id = event.id => event.op = "update"
    <2> SUFFICES ASSUME id = event.id, event.op = "insert"
                 PROVE  FALSE
      BY <1>1, <1>2 DEF Events, Ops
    <2> DEFINE n == Len(itemsByIndex)
    <2>1. n \in Nat /\ Posting(postings, n)
      BY SuffixTypes DEF TypeOK, C!TypeOK
    <2>2. On(postings, gram, n + 1)
      BY <1>1
    <2> HIDE DEF n
    <2>3. Under(postings, gram) \in Seq(1..n)
      BY <2>1, UnderTyped
    <2>4. PICK i \in 1..Len(Under(postings, gram)) : Under(postings, gram)[i] = n + 1
      BY <2>2 DEF On, Suffix!Contains
    <2>5. Under(postings, gram)[i] \in 1..n
      BY <2>3, ElementFacts
    <2> QED BY <2>1, <2>4, <2>5
  <1>5. indexByID'[id] = indexByID[id] /\ history[taken + 1][id] # NoDoc
    <2>1. indexByID'[id] = indexByID[id]
      BY <1>1, <1>4
    <2>2. cache[id] # NoDoc
      BY <2>1 DEF Inv, NumbersAgree
    <2> QED BY <1>2, <1>3, <1>4, <2>1, <2>2 DEF Did, Agree
  <1>6. PICK k \in 1..taken : /\ \A j \in k..taken : history[j][id] # NoDoc
                              /\ gram \in GramsOf(history[k][id])
    BY <1>2, <1>5 DEF PostedBefore, Since
  <1>7. k \in 1..(taken + 1) /\ \A j \in k..(taken + 1) : j \in k..taken \/ j = taken + 1
    BY <1>2
  <1> QED BY <1>2, <1>5, <1>6, <1>7 DEF Since

LEMMA PostedBeforeStep ==
    ASSUME \A n \in 1..Len(SuffixFrom) : Followed(SuffixFrom[n])
    PROVE  Inv /\ TypeOK /\ PostingsInv /\ PostedBefore /\ [Next]_vars => PostedBefore'
  <1> SUFFICES ASSUME Inv, TypeOK, PostingsInv, PostedBefore, [Next]_vars
               PROVE  PostedBefore'
    OBVIOUS
  <1>1. Reached \in Nat
    BY StateFacts DEF Inv
  <1>2. ASSUME Reached' = Reached, \A k \in 1..Reached : history'[k] = history[k],
               NEW id \in Ids, NEW gram, Since(id, gram, Reached)
        PROVE  Since(id, gram, Reached)'
    <2>1. PICK k \in 1..Reached : /\ \A j \in k..Reached : history[j][id] # NoDoc
                                  /\ gram \in GramsOf(history[k][id])
      BY <1>2 DEF Since
    <2>2. \A j \in k..Reached : j \in 1..Reached
      BY <1>1
    <2>3. /\ \A j \in k..Reached : history'[j][id] # NoDoc
          /\ gram \in GramsOf(history'[k][id])
      BY <1>2, <2>1, <2>2
    <2> QED BY <1>2, <2>3 DEF Since
  <1>3. CASE PostingsRest
    BY <1>2, <1>3 DEF PostingsRest, PostedBefore
  <1>4. ASSUME Reached' = Reached, history' = history, indexByID' = indexByID, event.id \in Ids,
               \/ postings' = postings
               \/ Unposts(event.id)
               \/ cache[event.id] # NoDoc /\ Posts(event.id, cache[event.id])
        PROVE  PostedBefore'
    <2> SUFFICES ASSUME NEW id \in Ids, indexByID[id] # 0, NEW gram, On(postings', gram, indexByID[id])
                 PROVE  Since(id, gram, Reached)
      BY <1>2, <1>4 DEF PostedBefore
    <2>1. CASE cache[event.id] # NoDoc /\ Posts(event.id, cache[event.id])
      BY <1>4, <2>1, PostedNow
    <2>2. CASE postings' = postings \/ Unposts(event.id)
      BY <2>2 DEF Unposts, PostedBefore
    <2> QED BY <1>4, <2>1, <2>2
  <1>5. CASE BeforeSuffix
    <2>1. /\ stage = "before" /\ stage' = stage /\ taken' = taken /\ history' = history
          /\ indexByID' = indexByID
      BY <1>5 DEF BeforeSuffix, CallBefore, mongoVars, cacheVars
    <2>2. event.id \in Ids
      BY <2>1, EventFacts DEF Events
    <2> QED BY <1>4, <1>5, <2>1, <2>2, PostingsBefore DEF Reached
  <1>6. CASE AfterSuffix
    <2>1. /\ stage = "after" /\ stage' = "idle" /\ taken' = taken /\ history' = history
          /\ indexByID' = indexByID
      BY <1>6 DEF AfterSuffix, mongoVars, cacheVars
    <2>2. event.id \in Ids
      BY <2>1, EventFacts DEF Events
    <2> QED BY <1>4, <1>6, <2>1, <2>2, PostingsAfter DEF Reached
  <1> QED BY <1>3, <1>5, <1>6, PostingsStepKinds, PastApply

(* Wherever the Listener is: a cached document with a number is posted,    *)
(* once, under every trigram of its text, unless an event is changing it.  *)
TextsPosted ==
    \A id \in Settled :
       cache[id] # NoDoc /\ indexByID[id] # 0 /\ Key(cache[id], SuffixFrom) # <<>> =>
          \A gram \in GramsOf(cache[id]) : Times(Under(postings, gram), indexByID[id]) = 1

(* A number that is in a list of which no number is in twice is in once.   *)
LEMMA PostingsInvTexts ==
    ASSUME TypeOK, PostingsInv
    PROVE  TextsPosted
  <1> SUFFICES ASSUME NEW id \in Settled, cache[id] # NoDoc, indexByID[id] # 0,
                      Key(cache[id], SuffixFrom) # <<>>, NEW gram \in GramsOf(cache[id])
               PROVE  Times(Under(postings, gram), indexByID[id]) = 1
    BY DEF TextsPosted
  <1>1. Under(postings, gram) \in Seq(1..Len(itemsByIndex))
    BY SuffixTypes, UnderTyped DEF TypeOK
  <1>2. On(postings, gram, indexByID[id]) /\ Times(Under(postings, gram), indexByID[id]) <= 1
    BY DEF PostingsInv, Once
  <1> QED BY <1>1, <1>2, SuffixOften DEF On

(* Every text can be found: whatever numbers GetByIndex has taken away,    *)
(* and however often documents were deleted and created again, a document  *)
(* that has a number is posted under all trigrams of its text, nowhere     *)
(* twice (Suffix.Add, Update and Delete over Idx).                         *)
THEOREM SuffixPostsTexts == Spec => []TextsPosted
  <1>1. TypeOK /\ PostingsInv => TextsPosted
    BY PostingsInvTexts
  <1> QED BY <1>1, PostingsInvInit, PostingsInvStep, Invariance, TypeCorrect, PTL DEF Spec

(* No document is found by what was never its text: it is posted only      *)
(* under trigrams that it has had since it was created last, provided      *)
(* every change of the indexed fields reaches the cache.                   *)
THEOREM SuffixPostsNoOther ==
    ASSUME \A n \in 1..Len(SuffixFrom) : Followed(SuffixFrom[n])
    PROVE  Spec => []PostedBefore
  <1>1. Init => PostedBefore
    BY DEF Init, C!Init, PostedBefore
  <1>2. Inv /\ TypeOK /\ PostingsInv /\ PostedBefore /\ [Next]_vars => PostedBefore'
    BY PostedBeforeStep
  <1> QED BY <1>1, <1>2, PostingsInvInit, PostingsInvStep, Invariance, TypeCorrect, PTL DEF Spec

-----------------------------------------------------------------------------
(* What the suffix index finds.                                            *)

(* The loop of Only, and a round of it.                                    *)
OnlyLoop(list, set) ==
    LET only[n \in 0..Len(list)] ==
            IF n = 0 THEN <<>>
            ELSE IF list[n] \in set THEN Append(only[n - 1], list[n])
            ELSE only[n - 1]
    IN only

OnlyRound(list, set, only, n) ==
    IF n = 0 THEN <<>>
    ELSE IF list[n] \in set THEN Append(only[n - 1], list[n])
    ELSE only[n - 1]

(* The recursive definition of the loop has a solution.                    *)
LEMMA OnlyRounds ==
    ASSUME NEW S, NEW list \in Seq(S), NEW set
    PROVE  OnlyLoop(list, set) =
              [n \in 0..Len(list) |-> OnlyRound(list, set, OnlyLoop(list, set), n)]
  <1> DEFINE N == Len(list)
             step == [n \in 1..N |-> [out \in Seq(S) |->
                         IF list[n] \in set THEN Append(out, list[n]) ELSE out]]
  <1>1. N \in Nat /\ \A n \in 1..N : list[n] \in S
    OBVIOUS
  <1>2. <<>> \in Seq(S) /\ step \in ListFacts!Steps(N, Seq(S))
    BY <1>1 DEF ListFacts!Steps
  <1> HIDE DEF step
  <1>3. PICK g : ListFacts!Looped(g, N, Seq(S), <<>>, step)
    <2> HIDE DEF N
    <2> QED BY <1>1, <1>2, ListFacts!Recursion, Zenon
  <1>4. g \in [0..N -> Seq(S)] /\ g[0] = <<>> /\ \A n \in 1..N : g[n] = step[n][g[n - 1]]
    BY <1>3 DEF ListFacts!Looped
  <1>5. ASSUME NEW n \in 0..N
        PROVE  g[n] = OnlyRound(list, set, g, n)
    <2>1. CASE n = 0
      BY <1>4, <2>1 DEF OnlyRound
    <2>2. CASE n # 0
      <3>1. n \in 1..N /\ n - 1 \in 0..N
        BY <1>1, <2>2
      <3>2. g[n] = step[n][g[n - 1]] /\ g[n - 1] \in Seq(S)
        BY <1>4, <3>1
      <3> QED BY <2>2, <3>1, <3>2 DEF step, OnlyRound
    <2> QED BY <2>1, <2>2
  <1>6. g = [n \in 0..N |-> OnlyRound(list, set, g, n)]
    BY <1>4, <1>5
  <1> QED BY <1>6 DEF OnlyLoop, OnlyRound

(* It is what Only returns the last of.                                    *)
LEMMA OnlyIsLoop ==
    ASSUME NEW list, NEW set
    PROVE  Suffix!Only(list, set) = OnlyLoop(list, set)[Len(list)]
  BY DEF Suffix!Only, OnlyLoop

(* The first n elements.                                                   *)
First(list, n) == SubSeq(list, 1, n)

LEMMA OneLonger ==
    ASSUME NEW S, NEW list \in Seq(S)
    PROVE  /\ First(list, 0) = <<>> /\ First(list, Len(list)) = list
           /\ \A n \in Nat : n < Len(list) =>
                 /\ First(list, n) \in Seq(S) /\ list[n + 1] \in S
                 /\ First(list, n + 1) = Append(First(list, n), list[n + 1])
  BY DEF First

(* A list holds those of its elements that are kept as often as before.    *)
LEMMA OnlyTimes ==
    ASSUME NEW S, NEW list \in Seq(S), NEW set
    PROVE  /\ Suffix!Only(list, set) \in Seq(S)
           /\ \A x : Times(Suffix!Only(list, set), x) = IF x \in set THEN Times(list, x) ELSE 0
  <1> DEFINE N == Len(list)
             k == OnlyLoop(list, set)
             D == {n \in 0..N : /\ k[n] \in Seq(S)
                                /\ \A x : Times(k[n], x) =
                                      IF x \in set THEN Times(First(list, n), x) ELSE 0}
  <1>1. N \in Nat /\ \A n \in 0..N : k[n] = OnlyRound(list, set, k, n)
    BY OnlyRounds
  <1> HIDE DEF k
  <1>2. 0 \in D
    <2>1. k[0] = <<>> /\ First(list, 0) = <<>>
      BY <1>1, OneLonger DEF OnlyRound
    <2>2. <<>> \in Seq(S) /\ \A x : Times(<<>>, x) = 0
      BY SameTimes, ListFacts!TimesEmpty
    <2>3. 0 \in 0..N /\ k[0] \in Seq(S)
      BY <1>1, <2>1, <2>2
    <2>4. ASSUME NEW x
          PROVE  Times(k[0], x) = 0 /\ Times(First(list, 0), x) = 0
      BY <2>1, <2>2, Zenon
    <2> HIDE DEF N
    <2> QED BY <2>3, <2>4
  <1>3. ASSUME NEW n \in Nat, n < N, n \in D
        PROVE  n + 1 \in D
    <2> DEFINE e == list[n + 1]
               before == First(list, n)
               after == First(list, n + 1)
    <2>1. /\ before \in Seq(S) /\ e \in S /\ after = Append(before, e)
          /\ n + 1 \in 0..N /\ (n + 1) - 1 = n
      BY <1>1, <1>3, OneLonger
    <2>2. k[n + 1] = IF e \in set THEN Append(k[n], e) ELSE k[n]
      BY <1>1, <2>1 DEF OnlyRound
    <2>3. /\ k[n] \in Seq(S)
          /\ \A x : Times(k[n], x) = IF x \in set THEN Times(before, x) ELSE 0
      BY <1>3
    <2> HIDE DEF e, before, after
    <2>4. \A x : /\ Times(after, x) = IF e = x THEN Times(before, x) + 1 ELSE Times(before, x)
                 /\ Times(Append(k[n], e), x) = IF e = x THEN Times(k[n], x) + 1 ELSE Times(k[n], x)
      BY <2>1, <2>3, SameTimes, ListFacts!TimesAppend
    <2>5. k[n + 1] \in Seq(S)
      BY <2>1, <2>2, <2>3, AppendFacts
    <2>6. ASSUME NEW x
          PROVE  Times(k[n + 1], x) = IF x \in set THEN Times(after, x) ELSE 0
      <3>1. CASE e \in set
        BY <2>2, <2>3, <2>4, <3>1
      <3>2. CASE e \notin set
        BY <2>2, <2>3, <2>4, <3>2
      <3> QED BY <3>1, <3>2
    <2> QED BY <2>1, <2>5, <2>6 DEF after
  <1> HIDE DEF D
  <1>4. \A n \in 0..N : n \in D
    BY <1>1, <1>2, <1>3, ListFacts!InductionTo
  <1>5. N \in D /\ First(list, N) = list
    BY <1>1, <1>4, OneLonger
  <1> QED BY <1>5, OnlyIsLoop DEF D, k

(* If all are kept, the list is what it was.                               *)
LEMMA OnlyAll ==
    ASSUME NEW S, NEW list \in Seq(S), NEW set, \A n \in 1..Len(list) : list[n] \in set
    PROVE  Suffix!Only(list, set) = list
  <1> DEFINE N == Len(list)
             k == OnlyLoop(list, set)
             D == {n \in 0..N : k[n] = First(list, n)}
  <1>1. N \in Nat /\ \A n \in 0..N : k[n] = OnlyRound(list, set, k, n)
    BY OnlyRounds
  <1> HIDE DEF k
  <1>2. 0 \in D
    BY <1>1, OneLonger DEF OnlyRound
  <1>3. ASSUME NEW n \in Nat, n < N, n \in D
        PROVE  n + 1 \in D
    <2>1. /\ First(list, n + 1) = Append(First(list, n), list[n + 1])
          /\ n + 1 \in 0..N /\ n + 1 \in 1..N /\ (n + 1) - 1 = n /\ n + 1 # 0
      BY <1>1, <1>3, OneLonger
    <2>2. k[n + 1] = Append(k[n], list[n + 1])
      BY <1>1, <2>1 DEF OnlyRound
    <2> QED BY <1>3, <2>1, <2>2
  <1> HIDE DEF D
  <1>4. \A n \in 0..N : n \in D
    BY <1>1, <1>2, <1>3, ListFacts!InductionTo
  <1>5. N \in D /\ First(list, N) = list
    BY <1>1, <1>4, OneLonger
  <1> QED BY <1>5, OnlyIsLoop DEF D, k

(* IntersectInt, of lists that hold nothing twice.                         *)
LEMMA CommonNumbers ==
    ASSUME NEW S, NEW in1 \in Seq(S), NEW in2 \in Seq(S),
           \A x : Times(in1, x) <= 1 /\ Times(in2, x) <= 1
    PROVE  /\ Suffix!IntersectInt(in1, in2) \in Seq(S)
           /\ \A x : Times(Suffix!IntersectInt(in1, in2), x) =
                        IF Times(in1, x) # 0 /\ Times(in2, x) # 0 THEN 1 ELSE 0
  <1> DEFINE holds(list) == Suffix!Maps!Range(list)
  <1>1. ASSUME NEW list \in Seq(S), NEW x
        PROVE  Times(list, x) \in Nat /\ (x \in holds(list) <=> Times(list, x) # 0)
    <2>1. x \in holds(list) <=> Suffix!Contains(list, x)
      BY DEF Suffix!Maps!Range, Suffix!Contains
    <2> QED BY <2>1, SuffixOften
  <1>2. \A x : /\ Times(in1, x) \in Nat /\ (x \in holds(in1) <=> Times(in1, x) # 0)
               /\ Times(in2, x) \in Nat /\ (x \in holds(in2) <=> Times(in2, x) # 0)
    BY <1>1
  <1> DEFINE first == Suffix!Only(in1, holds(in2))
             second == Suffix!Only(in2, holds(in1))
             both == Suffix!IntersectInt(in1, in2)
  <1>3. both = first \/ both = second
    BY DEF Suffix!IntersectInt
  <1> HIDE DEF holds, both
  <1>4. /\ first \in Seq(S) /\ second \in Seq(S)
        /\ \A x : Times(first, x) = IF x \in holds(in2) THEN Times(in1, x) ELSE 0
        /\ \A x : Times(second, x) = IF x \in holds(in1) THEN Times(in2, x) ELSE 0
    BY OnlyTimes
  <1> HIDE DEF first, second
  <1>5. ASSUME NEW x
        PROVE  Times(both, x) = IF Times(in1, x) # 0 /\ Times(in2, x) # 0 THEN 1 ELSE 0
    <2>1. Times(in1, x) \in {0, 1} /\ Times(in2, x) \in {0, 1}
      BY <1>2
    <2> QED BY <1>2, <1>3, <1>4, <2>1
  <1> QED BY <1>3, <1>4, <1>5 DEF both

-----------------------------------------------------------------------------
(* The text of a key is a list of characters.                              *)
LEMMA TextType ==
    ASSUME NEW key \in Seq(Values)
    PROVE  Suffix!Text(key) \in Seq(DOMAIN Lower) /\ (key = <<>> => Suffix!Text(key) = <<>>)
  <1> DEFINE spelled == [k \in DOMAIN key |-> Spelling[key[k]]]
  <1>1. spelled \in Seq(Seq(DOMAIN Lower)) /\ (key = <<>> => spelled = <<>>)
    <2>1. \A k \in 1..Len(key) : Spelling[key[k]] \in Seq(DOMAIN Lower)
      BY EntityStoreAssumption, ElementFacts
    <2> DEFINE T == Seq(DOMAIN Lower)
    <2> HIDE DEF T
    <2>2. spelled \in Seq(T)
      <3>1. DOMAIN key = 1..Len(key) /\ Len(key) \in Nat
        OBVIOUS
      <3> QED BY <2>1, <3>1 DEF T
    <2> QED BY <2>2 DEF T
  <1> HIDE DEF spelled
  <1>2. Suffix!FlattenSeq(spelled) = ListFacts!FlattenSeq(spelled)
    BY DEF Suffix!FlattenSeq, ListFacts!FlattenSeq
  <1> QED BY <1>1, <1>2, ListFacts!FlattenType DEF Suffix!Text, spelled

(* A text of fewer than three characters has no trigrams.                  *)
LEMMA GramsOfText ==
    ASSUME NEW S, NEW text \in Seq(S)
    PROVE  /\ Suffix!Grams(text) \in Seq(Suffix!Range(Suffix!Grams(text)))
           /\ Len(Suffix!Grams(text)) = IF Len(text) < 3 THEN 0 ELSE Len(text) - 2
           /\ Suffix!Grams(text) = <<>> <=> Len(text) < 3
  <1> DEFINE N == IF Len(text) < 3 THEN 0 ELSE Len(text) - 2
             gram(k) == [j \in 1..3 |-> Lower[text[k + j - 1]]]
             grams == [k \in 1..N |-> gram(k)]
  <1>1. N \in Nat /\ 1..N = 1..(Len(text) - 2) /\ (N = 0 <=> Len(text) < 3)
    <2> DEFINE l == Len(text)
    <2>1. l \in Nat
      OBVIOUS
    <2> HIDE DEF l
    <2>2. \A i \in Int : i \in 1..N <=> i \in 1..(l - 2)
      BY <2>1 DEF l
    <2>3. N \in Nat /\ (N = 0 <=> l < 3)
      BY <2>1 DEF l
    <2> HIDE DEF N
    <2>4. 1..N = 1..(l - 2)
      BY <2>1, <2>2, <2>3
    <2> QED BY <2>3, <2>4 DEF l
  <1>2. Suffix!Grams(text) = grams
    BY <1>1 DEF Suffix!Grams
  <1> HIDE DEF N, gram
  <1>3. grams \in Seq(Suffix!Range(grams)) /\ Len(grams) = N /\ (grams = <<>> <=> N = 0)
    <2> DEFINE R == Suffix!Range(grams)
    <2>1. \A k \in 1..N : gram(k) \in R
      BY DEF Suffix!Range
    <2> HIDE DEF R
    <2>2. grams \in Seq(R) /\ Len(grams) = N
      BY <1>1, <2>1
    <2>3. grams = <<>> <=> N = 0
      BY <1>1, <2>2
    <2> QED BY <2>2, <2>3 DEF R
  <1> QED BY <1>1, <1>2, <1>3 DEF N

(* The loop of Numbers, and a round of it.                                 *)
NumbersLoop(grams) ==
    LET numbers[k \in DOMAIN grams] ==
            IF k = 1 THEN Suffix!Posted(grams[1])
            ELSE Suffix!IntersectInt(numbers[k - 1], Suffix!Posted(grams[k]))
    IN numbers

NumbersRound(grams, numbers, k) ==
    IF k = 1 THEN Suffix!Posted(grams[1])
    ELSE Suffix!IntersectInt(numbers[k - 1], Suffix!Posted(grams[k]))

(* The recursive definition of the loop has a solution.                    *)
LEMMA NumbersRounds ==
    ASSUME NEW last \in Nat, Posting(postings, last), NEW S, NEW grams \in Seq(S)
    PROVE  NumbersLoop(grams) =
              [k \in 1..Len(grams) |-> NumbersRound(grams, NumbersLoop(grams), k)]
  <1> DEFINE N == Len(grams)
             T == Seq(1..last)
             step == [k \in 1..N |-> [out \in T |->
                         IF k = 1 THEN Suffix!Posted(grams[1])
                         ELSE Suffix!IntersectInt(out, Suffix!Posted(grams[k]))]]
             none == <<>>
  <1>1. N \in Nat /\ DOMAIN grams = 1..N /\ none \in T
    OBVIOUS
  <1>2. \A gram : Suffix!Posted(gram) \in T
    BY UnderTyped DEF Suffix!Posted, Under
  <1>3. \A in1, in2 \in T : Suffix!IntersectInt(in1, in2) \in T
    BY OnlyTimes DEF Suffix!IntersectInt
  <1> HIDE DEF T, N, none
  <1>4. step \in ListFacts!Steps(N, T)
    BY <1>2, <1>3 DEF ListFacts!Steps
  <1> HIDE DEF step
  <1>5. PICK g : ListFacts!Looped(g, N, T, none, step)
    BY <1>1, <1>4, ListFacts!Recursion, Zenon
  <1>6. g \in [0..N -> T] /\ \A n \in 1..N : g[n] = step[n][g[n - 1]]
    BY <1>5 DEF ListFacts!Looped
  <1> DEFINE f == [k \in 1..N |-> g[k]]
  <1>7. ASSUME NEW k \in 1..N
        PROVE  g[k] = NumbersRound(grams, f, k)
    <2>1. k - 1 \in 0..N /\ (k # 1 => k - 1 \in 1..N)
      BY <1>1
    <2>2. g[k] = step[k][g[k - 1]] /\ g[k - 1] \in T
      BY <1>6, <2>1
    <2> QED BY <2>1, <2>2 DEF step, NumbersRound
  <1>8. f = [k \in 1..N |-> NumbersRound(grams, f, k)]
    BY <1>7
  <1> HIDE DEF f
  <1> QED BY <1>1, <1>8 DEF NumbersLoop, NumbersRound, N

(* S.Search lists the numbers that are posted under all trigrams of the    *)
(* text, once.                                                             *)
LEMMA NumbersTimes ==
    ASSUME NEW last \in Nat, Posting(postings, last), Once(postings), NEW S, NEW text \in Seq(S)
    PROVE  /\ Suffix!Numbers(text) \in Seq(1..last)
           /\ \A n : Times(Suffix!Numbers(text), n) =
                        IF /\ Len(text) >= 3
                           /\ \A gram \in Suffix!Range(Suffix!Grams(text)) : On(postings, gram, n)
                        THEN 1 ELSE 0
  <1> DEFINE grams == Suffix!Grams(text)
             N == Len(grams)
             k == NumbersLoop(grams)
             All(m, n) == \A j \in 1..m : On(postings, grams[j], n)
             D == {m \in 0..N : m # 0 => /\ k[m] \in Seq(1..last)
                                         /\ \A n : Times(k[m], n) = IF All(m, n) THEN 1 ELSE 0}
  <1>1. /\ N \in Nat /\ DOMAIN grams = 1..N
        /\ grams = <<>> <=> Len(text) < 3
        /\ \A m \in 1..N : k[m] = NumbersRound(grams, k, m)
    BY GramsOfText, NumbersRounds
  <1>2. Len(text) \in Nat
    OBVIOUS
  <1>3. Suffix!Numbers(text) = IF grams = <<>> THEN <<>> ELSE k[N]
    BY DEF Suffix!Numbers, NumbersLoop
  <1> HIDE DEF grams, k
  <1>4. ASSUME NEW gram
        PROVE  /\ Suffix!Posted(gram) \in Seq(1..last)
               /\ \A n : /\ Times(Suffix!Posted(gram), n) \in {0, 1}
                         /\ On(postings, gram, n) <=> Times(Suffix!Posted(gram), n) = 1
    <2>1. Suffix!Posted(gram) = Under(postings, gram) /\ Under(postings, gram) \in Seq(1..last)
      BY UnderTyped DEF Suffix!Posted, Under
    <2>2. ASSUME NEW n
          PROVE  /\ Times(Under(postings, gram), n) \in {0, 1}
                 /\ On(postings, gram, n) <=> Times(Under(postings, gram), n) = 1
      BY <2>1, SuffixOften DEF Once, On
    <2> QED BY <2>1, <2>2
  <1>5. 0 \in D
    BY <1>1
  <1>6. ASSUME NEW m \in Nat, m < N, m \in D
        PROVE  m + 1 \in D
    <2> DEFINE p == Suffix!Posted(grams[m + 1])
    <2>1. m + 1 \in 1..N /\ (m + 1) - 1 = m /\ k[m + 1] = NumbersRound(grams, k, m + 1)
      BY <1>1, <1>6
    <2>2. /\ p \in Seq(1..last)
          /\ \A n : Times(p, n) \in {0, 1} /\ (On(postings, grams[m + 1], n) <=> Times(p, n) = 1)
      BY <1>4
    <2>3. \A n : /\ All(m + 1, n) <=> All(m, n) /\ On(postings, grams[m + 1], n)
                 /\ m = 0 => All(m, n)
      <3>1. \A j : j \in 1..(m + 1) <=> j \in 1..m \/ j = m + 1
        BY <1>6
      <3> QED BY <3>1
    <2> HIDE DEF p, All
    <2>4. CASE m = 0
      <3>1. k[m + 1] = p
        BY <2>1, <2>4 DEF NumbersRound, p
      <3> QED BY <2>1, <2>2, <2>3, <2>4, <3>1
    <2>5. CASE m # 0
      <3>1. k[m + 1] = Suffix!IntersectInt(k[m], p)
        BY <2>1, <2>5 DEF NumbersRound, p
      <3>2. k[m] \in Seq(1..last) /\ \A n : Times(k[m], n) = IF All(m, n) THEN 1 ELSE 0
        BY <1>6, <2>5
      <3>3. ASSUME NEW x
            PROVE  Times(k[m], x) <= 1 /\ Times(p, x) <= 1
        <4>1. Times(k[m], x) \in {0, 1} /\ Times(p, x) \in {0, 1}
          BY <2>2, <3>2
        <4> QED BY <4>1
      <3>4. /\ k[m + 1] \in Seq(1..last)
            /\ \A n : Times(k[m + 1], n) = IF Times(k[m], n) # 0 /\ Times(p, n) # 0 THEN 1 ELSE 0
        <4>1. /\ k[m] \in Seq(1..last) /\ p \in Seq(1..last)
              /\ \A x : Times(k[m], x) <= 1 /\ Times(p, x) <= 1
          BY <2>2, <3>2, <3>3
        <4>2. /\ Suffix!IntersectInt(k[m], p) \in Seq(1..last)
              /\ \A n : Times(Suffix!IntersectInt(k[m], p), n) =
                           IF Times(k[m], n) # 0 /\ Times(p, n) # 0 THEN 1 ELSE 0
          BY <4>1, CommonNumbers, Zenon
        <4> QED BY <3>1, <4>2
      <3>5. ASSUME NEW n
            PROVE  Times(k[m + 1], n) = IF All(m + 1, n) THEN 1 ELSE 0
        BY <2>2, <2>3, <3>2, <3>4
      <3> QED BY <2>1, <3>4, <3>5
    <2> QED BY <2>4, <2>5
  <1> HIDE DEF D
  <1>7. \A m \in 0..N : m \in D
    BY <1>1, <1>5, <1>6, ListFacts!InductionTo
  <1>8. CASE Len(text) < 3
    <2>1. Suffix!Numbers(text) = <<>>
      BY <1>1, <1>3, <1>8
    <2>2. <<>> \in Seq(1..last) /\ \A n : Times(<<>>, n) = 0
      BY SameTimes, ListFacts!TimesEmpty
    <2>3. ~ (Len(text) >= 3)
      BY <1>2, <1>8
    <2> QED BY <2>1, <2>2, <2>3
  <1>9. CASE ~ (Len(text) < 3)
    <2>1. grams # <<>> /\ N # 0 /\ N \in 0..N
      <3>1. grams # <<>> /\ N # 0
        BY <1>2, <1>9, GramsOfText DEF grams
      <3> QED BY <1>1, <3>1
    <2>2. Suffix!Numbers(text) = k[N] /\ N \in D
      BY <1>3, <1>7, <2>1
    <2>3. ASSUME NEW n
          PROVE  (\A j \in 1..N : On(postings, grams[j], n)) <=>
                    (\A gram \in Suffix!Range(grams) : On(postings, gram, n))
      BY <1>1 DEF Suffix!Range
    <2>4. Len(text) >= 3
      BY <1>2, <1>9
    <2> HIDE DEF N
    <2> QED BY <2>1, <2>2, <2>3, <2>4 DEF D, grams
  <1> QED BY <1>8, <1>9

-----------------------------------------------------------------------------
(* M.Search lists a document as often as S.Search lists its number, and no *)
(* id but of documents that have a number.                                 *)
LEMMA SearchTimes ==
    ASSUME TypeOK, NumbersAgree, Once(postings), NEW S, NEW text \in Seq(S)
    PROVE  /\ \A id \in Ids : indexByID[id] # 0 =>
                 Times(Suffix!Search(text), id) =
                    IF /\ Len(text) >= 3
                       /\ \A gram \in Suffix!Range(Suffix!Grams(text)) :
                             On(postings, gram, indexByID[id])
                    THEN 1 ELSE 0
           /\ \A id \in Lists!ToSet(Suffix!Search(text)) \ {Nil} :
                 /\ id \in Ids /\ indexByID[id] # 0
                 /\ \A gram \in Suffix!Range(Suffix!Grams(text)) : On(postings, gram, indexByID[id])
  <1> DEFINE list == Suffix!Numbers(text)
             last == Len(itemsByIndex)
             Through(n) == /\ Len(text) >= 3
                           /\ \A gram \in Suffix!Range(Suffix!Grams(text)) : On(postings, gram, n)
  <1>1. /\ last \in Nat /\ Posting(postings, last) /\ DOMAIN itemsByIndex = 1..last
        /\ \A n \in 1..last : itemsByIndex[n] \in Ids \cup {Nil}
    BY SuffixTypes, ElementFacts DEF TypeOK, C!TypeOK
  <1>2. list \in Seq(1..last) /\ \A n : Times(list, n) = IF Through(n) THEN 1 ELSE 0
    BY <1>1, NumbersTimes
  <1> HIDE DEF list, last
  <1>3. Suffix!Search(text) = [k \in DOMAIN list |-> itemsByIndex[list[k]]]
    BY DEF Suffix!Search, list
  <1>4. \A k \in DOMAIN list : list[k] \in 1..last
    <2>1. DOMAIN list = 1..Len(list)
      BY <1>2
    <2> HIDE DEF Through
    <2> QED BY <1>2, <2>1, ElementFacts
  <1>5. ASSUME NEW id \in Ids, NEW n \in 1..last, itemsByIndex[n] = id
        PROVE  indexByID[id] = n /\ n # 0
    <2>1. n \in DOMAIN itemsByIndex /\ itemsByIndex[n] # Nil /\ n # 0
      BY <1>1, <1>5, DocumentsAssumption
    <2> QED BY <1>5, <2>1 DEF NumbersAgree
  <1>6. ASSUME NEW id \in Ids, indexByID[id] # 0
        PROVE  Times(Suffix!Search(text), id) = IF Through(indexByID[id]) THEN 1 ELSE 0
    <2> DEFINE n == indexByID[id]
    <2>1. itemsByIndex[n] = id
      BY <1>6 DEF NumbersAgree
    <2>2. \A k \in DOMAIN list : itemsByIndex[list[k]] = id <=> list[k] = n
      BY <1>4, <1>5, <2>1
    <2>3. Times(Suffix!Search(text), id) = Times(list, n)
      <3>1. {k \in DOMAIN Suffix!Search(text) : Suffix!Search(text)[k] = id} =
               {k \in DOMAIN list : list[k] = n}
        BY <1>3, <2>2
      <3> QED BY <3>1 DEF Times
    <2> HIDE DEF n, Through
    <2>4. Times(list, n) = IF Through(n) THEN 1 ELSE 0
      BY <1>2
    <2> QED BY <2>3, <2>4 DEF n
  <1>7. ASSUME NEW id \in Lists!ToSet(Suffix!Search(text)) \ {Nil}
        PROVE  id \in Ids /\ indexByID[id] # 0 /\ Through(indexByID[id])
    <2>1. PICK k \in DOMAIN list : id = itemsByIndex[list[k]]
      BY <1>3 DEF Lists!ToSet
    <2>2. id \in Ids /\ indexByID[id] = list[k] /\ list[k] # 0
      BY <1>1, <1>4, <1>5, <2>1
    <2>3. Times(list, list[k]) # 0
      <3>1. Suffix!Contains(list, list[k])
        BY <1>2, <2>1 DEF Suffix!Contains
      <3> QED BY <1>2, <3>1, SuffixOften
    <2> HIDE DEF Through
    <2>4. Times(list, list[k]) = IF Through(list[k]) THEN 1 ELSE 0
      BY <1>2
    <2> QED BY <2>2, <2>3, <2>4
  <1> QED BY <1>6, <1>7

(* The text of a document.                                                 *)
LEMMA ContentsType ==
    ASSUME NEW doc \in Docs
    PROVE  /\ Suffix!Contents(doc) \in Seq(DOMAIN Lower)
           /\ Key(doc, SuffixFrom) = <<>> => Suffix!Contents(doc) = <<>>
  <1>1. Suffix!Contents(doc) = Suffix!Text(Key(doc, SuffixFrom))
    BY SameDocuments DEF Suffix!Contents
  <1>2. Key(doc, SuffixFrom) \in Seq(Values)
    BY KeyFacts, EntityStoreAssumption
  <1> QED BY <1>1, <1>2, TextType

(* The trigrams of a part of a text are trigrams of the text: the k-th of  *)
(* the part that begins at i is the text's at i + k - 1.                   *)
InText(t, i, j, p, k) ==
    /\ t \in Nat /\ i \in 1..t /\ j \in 1..t
    /\ p = (IF i <= j THEN j - i + 1 ELSE 0) /\ k \in 1..(p - 2)

Placed(t, i, p, k) ==
    /\ i + k - 1 \in 1..(t - 2)
    /\ \A l \in 1..3 : k + l - 1 \in 1..p /\ i + (k + l - 1) - 1 = (i + k - 1) + l - 1

LEMMA PlaceInText ==
    ASSUME NEW t, NEW i, NEW j, NEW p, NEW k, InText(t, i, j, p, k)
    PROVE  Placed(t, i, p, k)
  <1>1. /\ i \in Nat /\ 1 <= i /\ j \in Nat /\ j <= t
        /\ t \in Nat /\ p \in Nat
    BY DEF InText
  <1>2. k \in Nat /\ 1 <= k /\ k <= p - 2
    BY <1>1 DEF InText
  <1>3. p = j - i + 1
    BY <1>1, <1>2 DEF InText
  <1>4. i + k - 1 \in 1..(t - 2)
    BY <1>1, <1>2, <1>3
  <1>5. ASSUME NEW l \in 1..3
        PROVE  k + l - 1 \in 1..p /\ i + (k + l - 1) - 1 = (i + k - 1) + l - 1
    BY <1>1, <1>2
  <1> QED BY <1>4, <1>5 DEF Placed

LEMMA PartGrams ==
    ASSUME NEW S, NEW text \in Seq(S), NEW part \in Suffix!Parts(text)
    PROVE  /\ part \in Seq(S) /\ Len(part) <= Len(text)
           /\ Suffix!Range(Suffix!Grams(part)) \subseteq Suffix!Range(Suffix!Grams(text))
  <1>1. PICK i \in DOMAIN text, j \in DOMAIN text : part = SubSeq(text, i, j)
    BY DEF Suffix!Parts
  <1>2. /\ i \in 1..Len(text) /\ j \in 1..Len(text) /\ part \in Seq(S) /\ Len(text) \in Nat
        /\ Len(part) = IF i <= j THEN j - i + 1 ELSE 0
        /\ \A k \in 1..Len(part) : part[k] = text[i + k - 1]
    BY <1>1
  <1> DEFINE p == Len(part)
             t == Len(text)
  <1>3. ASSUME NEW k \in 1..(p - 2)
        PROVE  /\ i + k - 1 \in 1..(t - 2)
               /\ Suffix!Grams(part)[k] = Suffix!Grams(text)[i + k - 1]
    <2>1. t \in Nat /\ i \in 1..t /\ j \in 1..t /\ p = IF i <= j THEN j - i + 1 ELSE 0
      BY <1>2
    <2>2. /\ i + k - 1 \in 1..(t - 2)
          /\ \A l \in 1..3 : k + l - 1 \in 1..p /\ i + (k + l - 1) - 1 = (i + k - 1) + l - 1
      <3> HIDE DEF p, t
      <3>1. InText(t, i, j, p, k)
        BY <2>1 DEF InText
      <3>2. Placed(t, i, p, k)
        BY <3>1, PlaceInText
      <3> QED BY <3>2 DEF Placed
    <2>3. ASSUME NEW l \in 1..3
          PROVE  part[k + l - 1] = text[(i + k - 1) + l - 1]
      <3> DEFINE m == k + l - 1
      <3>1. m \in 1..p /\ i + m - 1 = (i + k - 1) + l - 1
        BY <2>2
      <3>2. \A n \in 1..p : part[n] = text[i + n - 1]
        BY <1>2
      <3> HIDE DEF m, p
      <3>3. part[m] = text[(i + k - 1) + l - 1]
        BY <3>1, <3>2
      <3> QED BY <3>3 DEF m
    <2> DEFINE gram(some, m) == [l \in 1..3 |-> Lower[some[m + l - 1]]]
    <2>4. /\ Suffix!Grams(part) = [m \in 1..(Len(part) - 2) |-> gram(part, m)]
          /\ Suffix!Grams(text) = [m \in 1..(Len(text) - 2) |-> gram(text, m)]
      BY DEF Suffix!Grams
    <2>5. gram(part, k) = gram(text, i + k - 1)
      BY <2>3
    <2> HIDE DEF gram
    <2> QED BY <2>2, <2>4, <2>5
  <1>4. DOMAIN Suffix!Grams(part) = 1..(Len(part) - 2) /\ DOMAIN Suffix!Grams(text) = 1..(Len(text) - 2)
    BY DEF Suffix!Grams
  <1>5. Suffix!Range(Suffix!Grams(part)) \subseteq Suffix!Range(Suffix!Grams(text))
    BY <1>3, <1>4 DEF Suffix!Range
  <1> QED BY <1>2, <1>5

(* Whatever part of a document's text is searched for.                     *)
LEMMA PostedFound ==
    ASSUME Inv, TypeOK, PostingsInv
    PROVE  SuffixFinds
  <1> SUFFICES ASSUME NEW id \in Settled, cache[id] # NoDoc, indexByID[id] # 0,
                      NEW part \in Suffix!Parts(Suffix!Contents(cache[id])), Len(part) >= 3
               PROVE  /\ Times(Suffix!Search(part), id) = 1
                      /\ Lists!ToSet(part) \cap Marks = {} =>
                            Suffix!Hits(part, indexByID[id]) = Len(part) - 2
    BY DEF SuffixFinds
  <1> DEFINE text == Suffix!Contents(cache[id])
             n == indexByID[id]
             S == DOMAIN Lower
  <1>1. id \in Ids /\ cache[id] \in Docs
    BY StateFacts DEF Inv, States, Settled
  <1>2. text \in Seq(S) /\ (Key(cache[id], SuffixFrom) = <<>> => text = <<>>)
    BY <1>1, ContentsType
  <1>3. /\ part \in Seq(S) /\ Len(part) <= Len(text)
        /\ Suffix!Range(Suffix!Grams(part)) \subseteq Suffix!Range(Suffix!Grams(text))
    BY <1>2, PartGrams
  <1>4. Key(cache[id], SuffixFrom) # <<>>
    <2>1. text # <<>>
      BY <1>2, <1>3
    <2> QED BY <1>2, <2>1
  <1>5. \A gram \in Suffix!Range(Suffix!Grams(part)) : On(postings, gram, n)
    BY <1>3, <1>4 DEF PostingsInv, GramsOf
  <1>6. Times(Suffix!Search(part), id) = 1
    <2>1. NumbersAgree /\ Once(postings)
      BY DEF Inv, PostingsInv
    <2> QED BY <1>1, <1>3, <1>5, <2>1, SearchTimes
  <1>7. ASSUME Lists!ToSet(part) \cap Marks = {}
        PROVE  Suffix!Hits(part, n) = Len(part) - 2
    <2> DEFINE grams == Suffix!Grams(part)
               p == Len(part)
    <2>1. \A k \in 1..p : part[k] \in Suffix!Range(part) \ Marks
      BY <1>3, <1>7 DEF Suffix!Range, Lists!ToSet
    <2>2. Suffix!Only(part, Suffix!Range(part) \ Marks) = part
      BY <1>3, <2>1, OnlyAll
    <2>3. DOMAIN grams = 1..(p - 2) /\ p - 2 \in Nat
      <3>1. p \in Nat /\ p >= 3
        BY <1>3
      <3> QED BY <3>1 DEF Suffix!Grams
    <2>4. \A gram : Suffix!Posted(gram) = Under(postings, gram)
      BY DEF Suffix!Posted, Under
    <2>5. \A k \in DOMAIN grams : Suffix!Contains(Suffix!Posted(grams[k]), n)
      BY <1>5, <2>4 DEF On, Suffix!Range
    <2>6. Suffix!Hits(part, n) = Cardinality({k \in DOMAIN grams : Suffix!Contains(Suffix!Posted(grams[k]), n)})
      BY <2>2 DEF Suffix!Hits, Suffix!Cardinality, Cardinality
    <2>7. {k \in DOMAIN grams : Suffix!Contains(Suffix!Posted(grams[k]), n)} = 1..(p - 2)
      BY <2>3, <2>5
    <2>8. Cardinality(1..(p - 2)) = p - 2
      <3> DEFINE q == p - 2
      <3>1. q \in Nat
        BY <2>3
      <3> HIDE DEF q
      <3>2. ListFacts!Cardinality(1..q) = q
        BY <3>1, ListFacts!FS_Interval
      <3>3. Cardinality(1..q) = q
        BY <3>2, SameCardinality
      <3> QED BY <3>3 DEF q
    <2> QED BY <2>6, <2>7, <2>8
  <1> QED BY <1>6, <1>7

(* What a search lists was posted.                                         *)
LEMMA FoundWasPosted ==
    ASSUME Inv, TypeOK, PostingsInv, PostedBefore
    PROVE  SearchedBefore
  <1> SUFFICES ASSUME stage = "idle", NEW key \in Keys(SuffixFrom),
                      NEW id \in Lists!ToSet(Suffix!Search(Suffix!Text(key))) \ {Nil},
                      NEW gram \in Lists!ToSet(Suffix!Grams(Suffix!Text(key)))
               PROVE  \E k \in 1..(taken + 1) :
                         /\ \A j \in k..(taken + 1) : history[j][id] # NoDoc
                         /\ gram \in Lists!ToSet(Suffix!Grams(Suffix!Contents(history[k][id])))
    BY DEF SearchedBefore
  <1> DEFINE text == Suffix!Text(key)
  <1>1. text \in Seq(DOMAIN Lower)
    <2>1. key \in Seq(Values)
      BY DEF Keys
    <2> QED BY <2>1, TextType
  <1>2. /\ id \in Ids /\ indexByID[id] # 0
        /\ \A some \in Suffix!Range(Suffix!Grams(text)) : On(postings, some, indexByID[id])
    <2>1. NumbersAgree /\ Once(postings)
      BY DEF Inv, PostingsInv
    <2> HIDE DEF text
    <2>2. id \in Lists!ToSet(Suffix!Search(text)) \ {Nil}
      BY DEF text
    <2> QED BY <1>1, <2>1, <2>2, SearchTimes
  <1>3. \A list : Lists!ToSet(list) = Suffix!Range(list)
    BY DEF Lists!ToSet, Suffix!Range
  <1>4. Since(id, gram, taken + 1)
    <2>1. On(postings, gram, indexByID[id])
      BY <1>2, <1>3
    <2>2. Reached = taken + 1
      BY DEF Reached
    <2> QED BY <1>2, <2>1, <2>2 DEF PostedBefore
  <1> QED BY <1>3, <1>4 DEF Since, GramsOf

(* Whatever part of its text somebody searches for, a document that has a  *)
(* number and that no event is changing is found, once, and counted for    *)
(* every trigram of the part (S.Search and S.Find over what the index has  *)
(* posted).                                                                *)
THEOREM PartsAreFound == Spec => []SuffixFinds
  <1>1. Inv /\ TypeOK /\ PostingsInv => SuffixFinds
    BY PostedFound
  <1> QED BY <1>1, PostingsInvInit, PostingsInvStep, Invariance, TypeCorrect, PTL DEF Spec

(* A search finds a document only by trigrams that its text has had since  *)
(* it was created last, provided every change of the indexed fields        *)
(* reaches the cache (S.Search over what the index has posted).            *)
THEOREM OldTextsAtMost ==
    ASSUME \A n \in 1..Len(SuffixFrom) : Followed(SuffixFrom[n])
    PROVE  Spec => []SearchedBefore
  <1>1. Init => PostedBefore
    BY DEF Init, C!Init, PostedBefore
  <1>2. Inv /\ TypeOK /\ PostingsInv /\ PostedBefore /\ [Next]_vars => PostedBefore'
    BY PostedBeforeStep
  <1>3. Inv /\ TypeOK /\ PostingsInv /\ PostedBefore => SearchedBefore
    BY FoundWasPosted
  <1> QED BY <1>1, <1>2, <1>3, PostingsInvInit, PostingsInvStep, Invariance, TypeCorrect, PTL DEF Spec
-----------------------------------------------------------------------------
(* The order of the sorted index.                                          *)

(* s comes before t by their k-th characters, s having perhaps no k-th.    *)
Before(s, t, k) ==
    /\ \A j \in 1..(k - 1) : j <= Len(s) /\ s[j] = t[j]
    /\ k = Len(s) + 1 \/ (k <= Len(s) /\ s[k] < t[k])

LEMMA FirstDifference ==
    ASSUME NEW s \in Seq(Nat), NEW t \in Seq(Nat)
    PROVE  Sorted!Precedes(s, t) <=> \E k \in 1..Len(t) : Before(s, t, k)
  <1>1. /\ Len(s) \in Nat /\ DOMAIN s = 1..Len(s) /\ Len(t) \in Nat /\ DOMAIN t = 1..Len(t)
        /\ \A j \in 1..Len(s) : s[j] \in Nat
        /\ \A j \in 1..Len(t) : t[j] \in Nat
    BY ElementFacts
  <1>2. ASSUME Len(s) < Len(t)
        PROVE  SubSeq(t, 1, Len(s)) = s <=> \A j \in 1..Len(s) : s[j] = t[j]
    <2> DEFINE u == SubSeq(t, 1, Len(s))
    <2>1. u \in Seq(Nat) /\ Len(u) = Len(s) /\ \A j \in 1..Len(s) : u[j] = t[j]
      BY <1>1, <1>2
    <2> HIDE DEF u
    <2>2. u = s <=> \A j \in 1..Len(s) : s[j] = u[j]
      BY <1>1, <2>1
    <2> QED BY <2>1, <2>2 DEF u
  <1>3. ASSUME Sorted!Precedes(s, t)
        PROVE  \E k \in 1..Len(t) : Before(s, t, k)
    <2>1. CASE Len(s) < Len(t) /\ SubSeq(t, 1, Len(s)) = s
      <3>1. Len(s) + 1 \in 1..Len(t) /\ \A j \in 1..Len(s) : s[j] = t[j]
        BY <1>1, <1>2, <2>1
      <3>2. Before(s, t, Len(s) + 1)
        BY <1>1, <3>1 DEF Before
      <3> QED BY <3>1, <3>2
    <2>2. CASE \E k \in DOMAIN s \cap DOMAIN t :
                  s[k] < t[k] /\ \A j \in 1..(k - 1) : s[j] = t[j]
      <3>1. PICK k \in 1..Len(t) : k <= Len(s) /\ s[k] < t[k] /\ \A j \in 1..(k - 1) : s[j] = t[j]
        BY <1>1, <2>2
      <3>2. Before(s, t, k)
        BY <1>1, <3>1 DEF Before
      <3> QED BY <3>2
    <2> QED BY <1>3, <2>1, <2>2 DEF Sorted!Precedes
  <1>4. ASSUME NEW k \in 1..Len(t), Before(s, t, k)
        PROVE  Sorted!Precedes(s, t)
    <2>1. CASE k = Len(s) + 1
      <3>1. Len(s) < Len(t) /\ \A j \in 1..Len(s) : s[j] = t[j]
        BY <1>1, <1>4, <2>1 DEF Before
      <3> QED BY <1>2, <3>1 DEF Sorted!Precedes
    <2>2. CASE k <= Len(s) /\ s[k] < t[k]
      <3>1. k \in DOMAIN s \cap DOMAIN t /\ \A j \in 1..(k - 1) : s[j] = t[j]
        BY <1>1, <1>4, <2>2 DEF Before
      <3> QED BY <2>2, <3>1 DEF Sorted!Precedes
    <2> QED BY <1>4, <2>1, <2>2 DEF Before
  <1> QED BY <1>3, <1>4

(* The order of strings is one.                                            *)
LEMMA TextsLinear ==
    /\ \A s \in Seq(Nat) : ~ Sorted!Precedes(s, s)
    /\ \A s, t, u \in Seq(Nat) :
          Sorted!Precedes(s, t) /\ Sorted!Precedes(t, u) => Sorted!Precedes(s, u)
    /\ \A s, t \in Seq(Nat) : s # t => Sorted!Precedes(s, t) \/ Sorted!Precedes(t, s)
  <1>1. \A s \in Seq(Nat) : Len(s) \in Nat /\ \A j \in 1..Len(s) : s[j] \in Nat
    BY ElementFacts
  <1>2. ASSUME NEW s \in Seq(Nat)
        PROVE  ~ Sorted!Precedes(s, s)
    <2>1. ASSUME NEW k \in 1..Len(s)
          PROVE  ~ Before(s, s, k)
      BY <1>1 DEF Before
    <2> QED BY <2>1, FirstDifference
  <1>3. ASSUME NEW s \in Seq(Nat), NEW t \in Seq(Nat), NEW u \in Seq(Nat),
               Sorted!Precedes(s, t), Sorted!Precedes(t, u)
        PROVE  Sorted!Precedes(s, u)
    <2>1. PICK k \in 1..Len(t) : Before(s, t, k)
      BY <1>3, FirstDifference
    <2>2. PICK l \in 1..Len(u) : Before(t, u, l)
      BY <1>3, FirstDifference
    <2>3. Len(s) \in Nat /\ Len(t) \in Nat /\ Len(u) \in Nat
      BY <1>1
    <2>4. CASE k < l
      <3>1. k \in 1..(l - 1) /\ t[k] = u[k] /\ k \in 1..Len(u)
        BY <2>2, <2>3, <2>4 DEF Before
      <3>2. \A j \in 1..(k - 1) : j \in 1..(l - 1) /\ t[j] = u[j]
        BY <2>2, <2>3, <2>4 DEF Before
      <3>3. Before(s, u, k)
        BY <2>1, <3>1, <3>2 DEF Before
      <3> QED BY <3>1, <3>3, FirstDifference
    <2>5. CASE l <= k
      <3>1. l <= Len(t) /\ t[l] < u[l]
        BY <2>1, <2>2, <2>3, <2>5 DEF Before
      <3>2. \A j \in 1..(l - 1) : j <= Len(s) /\ s[j] = t[j] /\ t[j] = u[j]
        <4>1. \A j \in 1..(l - 1) : t[j] = u[j]
          BY <2>2 DEF Before
        <4>2. \A j \in 1..(k - 1) : j <= Len(s) /\ s[j] = t[j]
          BY <2>1 DEF Before
        <4>3. \A j \in 1..(l - 1) : j \in 1..(k - 1)
          BY <2>3, <2>5
        <4> QED BY <4>1, <4>2, <4>3
      <3>3. l = Len(s) + 1 \/ (l <= Len(s) /\ s[l] < u[l])
        <4>1. CASE l < k
          <5>1. l \in 1..(k - 1) /\ l <= Len(s) /\ s[l] = t[l]
            BY <2>1, <2>3, <4>1 DEF Before
          <5> QED BY <3>1, <5>1
        <4>2. CASE l = k
          <5>1. CASE k = Len(s) + 1
            BY <4>2, <5>1
          <5>2. CASE k <= Len(s) /\ s[k] < t[k]
            <6>1. s[l] \in Nat /\ t[l] \in Nat /\ u[l] \in Nat
              BY <1>1, <2>3, <3>1, <4>2, <5>2
            <6> QED BY <3>1, <4>2, <5>2, <6>1
          <5> QED BY <2>1, <5>1, <5>2 DEF Before
        <4> QED BY <2>5, <4>1, <4>2
      <3>4. Before(s, u, l)
        BY <3>2, <3>3 DEF Before
      <3> QED BY <3>4, FirstDifference
    <2> QED BY <2>4, <2>5
  <1>4. ASSUME NEW s \in Seq(Nat), NEW t \in Seq(Nat), s # t
        PROVE  Sorted!Precedes(s, t) \/ Sorted!Precedes(t, s)
    <2> DEFINE Differ == {k \in Nat : k \in 1..Len(s) /\ k \in 1..Len(t) /\ s[k] # t[k]}
    <2>1. Len(s) \in Nat /\ Len(t) \in Nat
      BY <1>1
    <2>2. CASE Differ = {}
      <3> DEFINE Alike == \A k \in Nat : k \in 1..Len(s) /\ k \in 1..Len(t) => s[k] = t[k]
      <3>0. Alike
        BY <2>2
      <3> HIDE DEF Differ
      <3>1. Len(s) # Len(t)
        <4>1. ASSUME Len(s) = Len(t)
              PROVE  FALSE
          <5>1. \A k \in 1..Len(s) : s[k] = t[k]
            BY <2>1, <3>0, <4>1
          <5> QED BY <1>4, <4>1, <5>1
        <4> QED BY <4>1
      <3>2. CASE Len(s) < Len(t)
        <4>1. Len(s) + 1 \in 1..Len(t) /\ Before(s, t, Len(s) + 1)
          BY <2>1, <3>0, <3>2 DEF Before
        <4> QED BY <4>1, FirstDifference
      <3>3. CASE Len(t) < Len(s)
        <4>1. Len(t) + 1 \in 1..Len(s) /\ Before(t, s, Len(t) + 1)
          BY <2>1, <3>0, <3>3 DEF Before
        <4> QED BY <4>1, FirstDifference
      <3> QED BY <2>1, <3>1, <3>2, <3>3
    <2>3. CASE Differ # {}
      <3>1. PICK k \in Differ : \A j \in Differ : k <= j
        BY <2>3, ListFacts!LeastNumber
      <3>2. \A j \in 1..(k - 1) : j <= Len(s) /\ j <= Len(t) /\ s[j] = t[j]
        <4>1. ASSUME NEW j \in 1..(k - 1)
              PROVE  j <= Len(s) /\ j <= Len(t) /\ s[j] = t[j]
          <5>1. j \in Nat /\ j \in 1..Len(s) /\ j \in 1..Len(t) /\ ~ (k <= j)
            BY <2>1, <3>1
          <5>2. j \notin Differ
            BY <3>1, <5>1
          <5> QED BY <5>1, <5>2
        <4> QED BY <4>1
      <3>3. k \in 1..Len(s) /\ k \in 1..Len(t) /\ s[k] \in Nat /\ t[k] \in Nat /\ s[k] # t[k]
        BY <1>1, <3>1
      <3>4. CASE s[k] < t[k]
        <4>1. Before(s, t, k)
          BY <3>2, <3>3, <3>4 DEF Before
        <4> QED BY <3>3, <4>1, FirstDifference
      <3>5. CASE t[k] < s[k]
        <4>1. Before(t, s, k)
          BY <3>2, <3>3, <3>5 DEF Before
        <4> QED BY <3>3, <4>1, FirstDifference
      <3> QED BY <3>3, <3>4, <3>5
    <2> QED BY <2>2, <2>3
  <1> QED BY <1>2, <1>3, <1>4, Zenon

(* The ids are spelled with equally many characters, and apart, as the     *)
(* hexadecimal digits of an ObjectID are.                                  *)
IdsSpelled ==
    /\ DOMAIN Lower \subseteq Nat
    /\ \A i, j \in Ids : Len(Spelling[i]) = Len(Spelling[j])
                         /\ (Spelling[i] = Spelling[j] => i = j)

(* No two items of the tree share id and text.                             *)
ItemsApart ==
    /\ IsFiniteSet(items) /\ items \subseteq Keys(SortedFrom) \X Ids
    /\ \A x, y \in items : x[2] = y[2] /\ Sorted!Text(x[1]) = Sorted!Text(y[1]) => x = y

LEMMA SortedText ==
    ASSUME NEW key \in Keys(SortedFrom)
    PROVE  Sorted!Text(key) \in Seq(DOMAIN Lower) /\ key \in Seq(Values)
  <1>1. key \in Seq(Values)
    BY DEF Keys
  <1>2. Sorted!Text(key) = Suffix!Text(key)
    BY DEF Sorted!Text, Suffix!Text, Sorted!FlattenSeq, Suffix!FlattenSeq
  <1> QED BY <1>1, <1>2, TextType

LEMMA SpelledType ==
    ASSUME IdsSpelled, ItemsApart, NEW x \in items
    PROVE  /\ x[1] \in Keys(SortedFrom) /\ x[2] \in Ids /\ x = <<x[1], x[2]>>
           /\ Sorted!Text(x[1]) \in Seq(Nat) /\ Spelling[x[2]] \in Seq(Nat)
           /\ Sorted!Spelled(x) = Sorted!Text(x[1]) \o Spelling[x[2]]
           /\ Sorted!Spelled(x) \in Seq(Nat)
  <1>1. x[1] \in Keys(SortedFrom) /\ x[2] \in Ids /\ x = <<x[1], x[2]>>
    BY DEF ItemsApart
  <1>2. \A s \in Seq(DOMAIN Lower) : s \in Seq(Nat)
    BY ElementFacts DEF IdsSpelled
  <1>3. Sorted!Text(x[1]) \in Seq(Nat)
    BY <1>1, <1>2, SortedText
  <1>4. Spelling[x[2]] \in Seq(Nat)
    BY <1>1, <1>2, EntityStoreAssumption
  <1> QED BY <1>1, <1>3, <1>4 DEF Sorted!Spelled

(* The pairs of items of which the first is the smaller.                   *)
ItemOrder == {pair \in items \X items : Sorted!Less(pair[1], pair[2])}

LEMMA ItemsLinear ==
    ASSUME IdsSpelled, ItemsApart
    PROVE  ListFacts!Linear(items, ItemOrder)
  <1>1. \A x, y \in items : <<x, y>> \in ItemOrder <=> Sorted!Precedes(Sorted!Spelled(x), Sorted!Spelled(y))
    BY DEF ItemOrder, Sorted!Less
  <1>2. \A x \in items : Sorted!Spelled(x) \in Seq(Nat)
    BY SpelledType
  <1>3. ASSUME NEW x \in items, NEW y \in items, Sorted!Spelled(x) = Sorted!Spelled(y)
        PROVE  x = y
    <2> DEFINE s == Sorted!Text(x[1])
               t == Sorted!Text(y[1])
               u == Spelling[x[2]]
               v == Spelling[y[2]]
    <2>1. /\ s \in Seq(Nat) /\ t \in Seq(Nat) /\ u \in Seq(Nat) /\ v \in Seq(Nat)
          /\ s \o u = t \o v /\ Len(u) = Len(v)
          /\ x[2] \in Ids /\ y[2] \in Ids
      BY <1>3, SpelledType DEF IdsSpelled
    <2> HIDE DEF s, t, u, v
    <2>2. s = t /\ u = v
      BY <2>1, ListFacts!JoinedApart, Zenon
    <2>3. x[2] = y[2]
      BY <2>1, <2>2 DEF IdsSpelled, u, v
    <2> QED BY <2>2, <2>3 DEF ItemsApart, s, t
  <1>4. \A x \in items : <<x, x>> \notin ItemOrder
    BY <1>1, <1>2, TextsLinear
  <1>5. \A x, y, z \in items :
           <<x, y>> \in ItemOrder /\ <<y, z>> \in ItemOrder => <<x, z>> \in ItemOrder
    BY <1>1, <1>2, TextsLinear
  <1>6. \A x, y \in items : x # y => <<x, y>> \in ItemOrder \/ <<y, x>> \in ItemOrder
    BY <1>1, <1>2, <1>3, TextsLinear
  <1> QED BY <1>4, <1>5, <1>6 DEF ListFacts!Linear

(* Ascend visits every item once, the smaller before the greater.          *)
LEMMA AscendingSorts ==
    ASSUME IdsSpelled, ItemsApart
    PROVE  LET N == Cardinality(items)
               order == Sorted!Ascending
           IN /\ N \in Nat /\ order \in [1..N -> items]
              /\ \A j, k \in 1..N : j < k => Sorted!Less(order[j], order[k])
              /\ \A j, k \in 1..N : order[j] = order[k] => j = k
              /\ \A x \in items : \E k \in 1..N : order[k] = x
  <1> DEFINE N == Cardinality(items)
             Is(order) == order \in [1..N -> items] /\ \A j, k \in DOMAIN order : j < k => Sorted!Less(order[j], order[k])
  <1>1. ListFacts!IsFiniteSet(items) /\ ListFacts!Linear(items, ItemOrder)
    BY ItemsLinear DEF ItemsApart, IsFiniteSet, ListFacts!IsFiniteSet
  <1>2. N = ListFacts!Cardinality(items) /\ N \in Nat
    BY <1>1, SameCardinality, ListFacts!FS_CardinalityType
  <1>3. \E order : Is(order)
    <2>1. PICK s : ListFacts!Sorts(s, items, ItemOrder)
      BY <1>1, ListFacts!Sorting
    <2> QED BY <1>2, <2>1 DEF ListFacts!Sorts, ItemOrder
  <1>4. Is(Sorted!Ascending)
    <2>1. Sorted!Cardinality(items) = N
      BY DEF Sorted!Cardinality, Cardinality
    <2>2. Sorted!Ascending = CHOOSE order : Is(order)
      BY <2>1 DEF Sorted!Ascending
    <2> HIDE DEF Is
    <2> QED BY <1>3, <2>2
  <1>5. ListFacts!Sorts(Sorted!Ascending, items, ItemOrder)
    BY <1>2, <1>4 DEF ListFacts!Sorts, ItemOrder
  <1>6. /\ \A j, k \in 1..N : Sorted!Ascending[j] = Sorted!Ascending[k] => j = k
        /\ \A x \in items : \E k \in 1..N : Sorted!Ascending[k] = x
    BY <1>1, <1>2, <1>5, ListFacts!SortsOnce
  <1> QED BY <1>2, <1>4, <1>6

(* What is kept of a list keeps its order.                                 *)
LEMMA OnlyInOrder ==
    ASSUME NEW S, NEW list \in Seq(S), NEW set, NEW kept, kept = Suffix!Only(list, set)
    PROVE  /\ kept \in Seq(S)
           /\ \A i, j \in 1..Len(kept) : i < j =>
                 \E m, n \in 1..Len(list) : m < n /\ kept[i] = list[m] /\ kept[j] = list[n]
  <1> DEFINE N == Len(list)
             k == OnlyLoop(list, set)
             From(only, n) == \A i \in 1..Len(only) : \E m \in 1..n : only[i] = list[m]
             Ordered(only, n) ==
                \A i, j \in 1..Len(only) : i < j =>
                   \E l, m \in 1..n : l < m /\ only[i] = list[l] /\ only[j] = list[m]
             D == {n \in 0..N : k[n] \in Seq(S) /\ From(k[n], n) /\ Ordered(k[n], n)}
  <1>1. N \in Nat /\ \A n \in 0..N : k[n] = OnlyRound(list, set, k, n)
    BY OnlyRounds
  <1> HIDE DEF k
  <1>2. 0 \in D
    <2>1. k[0] = <<>> /\ 0 \in 0..N
      BY <1>1 DEF OnlyRound
    <2>2. <<>> \in Seq(S) /\ From(<<>>, 0) /\ Ordered(<<>>, 0)
      OBVIOUS
    <2> HIDE DEF From, Ordered
    <2> QED BY <2>1, <2>2
  <1>3. ASSUME NEW n \in Nat, n < N, n \in D
        PROVE  n + 1 \in D
    <2>1. n + 1 \in 0..N /\ n + 1 \in 1..N /\ (n + 1) - 1 = n /\ list[n + 1] \in S
      BY <1>1, <1>3, ElementFacts
    <2>2. k[n] \in Seq(S) /\ From(k[n], n) /\ Ordered(k[n], n)
      BY <1>3
    <2>3. k[n + 1] = IF list[n + 1] \in set THEN Append(k[n], list[n + 1]) ELSE k[n]
      BY <1>1, <2>1 DEF OnlyRound
    <2>4. From(k[n], n + 1) /\ Ordered(k[n], n + 1)
      <3>1. \A m \in 1..n : m \in 1..(n + 1)
        BY <1>3
      <3> QED BY <2>2, <3>1
    <2>5. CASE list[n + 1] \in set
      <3> DEFINE before == k[n]
                 after == k[n + 1]
                 L == Len(before)
      <3>1. /\ before \in Seq(S) /\ L \in Nat
            /\ after \in Seq(S) /\ Len(after) = L + 1 /\ after[L + 1] = list[n + 1]
            /\ \A i \in 1..L : after[i] = before[i]
        BY <2>1, <2>2, <2>3, <2>5, AppendFacts
      <3> HIDE DEF before, after, L
      <3>2. ASSUME NEW i \in 1..(L + 1)
            PROVE  \E m \in 1..(n + 1) : after[i] = list[m]
        <4>1. CASE i = L + 1
          BY <2>1, <3>1, <4>1
        <4>2. CASE i \in 1..L
          BY <2>4, <3>1, <4>2 DEF before, L
        <4> QED BY <3>1, <4>1, <4>2
      <3>3. ASSUME NEW i \in 1..(L + 1), NEW j \in 1..(L + 1), i < j
            PROVE  \E l, m \in 1..(n + 1) : l < m /\ after[i] = list[l] /\ after[j] = list[m]
        <4>1. i \in 1..L /\ after[i] = before[i]
          BY <3>1, <3>3
        <4>2. CASE j = L + 1
          <5>1. PICK l \in 1..n : before[i] = list[l]
            BY <2>2, <4>1 DEF before, L
          <5>2. l \in 1..(n + 1) /\ n + 1 \in 1..(n + 1) /\ l < n + 1
            BY <1>3
          <5> QED BY <3>1, <4>1, <4>2, <5>1, <5>2
        <4>3. CASE j \in 1..L
          BY <2>4, <3>1, <3>3, <4>1, <4>3 DEF before, L
        <4> QED BY <3>1, <4>2, <4>3
      <3>4. after \in Seq(S) /\ From(after, n + 1) /\ Ordered(after, n + 1)
        BY <3>1, <3>2, <3>3
      <3> QED BY <2>1, <3>4 DEF after
    <2>6. CASE list[n + 1] \notin set
      <3>1. k[n + 1] = k[n]
        BY <2>3, <2>6
      <3> HIDE DEF From, Ordered
      <3> QED BY <2>1, <2>2, <2>4, <3>1
    <2> QED BY <2>5, <2>6
  <1> HIDE DEF D
  <1>4. \A n \in 0..N : n \in D
    BY <1>1, <1>2, <1>3, ListFacts!InductionTo
  <1>5. k[N] \in Seq(S) /\ From(k[N], N) /\ Ordered(k[N], N)
    <2>1. N \in D
      BY <1>1, <1>4
    <2> HIDE DEF From, Ordered
    <2> QED BY <2>1 DEF D
  <1>6. Suffix!Only(list, set) = k[N]
    BY OnlyIsLoop DEF k
  <1>7. kept \in Seq(S) /\ From(kept, N) /\ Ordered(kept, N)
    <2> HIDE DEF From, Ordered
    <2> QED BY <1>5, <1>6
  <1> QED BY <1>7

(* The ids of the items, from the smallest to the greatest.                *)
AscendingIds == [k \in 1..Cardinality(items) |-> Sorted!Ascending[k][2]]

(* Sorted.Intersect selects a document that has one item once, and none    *)
(* that has no item or is not asked for.                                   *)
LEMMA IntersectTimes ==
    ASSUME IdsSpelled, ItemsApart, NEW in, NEW id
    PROVE  /\ id \notin in \/ (\A x \in items : x[2] # id) => Times(Sorted!Intersect(in), id) = 0
           /\ id \in in => \A x \in items : x[2] = id /\ (\A y \in items : y[2] = id => y = x)
                 => Times(Sorted!Intersect(in), id) = 1
  <1> DEFINE N == Cardinality(items)
             order == Sorted!Ascending
  <1>1. /\ N \in Nat /\ order \in [1..N -> items]
        /\ \A j, k \in 1..N : order[j] = order[k] => j = k
        /\ \A x \in items : \E k \in 1..N : order[k] = x
    BY AscendingSorts
  <1>2. AscendingIds \in Seq(Ids)
    <2>1. \A k \in 1..N : order[k][2] \in Ids
      BY <1>1, SpelledType
    <2> QED BY <1>1, <2>1 DEF AscendingIds
  <1>3. Sorted!Intersect(in) = Suffix!Only(AscendingIds, in)
    BY <1>1 DEF Sorted!Intersect, AscendingIds, Sorted!Loops!Only, Suffix!Only
  <1>4. Times(Sorted!Intersect(in), id) = IF id \in in THEN Times(AscendingIds, id) ELSE 0
    BY <1>2, <1>3, OnlyTimes
  <1>5. Times(AscendingIds, id) = Cardinality({k \in 1..N : order[k][2] = id})
    <2>1. {k \in DOMAIN AscendingIds : AscendingIds[k] = id} = {k \in 1..N : order[k][2] = id}
      BY DEF AscendingIds
    <2> QED BY <2>1 DEF Times
  <1> HIDE DEF N, order
  <1>6. ASSUME \A x \in items : x[2] # id
        PROVE  Times(AscendingIds, id) = 0
    <2>1. {k \in 1..N : order[k][2] = id} = {}
      BY <1>1, <1>6
    <2> QED BY <1>5, <2>1, SameCardinality, ListFacts!FS_EmptySet
  <1>7. ASSUME NEW x \in items, x[2] = id, \A y \in items : y[2] = id => y = x
        PROVE  Times(AscendingIds, id) = 1
    <2>1. PICK k \in 1..N : order[k] = x
      BY <1>1
    <2>2. {l \in 1..N : order[l][2] = id} = {k}
      BY <1>1, <1>7, <2>1
    <2> QED BY <1>5, <2>2, SameCardinality, ListFacts!FS_Singleton
  <1> QED BY <1>4, <1>6, <1>7

(* Selected documents come in the order of their items.                    *)
LEMMA IntersectInOrder ==
    ASSUME IdsSpelled, ItemsApart, NEW in,
           NEW j \in DOMAIN Sorted!Intersect(in), NEW k \in DOMAIN Sorted!Intersect(in), j < k
    PROVE  \E x, y \in items : /\ Sorted!Less(x, y)
                              /\ Sorted!Intersect(in)[j] = x[2] /\ Sorted!Intersect(in)[k] = y[2]
  <1> DEFINE N == Cardinality(items)
             order == Sorted!Ascending
             found == Sorted!Intersect(in)
  <1>1. /\ N \in Nat /\ order \in [1..N -> items]
        /\ \A m, n \in 1..N : m < n => Sorted!Less(order[m], order[n])
    BY AscendingSorts
  <1>2. AscendingIds \in Seq(Ids) /\ Len(AscendingIds) = N
    <2>1. \A m \in 1..N : order[m][2] \in Ids
      BY <1>1, SpelledType
    <2> QED BY <1>1, <2>1 DEF AscendingIds
  <1>3. found = Suffix!Only(AscendingIds, in)
    BY <1>1 DEF Sorted!Intersect, AscendingIds, Sorted!Loops!Only, Suffix!Only
  <1>4. /\ found \in Seq(Ids)
        /\ \A i, l \in 1..Len(found) : i < l =>
              \E m, n \in 1..N : m < n /\ found[i] = AscendingIds[m] /\ found[l] = AscendingIds[n]
    <2>1. PICK list \in Seq(Ids) : list = AscendingIds
      BY <1>2
    <2>2. PICK only : only = Suffix!Only(list, in)
      OBVIOUS
    <2>3. /\ only \in Seq(Ids)
          /\ \A i, l \in 1..Len(only) : i < l =>
                \E m, n \in 1..Len(list) : m < n /\ only[i] = list[m] /\ only[l] = list[n]
      BY <2>2, OnlyInOrder
    <2> HIDE DEF N, order, found
    <2>4. found = only
      BY <1>3, <2>1, <2>2
    <2>5. Len(list) = N
      BY <1>2, <2>1
    <2> QED BY <2>1, <2>3, <2>4, <2>5
  <1>5. j \in 1..Len(found) /\ k \in 1..Len(found)
    BY <1>4
  <1> HIDE DEF N, order, found
  <1>6. PICK m, n \in 1..N : m < n /\ found[j] = AscendingIds[m] /\ found[k] = AscendingIds[n]
    BY <1>4, <1>5
  <1>7. AscendingIds[m] = order[m][2] /\ AscendingIds[n] = order[n][2]
    BY DEF AscendingIds, N, order
  <1>8. order[m] \in items /\ order[n] \in items /\ Sorted!Less(order[m], order[n])
    BY <1>1, <1>6
  <1> QED BY <1>6, <1>7, <1>8 DEF found

(* The tree is finite: a call of a method inserts one item at most.        *)
LEMMA OneItemMore ==
    ASSUME NEW S, IsFiniteSet(S), NEW T, NEW x, T \subseteq S \cup {x}
    PROVE  IsFiniteSet(T)
  <1>1. ListFacts!IsFiniteSet(S)
    BY DEF IsFiniteSet, ListFacts!IsFiniteSet
  <1>2. ListFacts!IsFiniteSet(T)
    BY <1>1, ListFacts!FS_AddElement, ListFacts!FS_Subset
  <1> QED BY <1>2 DEF IsFiniteSet, ListFacts!IsFiniteSet

LEMMA ItemsStayFinite ==
    ASSUME IsFiniteSet(items), NEW id, NEW doc,
           Sorted!Add(id, doc) \/ Sorted!Update(id, doc) \/ Sorted!Delete(id)
    PROVE  IsFiniteSet(items')
  <1>1. \E x : items' \subseteq items \cup {x}
    <2>1. Sorted!Add(id, doc) => \E x : items' \subseteq items \cup {x}
      BY DEF Sorted!Add
    <2>2. Sorted!Update(id, doc) => \E x : items' \subseteq items \cup {x}
      BY DEF Sorted!Update
    <2>3. Sorted!Delete(id) => \E x : items' \subseteq items \cup {x}
      BY DEF Sorted!Delete
    <2> QED BY <2>1, <2>2, <2>3
  <1> QED BY <1>1, OneItemMore

LEMMA ItemsFiniteStep == Inv /\ IsFiniteSet(items) /\ [Next]_vars => IsFiniteSet(items')
  <1> SUFFICES ASSUME Inv, IsFiniteSet(items), [Next]_vars
               PROVE  IsFiniteSet(items')
    OBVIOUS
  <1>1. CASE BeforeSorted
    <2>1. CASE stage = "before" /\ "sorted" \in todo
      <3>1. event.op \in {"insert", "update", "delete"}
        BY <2>1, EventFacts DEF Events, Ops
      <3> QED BY <1>1, <3>1, ItemsStayFinite DEF BeforeSorted
    <2> QED BY <1>1, <2>1 DEF BeforeSorted, CallBefore
  <1>2. CASE SomeoneWrote
    BY <1>2 DEF SomeoneWrote, Wrote, indexVars, sortedVars
  <1>3. CASE SortedRests
    BY <1>3 DEF SortedRests
  <1> QED BY <1>1, <1>2, <1>3, SortedStepKinds

(* Every document has one item at most.                                    *)
LEMMA OneItemEach ==
    ASSUME SortedInv, IsFiniteSet(items)
    PROVE  ItemsApart /\ \A x, y \in items : x[2] = y[2] => x = y
  <1>1. ASSUME NEW x \in items
        PROVE  /\ x \in Keys(SortedFrom) \X Ids
               /\ x = <<Key(history[SortedReached][x[2]], SortedFrom), x[2]>>
    <2>1. PICK key \in Keys(SortedFrom), id \in Ids :
             x = <<key, id>> /\ Has(history[SortedReached][id], key, SortedFrom)
      BY DEF SortedInv, Enters
    <2> QED BY <2>1 DEF Has
  <1>2. \A x, y \in items : x[2] = y[2] => x = y
    BY <1>1
  <1> QED BY <1>1, <1>2 DEF ItemsApart

LEMMA SameLists ==
    ASSUME NEW S, NEW s \in Seq(S), NEW t \in Seq(S), Len(s) = Len(t),
           \A k \in 1..Len(s) : s[k] = t[k]
    PROVE  s = t
  OBVIOUS

(* One item before another, of which the text comes after: this text       *)
(* begins with the other's.                                                *)
LEMMA OnlyPrefixesTurn ==
    ASSUME IdsSpelled, ItemsApart, NEW x \in items, NEW y \in items, Sorted!Less(x, y),
           Sorted!Precedes(Sorted!Text(y[1]), Sorted!Text(x[1]))
    PROVE  \E n \in 0..Len(Sorted!Text(x[1])) :
              Sorted!Text(y[1]) = SubSeq(Sorted!Text(x[1]), 1, n)
  <1> DEFINE s == Sorted!Text(y[1])
             t == Sorted!Text(x[1])
             u == Spelling[y[2]]
             v == Spelling[x[2]]
  <1>1. /\ s \in Seq(Nat) /\ t \in Seq(Nat) /\ u \in Seq(Nat) /\ v \in Seq(Nat)
        /\ Sorted!Precedes(s, t) /\ Sorted!Precedes(t \o v, s \o u)
        /\ t \o v \in Seq(Nat) /\ s \o u \in Seq(Nat)
    BY SpelledType DEF Sorted!Less
  <1> HIDE DEF s, t, u, v
  <1>2. /\ Len(s) \in Nat /\ Len(t) \in Nat /\ Len(u) \in Nat /\ Len(v) \in Nat
        /\ \A k \in 1..Len(t) : t[k] \in Nat
    BY <1>1, ElementFacts
  <1>3. PICK k \in 1..Len(t) : Before(s, t, k)
    BY <1>1, FirstDifference
  <1>4. CASE k = Len(s) + 1
    <2>1. Len(s) \in 0..Len(t) /\ \A j \in 1..Len(s) : s[j] = t[j]
      BY <1>2, <1>3, <1>4 DEF Before
    <2>2. SubSeq(t, 1, Len(s)) = s
      <3> DEFINE w == SubSeq(t, 1, Len(s))
      <3>1. w \in Seq(Nat) /\ Len(w) = Len(s) /\ \A j \in 1..Len(s) : w[j] = t[j]
        BY <1>1, <1>2, <2>1
      <3> HIDE DEF w
      <3>2. w = s
        <4>1. s \in Seq(Nat) /\ \A j \in 1..Len(s) : w[j] = s[j]
          BY <1>1, <2>1, <3>1
        <4> QED BY <3>1, <4>1, SameLists
      <3> QED BY <3>2 DEF w
    <2> QED BY <2>1, <2>2 DEF s, t
  <1>5. CASE k <= Len(s) /\ s[k] < t[k]
    <2> DEFINE a == s \o u
               b == t \o v
    <2>1. /\ Len(a) = Len(s) + Len(u) /\ \A j \in 1..Len(s) : a[j] = s[j]
      BY <1>1, <1>2, ListFacts!Joined
    <2>2. /\ Len(b) = Len(t) + Len(v) /\ \A j \in 1..Len(t) : b[j] = t[j]
      BY <1>1, <1>2, ListFacts!Joined
    <2>3. \A j \in 1..(k - 1) : j \in 1..Len(s) /\ j \in 1..Len(t) /\ s[j] = t[j]
      BY <1>2, <1>3, <1>5 DEF Before
    <2> HIDE DEF a, b
    <2>4. k \in 1..Len(b) /\ Before(a, b, k)
      BY <1>2, <1>5, <2>1, <2>2, <2>3 DEF Before
    <2>5. a \in Seq(Nat) /\ b \in Seq(Nat) /\ Sorted!Precedes(b, a)
      BY <1>1 DEF a, b
    <2>6. Sorted!Precedes(a, b)
      BY <2>4, <2>5, FirstDifference
    <2> QED BY <2>5, <2>6, TextsLinear
  <1> QED BY <1>3, <1>4, <1>5 DEF Before

LEMMA SortedInvExact ==
    ASSUME KeyKept(SortedFrom), SortedKeyed, IdsSpelled, Inv, SortedInv, IsFiniteSet(items)
    PROVE  SortedExact
  <1> SUFFICES ASSUME stage = "idle"
               PROVE  LET found == Sorted!Intersect(Ids)
                          text(id) == Sorted!Text(Key(cache[id], SortedFrom))
                      IN /\ \A id \in Ids : Times(found, id) = IF cache[id] = NoDoc THEN 0 ELSE 1
                         /\ \A j, k \in DOMAIN found :
                               j < k /\ Sorted!Precedes(text(found[k]), text(found[j])) =>
                                  \E n \in 0..Len(text(found[j])) :
                                     text(found[k]) = SubSeq(text(found[j]), 1, n)
    BY Zenon DEF SortedExact
  <1> DEFINE found == Sorted!Intersect(Ids)
             text(id) == Sorted!Text(Key(cache[id], SortedFrom))
  <1>1. ItemsApart /\ \A x, y \in items : x[2] = y[2] => x = y
    BY OneItemEach
  <1>2. \A x \in items : x[1] \in Keys(SortedFrom) /\ x[2] \in Ids /\ x = <<x[1], x[2]>>
    BY <1>1, SpelledType
  <1>3. \A id \in Ids, key \in Keys(SortedFrom) :
           <<key, id>> \in items <=> Has(cache[id], key, SortedFrom)
    BY SortedInvHolds DEF SortedHolds, Settled
  <1>4. \A x \in items : cache[x[2]] # NoDoc /\ x[1] = Key(cache[x[2]], SortedFrom)
    BY <1>2, <1>3 DEF Has
  <1>5. ASSUME NEW id \in Ids
        PROVE  Times(found, id) = IF cache[id] = NoDoc THEN 0 ELSE 1
    <2>1. CASE cache[id] = NoDoc
      <3>1. \A x \in items : x[2] # id
        BY <1>4, <2>1
      <3> QED BY <1>1, <2>1, <3>1, IntersectTimes
    <2>2. CASE cache[id] # NoDoc
      <3>1. \E x \in items : x[2] = id
        <4>1. cache \in States /\ history[Reached] \in States /\ Agree(cache, history[Reached])
          BY StateFacts DEF Inv, CacheOK
        <4>2. history[Reached][id] # NoDoc
          BY <2>2, <4>1 DEF Agree
        <4>3. Reached = SortedReached
          BY DEF Reached, SortedReached
        <4>4. <<Key(history[Reached][id], SortedFrom), id>> \in items
          BY <4>2, <4>3 DEF SortedInv, Enters
        <4> QED BY <4>4
      <3>2. PICK x \in items : x[2] = id
        BY <3>1
      <3>3. \A y \in items : y[2] = id => y = x
        BY <1>1, <3>2
      <3> QED BY <1>1, <2>2, <3>2, <3>3, IntersectTimes
    <2> QED BY <2>1, <2>2
  <1>6. ASSUME NEW j \in DOMAIN found, NEW k \in DOMAIN found, j < k,
               Sorted!Precedes(text(found[k]), text(found[j]))
        PROVE  \E n \in 0..Len(text(found[j])) : text(found[k]) = SubSeq(text(found[j]), 1, n)
    <2>1. PICK x \in items, y \in items : Sorted!Less(x, y) /\ found[j] = x[2] /\ found[k] = y[2]
      BY <1>1, <1>6, IntersectInOrder
    <2>2. text(found[j]) = Sorted!Text(x[1]) /\ text(found[k]) = Sorted!Text(y[1])
      BY <1>4, <2>1
    <2> HIDE DEF text, found
    <2>3. \E n \in 0..Len(Sorted!Text(x[1])) : Sorted!Text(y[1]) = SubSeq(Sorted!Text(x[1]), 1, n)
      BY <1>1, <1>6, <2>1, <2>2, OnlyPrefixesTurn
    <2> QED BY <2>2, <2>3
  <1> QED BY <1>5, <1>6

(* If in addition ids are spelled apart, with as many characters each: the *)
(* sorted index selects every cached document once, in the order of their  *)
(* texts, but where one text begins with another (Sorted.Intersect over    *)
(* what fill has read off the tree).                                       *)
THEOREM SortedIsExact ==
    ASSUME KeyKept(SortedFrom), SortedKeyed, IdsSpelled
    PROVE  Spec => []SortedExact
  <1> DEFINE Finite == IsFiniteSet(items)
  <1>1. Init => Finite
    BY SameCardinality, ListFacts!FS_EmptySet DEF Init, Sorted!Init, IsFiniteSet, ListFacts!IsFiniteSet
  <1>2. Inv /\ Finite /\ [Next]_vars => Finite'
    BY ItemsFiniteStep
  <1>3. Inv /\ SortedInv /\ [Next]_vars => SortedInv'
    BY SortedInvStep
  <1>4. Inv /\ SortedInv /\ Finite => SortedExact
    BY SortedInvExact
  <1> HIDE DEF Finite
  <1> QED BY <1>1, <1>2, <1>3, <1>4, SortedInvInit, Invariance, PTL DEF Spec
-----------------------------------------------------------------------------
(* What queries that combine the indexes find.                             *)

(* The loop of Count, and a round of it.                                   *)
CountLoop(x, in) ==
    LET count[n \in 0..Len(in)] == IF n = 0 THEN 0 ELSE count[n - 1] + Times(in[n], x)
    IN count

CountRound(x, in, count, n) == IF n = 0 THEN 0 ELSE count[n - 1] + Times(in[n], x)

(* How often two lists hold an element together.                           *)
LEMMA CountOfTwo ==
    ASSUME NEW S, NEW a \in Seq(S), NEW b \in Seq(S), NEW x
    PROVE  Count(x, <<a, b>>) = Times(a, x) + Times(b, x)
  <1> DEFINE in == <<a, b>>
             step == [n \in 1..2 |-> [c \in Nat |-> c + Times(in[n], x)]]
             count == CountLoop(x, in)
  <1>1. /\ Times(a, x) \in Nat /\ Times(b, x) \in Nat
        /\ Len(in) = 2 /\ in[1] = a /\ in[2] = b
    BY HowOften
  <1>2. \A n \in 1..2 : Times(in[n], x) \in Nat
    BY <1>1
  <1> HIDE DEF in
  <1>3. step \in ListFacts!Steps(2, Nat)
    BY <1>2 DEF ListFacts!Steps
  <1> HIDE DEF step
  <1>4. PICK g : ListFacts!Looped(g, 2, Nat, 0, step)
    BY <1>3, ListFacts!Recursion
  <1>5. g \in [0..2 -> Nat] /\ g[0] = 0 /\ \A n \in 1..2 : g[n] = step[n][g[n - 1]]
    BY <1>4 DEF ListFacts!Looped
  <1>6. ASSUME NEW n \in 0..2
        PROVE  g[n] = CountRound(x, in, g, n)
    <2>1. CASE n = 0
      BY <1>5, <2>1 DEF CountRound
    <2>2. CASE n # 0
      <3>1. n \in 1..2 /\ n - 1 \in 0..2
        BY <2>2
      <3>2. g[n] = step[n][g[n - 1]] /\ g[n - 1] \in Nat
        BY <1>5, <3>1
      <3> QED BY <2>2, <3>1, <3>2 DEF step, CountRound
    <2> QED BY <2>1, <2>2
  <1>7. g = [n \in 0..Len(in) |-> CountRound(x, in, g, n)]
    BY <1>1, <1>5, <1>6
  <1>8. count = [n \in 0..Len(in) |-> CountRound(x, in, count, n)]
    BY <1>7 DEF CountLoop, CountRound
  <1> HIDE DEF count
  <1>9. count[0] = 0 /\ count[1] = count[0] + Times(a, x) /\ count[2] = count[1] + Times(b, x)
    <2>1. /\ count[0] = CountRound(x, in, count, 0) /\ count[1] = CountRound(x, in, count, 1)
          /\ count[2] = CountRound(x, in, count, 2)
      BY <1>1, <1>8
    <2> QED BY <1>1, <2>1 DEF CountRound
  <1>10. Count(x, in) = count[2]
    BY <1>1 DEF Count, CountLoop, count
  <1> QED BY <1>1, <1>9, <1>10 DEF in

(* SetToSeq lists every element of a finite set once.                      *)
LEMMA ListOfSet ==
    ASSUME NEW S, IsFiniteSet(S)
    PROVE  /\ Lists!SetToSeq(S) \in Seq(S)
           /\ \A x : Times(Lists!SetToSeq(S), x) = IF x \in S THEN 1 ELSE 0
  <1> DEFINE N == Cardinality(S)
             Is(f) == f \in [1..N -> S] /\ Lists!IsInjective(f)
             list == Lists!SetToSeq(S)
  <1>1. /\ ListFacts!IsFiniteSet(S) /\ N = ListFacts!Cardinality(S)
        /\ N \in Nat /\ ListFacts!ExistsBijection(1..N, S)
    <2>1. ListFacts!IsFiniteSet(S) /\ N = ListFacts!Cardinality(S)
      BY SameCardinality DEF IsFiniteSet, ListFacts!IsFiniteSet
    <2> QED BY <2>1, ListFacts!FS_CardinalityType
  <1>2. \E f : Is(f)
    BY <1>1 DEF ListFacts!ExistsBijection, ListFacts!Bijection, ListFacts!Injection,
                ListFacts!IsInjective, Lists!IsInjective
  <1>3. list = CHOOSE f : Is(f)
    <2>1. Lists!Cardinality(S) = N
      BY DEF Lists!Cardinality, Cardinality
    <2> QED BY <2>1 DEF Lists!SetToSeq
  <1>4. Is(list)
    <2> HIDE DEF Is
    <2> QED BY <1>2, <1>3
  <1> HIDE DEF list, N
  <1>5. list \in ListFacts!Surjection(1..N, S)
    <2>1. list \in ListFacts!Injection(1..N, S)
      BY <1>4 DEF Lists!IsInjective, ListFacts!Injection, ListFacts!IsInjective
    <2>2. ListFacts!Cardinality(1..N) = N /\ ListFacts!IsFiniteSet(1..N)
      BY <1>1, ListFacts!FS_Interval
    <2> QED BY <1>1, <2>1, <2>2, ListFacts!FS_Injection
  <1>6. ASSUME NEW x \in S
        PROVE  Times(list, x) = 1
    <2>1. PICK k \in 1..N : list[k] = x
      BY <1>5 DEF ListFacts!Surjection
    <2>2. {l \in DOMAIN list : list[l] = x} = {k}
      BY <1>4, <2>1 DEF Lists!IsInjective
    <2> QED BY <2>2, SameCardinality, ListFacts!FS_Singleton DEF Times
  <1>7. ASSUME NEW x, x \notin S
        PROVE  Times(list, x) = 0
    <2>1. {l \in DOMAIN list : list[l] = x} = {}
      BY <1>4, <1>7
    <2> QED BY <2>1, SameCardinality, ListFacts!FS_EmptySet DEF Times
  <1>8. list \in Seq(S)
    BY <1>1, <1>4
  <1> QED BY <1>6, <1>7, <1>8 DEF list

(* Intersect, of a list without repetition with two others.                *)
LEMMA IntersectOfTwo ==
    ASSUME NEW S, NEW list \in Seq(S), NEW a \in Seq(S), NEW b \in Seq(S), NEW x
    PROVE  LET both == Intersect(list, <<a, b>>) IN
           /\ both \in Seq(S)
           /\ Times(a, x) + Times(b, x) = 2 => Times(both, x) = Times(list, x)
           /\ Times(a, x) + Times(b, x) # 2 => Times(both, x) = 0
  <1> DEFINE set == {y \in Maps!Range(list) : Count(y, <<a, b>>) # 0 /\ Count(y, <<a, b>>) = Len(<<a, b>>)}
             both == Intersect(list, <<a, b>>)
  <1>1. both = Suffix!Only(list, set)
    BY DEF Intersect, Only, Suffix!Only
  <1>2. x \in set <=> x \in Maps!Range(list) /\ Times(a, x) + Times(b, x) = 2
    <2>1. Len(<<a, b>>) = 2 /\ Count(x, <<a, b>>) = Times(a, x) + Times(b, x)
      BY CountOfTwo
    <2> HIDE DEF both
    <2> QED BY <2>1
  <1> HIDE DEF set
  <1>3. both \in Seq(S) /\ Times(both, x) = IF x \in set THEN Times(list, x) ELSE 0
    BY <1>1, OnlyTimes
  <1>4. x \notin Maps!Range(list) => Times(list, x) = 0
    BY HowOften DEF Maps!Range, Inverse!Contains
  <1> QED BY <1>2, <1>3, <1>4

(* The tree has an item for every document, so documents are finitely many.*)
LEMMA CachedFinite ==
    ASSUME SortedKeyed, Inv, SortedInv, IsFiniteSet(items), stage = "idle"
    PROVE  /\ IsFiniteSet(C!Cached)
           /\ \A id \in C!Cached : \E x \in items : x[2] = id
  <1>1. ASSUME NEW id \in C!Cached
        PROVE  \E x \in items : x[2] = id
    <2>1. id \in Ids /\ cache[id] # NoDoc /\ Agree(cache, history[Reached])
      BY StateFacts DEF Inv, CacheOK, C!Cached
    <2>2. history[Reached][id] # NoDoc /\ Reached = SortedReached
      BY <2>1 DEF Agree, Reached, SortedReached
    <2>3. <<Key(history[Reached][id], SortedFrom), id>> \in items
      BY <2>1, <2>2 DEF SortedInv, Enters
    <2> QED BY <2>3
  <1> DEFINE T == {x \in items : x[2] \in C!Cached}
             f == [x \in T |-> x[2]]
  <1>2. ListFacts!IsFiniteSet(T)
    <2>1. ListFacts!IsFiniteSet(items)
      BY DEF IsFiniteSet, ListFacts!IsFiniteSet
    <2> QED BY <2>1, ListFacts!FS_Subset
  <1>3. f \in ListFacts!Surjection(T, C!Cached)
    BY <1>1 DEF ListFacts!Surjection
  <1>4. ListFacts!IsFiniteSet(C!Cached)
    BY <1>2, <1>3, ListFacts!FS_Surjection
  <1> QED BY <1>1, <1>4 DEF IsFiniteSet, ListFacts!IsFiniteSet

(* A search lists a document that has no number not at all, others once at *)
(* most.                                                                   *)
LEMMA SearchedOnce ==
    ASSUME TypeOK, NumbersAgree, Once(postings), NEW key \in Keys(SuffixFrom), NEW id \in Ids
    PROVE  LET searched == Suffix!Search(Suffix!Text(key)) IN
           /\ searched \in Seq(Ids \cup {Nil})
           /\ Times(searched, id) = IF Lists!Contains(searched, id) THEN 1 ELSE 0
  <1> DEFINE text == Suffix!Text(key)
             list == Suffix!Numbers(text)
             last == Len(itemsByIndex)
             searched == Suffix!Search(text)
  <1>1. text \in Seq(DOMAIN Lower)
    <2>1. key \in Seq(Values)
      BY DEF Keys
    <2> QED BY <2>1, TextType
  <1> HIDE DEF text
  <1>2. searched \in Seq(Ids \cup {Nil})
    <2>1. /\ last \in Nat /\ Posting(postings, last)
          /\ \A n \in 1..last : itemsByIndex[n] \in Ids \cup {Nil}
      BY SuffixTypes, ElementFacts DEF TypeOK, C!TypeOK
    <2>2. list \in Seq(1..last)
      BY <1>1, <2>1, NumbersTimes
    <2>3. searched = [k \in DOMAIN list |-> itemsByIndex[list[k]]]
      BY DEF Suffix!Search
    <2> HIDE DEF list, last, searched
    <2>4. DOMAIN list = 1..Len(list) /\ Len(list) \in Nat /\ \A k \in 1..Len(list) : list[k] \in 1..last
      <3>1. DOMAIN list = 1..Len(list) /\ Len(list) \in Nat
        BY <2>2
      <3>2. \A k \in 1..Len(list) : list[k] \in 1..last
        BY <2>2, ElementFacts, Zenon
      <3> QED BY <3>1, <3>2
    <2>5. \A k \in 1..Len(list) : itemsByIndex[list[k]] \in Ids \cup {Nil}
      BY <2>1, <2>4
    <2> QED BY <2>3, <2>4, <2>5
  <1>3. Times(searched, id) \in Nat /\ (Lists!Contains(searched, id) <=> Times(searched, id) # 0)
    <2> HIDE DEF searched
    <2> QED BY <1>2, HowOften DEF Lists!Contains, Inverse!Contains
  <1>4. Times(searched, id) \in {0, 1}
    <2>1. CASE indexByID[id] # 0
      BY <1>1, <2>1, SearchTimes
    <2>2. CASE indexByID[id] = 0
      <3>1. id \notin Lists!ToSet(searched) \ {Nil}
        BY <1>1, <2>2, SearchTimes
      <3>2. id # Nil
        BY DocumentsAssumption
      <3> QED BY <1>3, <3>1, <3>2 DEF Lists!ToSet, Lists!Contains
    <2> QED BY <2>1, <2>2
  <1> QED BY <1>2, <1>3, <1>4 DEF text

LEMMA QueryInvExact ==
    ASSUME KeyKept(SortedFrom), SortedKeyed, IdsSpelled, InverseWhole,
           Inv, TypeOK, InverseInv, SortedInv, IsFiniteSet(items), PostingsInv
    PROVE  QueryExact
  <1> SUFFICES ASSUME stage = "idle", NEW id \in Ids \ LostKey, NEW key \in Keys(InverseFrom),
                      NEW text \in Keys(SuffixFrom)
               PROVE  LET searched == Suffix!Search(Suffix!Text(text))
                          both == Intersect(Lists!SetToSeq(C!Cached), <<Inverse!Get(key), searched>>)
                          found == Sorted!Intersect(Lists!ToSet(both))
                      IN Times(found, id) = IF Lists!Contains(searched, id) THEN Due(id, key) ELSE 0
    BY DEF QueryExact
  <1> DEFINE listed == Inverse!Get(key)
             searched == Suffix!Search(Suffix!Text(text))
             all == Lists!SetToSeq(C!Cached)
             both == Intersect(all, <<listed, searched>>)
             found == Sorted!Intersect(Lists!ToSet(both))
             S == Ids \cup Values \cup {Nil}
  <1>1. Times(listed, id) = Due(id, key) /\ listed \in Seq(S)
    <2>1. Times(listed, id) = Due(id, key)
      BY InverseInvExact DEF InverseExact, Settled
    <2>2. listed \in Seq(Ids \cup Values)
      <3>1. inverse[key] \in Seq(Ids \cup Values)
        BY ListTypes DEF InverseInv
      <3> QED BY <3>1, Lookups
    <2>3. listed \in Seq(S)
      <3> HIDE DEF listed
      <3> QED BY <2>2, ElementFacts
    <2> QED BY <2>1, <2>3
  <1>2. /\ searched \in Seq(S)
        /\ Times(searched, id) = IF Lists!Contains(searched, id) THEN 1 ELSE 0
    <2>1. NumbersAgree /\ Once(postings)
      BY DEF Inv, PostingsInv
    <2>2. /\ searched \in Seq(Ids \cup {Nil})
          /\ Times(searched, id) = IF Lists!Contains(searched, id) THEN 1 ELSE 0
      BY <2>1, SearchedOnce
    <2> HIDE DEF searched
    <2> QED BY <2>2, ElementFacts
  <1>3. all \in Seq(S) /\ Times(all, id) = IF id \in C!Cached THEN 1 ELSE 0
    <2>1. all \in Seq(C!Cached) /\ Times(all, id) = IF id \in C!Cached THEN 1 ELSE 0
      BY CachedFinite, ListOfSet
    <2>2. C!Cached \subseteq S
      BY DEF C!Cached
    <2> HIDE DEF all
    <2> QED BY <2>1, <2>2, ElementFacts
  <1>4. /\ both \in Seq(S)
        /\ Times(listed, id) + Times(searched, id) = 2 => Times(both, id) = Times(all, id)
        /\ Times(listed, id) + Times(searched, id) # 2 => Times(both, id) = 0
    <2> HIDE DEF listed, searched, all
    <2> QED BY <1>1, <1>2, <1>3, IntersectOfTwo
  <1> HIDE DEF listed, searched, all, both
  <1>5. id \in Lists!ToSet(both) <=> Times(both, id) # 0
    BY <1>4, HowOften DEF Lists!ToSet, Inverse!Contains
  <1>6. Due(id, key) \in {0, 1} /\ (Due(id, key) = 1 => id \in C!Cached)
    BY DEF Due, C!Cached
  <1>7. id \in Lists!ToSet(both) <=> Lists!Contains(searched, id) /\ Due(id, key) = 1
    BY <1>1, <1>2, <1>3, <1>4, <1>5, <1>6
  <1>8. ItemsApart /\ \A x, y \in items : x[2] = y[2] => x = y
    BY OneItemEach
  <1>9. CASE id \in Lists!ToSet(both)
    <2>1. PICK x \in items : x[2] = id
      BY <1>6, <1>7, <1>9, CachedFinite
    <2>2. Times(found, id) = 1
      BY <1>8, <1>9, <2>1, IntersectTimes
    <2> QED BY <1>7, <1>9, <2>2 DEF both, listed, all, searched
  <1>10. CASE id \notin Lists!ToSet(both)
    <2>1. Times(found, id) = 0
      BY <1>8, <1>10, IntersectTimes
    <2> QED BY <1>6, <1>7, <1>10, <2>1 DEF both, listed, all, searched
  <1> QED BY <1>9, <1>10

(* Under the hypotheses of the indexes it combines, a query finds what has *)
(* both the key and the text, once (Intersect.Intersect over the lists of  *)
(* inverseIndex.Get and M.Search, Sorted.Intersect over the result).       *)
THEOREM QueriesAreExact ==
    ASSUME KeyKept(SortedFrom), SortedKeyed, IdsSpelled, InverseWhole
    PROVE  Spec => []QueryExact
  <1> DEFINE Finite == IsFiniteSet(items)
  <1>1. Init => Finite
    BY SameCardinality, ListFacts!FS_EmptySet DEF Init, Sorted!Init, IsFiniteSet, ListFacts!IsFiniteSet
  <1>2. Inv /\ Finite /\ [Next]_vars => Finite'
    BY ItemsFiniteStep
  <1>3. Inv /\ SortedInv /\ [Next]_vars => SortedInv'
    BY SortedInvStep
  <1>4. Inv /\ InverseInv /\ [Next]_vars => InverseInv'
    BY InverseInvStep
  <1>5. Init => SortedInv /\ InverseInv /\ PostingsInv
    BY SortedInvInit, InverseInvInit, PostingsInvInit
  <1>6. Inv /\ TypeOK /\ InverseInv /\ SortedInv /\ Finite /\ PostingsInv => QueryExact
    BY QueryInvExact
  <1> HIDE DEF Finite
  <1> QED BY <1>1, <1>2, <1>3, <1>4, <1>5, <1>6, PostingsInvStep, Invariance, TypeCorrect, PTL DEF Spec
=============================================================================
