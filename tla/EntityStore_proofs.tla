------------------------- MODULE EntityStore_proofs -------------------------
(***************************************************************************)
(* Proofs about EntityStore, for any documents, fields, indexes, updates   *)
(* and bounds: the cache is a projection of the collection as far as the   *)
(* fields reach it, the numbering of the ids stays one to one however      *)
(* GetByIndex and the Listener alternate, all lists and numbers of the     *)
(* indexes keep their types, the unique index is exact, and the inverse    *)
(* index lists every document once under its key and nobody else, and      *)
(* misses none.                                                            *)
(*                                                                         *)
(* The cache applies an event to the document as it was just before the    *)
(* write, so each event does in the cache what the write did in the        *)
(* database.  In particular an insert finds no document, hence no number   *)
(* of the id either, and cannot give it a second one.                      *)
(*                                                                         *)
(* An index is compared with the state of the collection that its events   *)
(* have led it to.  What a method does to a list of the inverse index is   *)
(* told by how often the list holds each id after it.                      *)
(***************************************************************************)
EXTENDS EntityStore, TLAPS

ListFacts == INSTANCE Lists_proofs

(***************************************************************************)
(* Facts about keys, for entity types and indexes of any size.  A key is   *)
(* computed by a loop over the fields; what it computes is proved by       *)
(* induction on the number of fields the loop has seen.                    *)
(***************************************************************************)

(* What documents with the fields F hold.                                  *)
Contents(F) == [F -> Values \cup {Nil}]

LEMMA DocsContents == Docs = Contents(Fields)
  BY DEF Docs, Contents

(* The loop of Key: what it has put together after n fields.               *)
Loop(doc, from) ==
    LET key[n \in 0..Len(from)] ==
            IF n = 0 THEN <<>>
            ELSE IF doc[from[n]] = Nil THEN key[n - 1]
            ELSE Append(key[n - 1], doc[from[n]])
    IN key

(* A round of the loop; k[n] is what was put together before.              *)
Round(doc, from, k, n) ==
    IF n = 0 THEN <<>>
    ELSE IF doc[from[n]] = Nil THEN k[n - 1]
    ELSE Append(k[n - 1], doc[from[n]])

(* k is the result of the first m rounds.                                  *)
Rounds(doc, from, k, m) == \A n \in 0..m : k[n] = Round(doc, from, k, n)

LEMMA OneMoreRound ==
    ASSUME NEW F, NEW doc \in Contents(F), NEW from \in Seq(F), NEW m \in Nat, m + 1 <= Len(from),
           NEW k \in [0..m -> Seq(Values)], Rounds(doc, from, k, m)
    PROVE  \E l \in [0..(m + 1) -> Seq(Values)] : Rounds(doc, from, l, m + 1)
  <1> DEFINE v == doc[from[m + 1]]
             next == IF v = Nil THEN k[m] ELSE Append(k[m], v)
             l == [n \in 0..(m + 1) |-> IF n = m + 1 THEN next ELSE k[n]]
  <1>1. v \in Values \cup {Nil}
    BY DEF Contents
  <1>2. next \in Seq(Values)
    BY <1>1
  <1> HIDE DEF next
  <1>3. l \in [0..(m + 1) -> Seq(Values)]
    BY <1>2
  <1>4. ASSUME NEW n \in 0..m
        PROVE  l[n] = Round(doc, from, l, n)
    <2>1. l[n] = k[n] /\ (n # 0 => l[n - 1] = k[n - 1])
      OBVIOUS
    <2>2. k[n] = Round(doc, from, k, n)
      BY DEF Rounds
    <2> QED BY <2>1, <2>2 DEF Round
  <1>5. l[m + 1] = Round(doc, from, l, m + 1)
    BY DEF Round, next
  <1>6. Rounds(doc, from, l, m + 1)
    <2>1. \A n \in 0..(m + 1) : n \in 0..m \/ n = m + 1
      OBVIOUS
    <2> QED BY <1>4, <1>5, <2>1 DEF Rounds
  <1> QED BY <1>3, <1>6

(* The recursive definition of the loop has a solution.                    *)
LEMMA LoopExists ==
    ASSUME NEW F, NEW doc \in Contents(F), NEW from \in Seq(F)
    PROVE  \E k \in [0..Len(from) -> Seq(Values)] : Rounds(doc, from, k, Len(from))
  <1> DEFINE S == {m \in Nat : m <= Len(from) =>
                      \E k \in [0..m -> Seq(Values)] : Rounds(doc, from, k, m)}
  <1>1. 0 \in S
    <2> DEFINE k == [n \in 0..0 |-> <<>>]
    <2>1. k \in [0..0 -> Seq(Values)] /\ Rounds(doc, from, k, 0)
      BY DEF Round, Rounds
    <2> QED BY <2>1
  <1>2. ASSUME NEW m \in Nat, m \in S
        PROVE  m + 1 \in S
    <2>1. ASSUME m + 1 <= Len(from)
          PROVE  \E k \in [0..(m + 1) -> Seq(Values)] : Rounds(doc, from, k, m + 1)
      <3>1. \E k \in [0..m -> Seq(Values)] : Rounds(doc, from, k, m)
        BY <1>2, <2>1
      <3> QED BY <2>1, <3>1, OneMoreRound
    <2> QED BY <2>1
  <1> HIDE DEF S
  <1>3. \A m \in Nat : m \in S
    BY <1>1, <1>2, ListFacts!Induction
  <1>4. Len(from) \in S /\ Len(from) \in Nat
    BY <1>3
  <1> QED BY <1>4 DEF S

LEMMA LoopRounds ==
    ASSUME NEW F, NEW doc \in Contents(F), NEW from \in Seq(F)
    PROVE  Rounds(doc, from, Loop(doc, from), Len(from))
  <1>1. ASSUME NEW k, k = [n \in 0..Len(from) |-> Round(doc, from, k, n)]
        PROVE  Loop(doc, from) = [n \in 0..Len(from) |-> Round(doc, from, Loop(doc, from), n)]
    BY <1>1 DEF Loop, Round
  <1>2. PICK k \in [0..Len(from) -> Seq(Values)] : Rounds(doc, from, k, Len(from))
    BY LoopExists
  <1>3. k = [n \in 0..Len(from) |-> Round(doc, from, k, n)]
    BY <1>2 DEF Rounds
  <1> QED BY <1>1, <1>3 DEF Rounds

LEMMA LoopTyped ==
    ASSUME NEW F, NEW doc \in Contents(F), NEW from \in Seq(F)
    PROVE  \A n \in 0..Len(from) :
              Loop(doc, from)[n] \in Seq(Values) /\ Len(Loop(doc, from)[n]) <= n
  <1> DEFINE k == Loop(doc, from)
             S == {m \in Nat : m <= Len(from) => k[m] \in Seq(Values) /\ Len(k[m]) <= m}
  <1>1. Rounds(doc, from, k, Len(from))
    BY LoopRounds
  <1> HIDE DEF k
  <1>2. 0 \in S
    <2>1. k[0] = <<>>
      BY <1>1 DEF Rounds, Round
    <2>2. <<>> \in Seq(Values) /\ Len(<<>>) <= 0
      OBVIOUS
    <2>3. k[0] \in Seq(Values) /\ Len(k[0]) <= 0
      BY <2>1, <2>2
    <2> QED BY <2>3
  <1>3. ASSUME NEW m \in Nat, m \in S
        PROVE  m + 1 \in S
    <2> SUFFICES ASSUME m + 1 <= Len(from)
                 PROVE  k[m + 1] \in Seq(Values) /\ Len(k[m + 1]) <= m + 1
      OBVIOUS
    <2>1. k[m] \in Seq(Values) /\ Len(k[m]) <= m
      BY <1>3
    <2>2. k[m + 1] = Round(doc, from, k, m + 1)
      BY <1>1 DEF Rounds
    <2>3. k[m + 1] = IF doc[from[m + 1]] = Nil THEN k[m] ELSE Append(k[m], doc[from[m + 1]])
      BY <2>2 DEF Round
    <2>4. doc[from[m + 1]] \in Values \cup {Nil}
      BY DEF Contents
    <2> QED BY <2>1, <2>3, <2>4
  <1> HIDE DEF S
  <1>4. \A m \in Nat : m \in S
    BY <1>2, <1>3, ListFacts!Induction
  <1> QED BY <1>4 DEF S, k

LEMMA LoopNil ==
    ASSUME NEW F, NEW doc \in Contents(F), NEW from \in Seq(F)
    PROVE  \A n \in 0..Len(from) :
              Loop(doc, from)[n] = <<>> <=> \A j \in 1..n : doc[from[j]] = Nil
  <1> DEFINE k == Loop(doc, from)
             S == {m \in Nat : m <= Len(from) =>
                      (k[m] = <<>> <=> \A j \in 1..m : doc[from[j]] = Nil)}
  <1>1. Rounds(doc, from, k, Len(from)) /\ \A n \in 0..Len(from) : k[n] \in Seq(Values)
    BY LoopRounds, LoopTyped
  <1> HIDE DEF k
  <1>2. 0 \in S
    <2>1. k[0] = <<>>
      BY <1>1 DEF Rounds, Round
    <2> QED BY <2>1
  <1>3. ASSUME NEW m \in Nat, m \in S
        PROVE  m + 1 \in S
    <2> SUFFICES ASSUME m + 1 <= Len(from)
                 PROVE  k[m + 1] = <<>> <=> \A j \in 1..(m + 1) : doc[from[j]] = Nil
      OBVIOUS
    <2>1. k[m] = <<>> <=> \A j \in 1..m : doc[from[j]] = Nil
      BY <1>3
    <2>2. k[m + 1] = Round(doc, from, k, m + 1)
      BY <1>1 DEF Rounds
    <2>3. k[m + 1] = IF doc[from[m + 1]] = Nil THEN k[m] ELSE Append(k[m], doc[from[m + 1]])
      BY <2>2 DEF Round
    <2>4. k[m] \in Seq(Values)
      BY <1>1
    <2>5. \A j \in 1..(m + 1) : j \in 1..m \/ j = m + 1
      OBVIOUS
    <2>6. CASE doc[from[m + 1]] = Nil
      BY <2>1, <2>3, <2>5, <2>6
    <2>7. CASE doc[from[m + 1]] # Nil
      <3>1. doc[from[m + 1]] \in Values
        BY <2>7 DEF Contents
      <3>2. k[m + 1] # <<>>
        <4>1. k[m + 1] = Append(k[m], doc[from[m + 1]])
          BY <2>3, <2>7
        <4>2. Len(Append(k[m], doc[from[m + 1]])) = Len(k[m]) + 1 /\ Len(k[m]) \in Nat
          BY <2>4, <3>1
        <4>3. Len(k[m + 1]) # 0
          BY <4>1, <4>2
        <4> QED BY <4>3
      <3> QED BY <2>7, <3>2
    <2> QED BY <2>6, <2>7
  <1> HIDE DEF S
  <1>4. \A m \in Nat : m \in S
    BY <1>2, <1>3, ListFacts!Induction
  <1> QED BY <1>4 DEF S, k

LEMMA LoopSame ==
    ASSUME NEW F, NEW from \in Seq(F), NEW doc \in Contents(F), NEW other \in Contents(F),
           \A n \in 1..Len(from) : doc[from[n]] = other[from[n]]
    PROVE  \A n \in 0..Len(from) : Loop(doc, from)[n] = Loop(other, from)[n]
  <1> DEFINE k == Loop(doc, from)
             l == Loop(other, from)
             S == {m \in Nat : m <= Len(from) => k[m] = l[m]}
  <1>1. Rounds(doc, from, k, Len(from)) /\ Rounds(other, from, l, Len(from))
    BY LoopRounds
  <1> HIDE DEF k, l
  <1>2. 0 \in S
    BY <1>1 DEF Rounds, Round
  <1>3. ASSUME NEW m \in Nat, m \in S
        PROVE  m + 1 \in S
    <2> SUFFICES ASSUME m + 1 <= Len(from)
                 PROVE  k[m + 1] = l[m + 1]
      OBVIOUS
    <2>1. k[m] = l[m] /\ doc[from[m + 1]] = other[from[m + 1]]
      BY <1>3
    <2>2. k[m + 1] = Round(doc, from, k, m + 1) /\ l[m + 1] = Round(other, from, l, m + 1)
      BY <1>1 DEF Rounds
    <2> QED BY <2>1, <2>2 DEF Round
  <1> HIDE DEF S
  <1>4. \A m \in Nat : m \in S
    BY <1>2, <1>3, ListFacts!Induction
  <1> QED BY <1>4 DEF S, k, l

-----------------------------------------------------------------------------
LEMMA KeyIsLoop ==
    ASSUME NEW doc, NEW from
    PROVE  Key(doc, from) = Loop(doc, from)[Len(from)]
  BY DEF Key, Loop

(* A key holds values, and is the nil key if all fields are nil.           *)
LEMMA KeyFacts ==
    ASSUME NEW doc \in Docs, NEW from \in Seq(Fields)
    PROVE  /\ Key(doc, from) \in Seq(Values) /\ Len(Key(doc, from)) <= Len(from)
           /\ Key(doc, from) = <<>> <=> \A n \in 1..Len(from) : doc[from[n]] = Nil
           /\ Key(doc, from) # <<>> => Key(doc, from) \in Keys(from)
  <1>1. Len(from) \in 0..Len(from)
    OBVIOUS
  <1>2. Key(doc, from) \in Seq(Values) /\ Len(Key(doc, from)) <= Len(from)
    BY <1>1, KeyIsLoop, LoopTyped, DocsContents
  <1>3. Key(doc, from) = <<>> <=> \A n \in 1..Len(from) : doc[from[n]] = Nil
    BY <1>1, KeyIsLoop, LoopNil, DocsContents
  <1>4. ASSUME Key(doc, from) # <<>>
        PROVE  Key(doc, from) \in Keys(from)
    <2> DEFINE key == Key(doc, from)
    <2> HIDE DEF key
    <2>1. key \in Seq(Values) /\ Len(key) <= Len(from) /\ key # <<>>
      BY <1>2, <1>4 DEF key
    <2>2. Len(key) \in 1..Len(from) /\ key \in [1..Len(key) -> Values]
      BY <2>1
    <2>3. key \in Keys(from)
      BY <2>2 DEF Keys
    <2> QED BY <2>3 DEF key
  <1> QED BY <1>2, <1>3, <1>4

(* Documents with the same values in the fields of an index have the same  *)
(* key.                                                                    *)
LEMMA KeySame ==
    ASSUME NEW from \in Seq(Fields), NEW doc \in Docs, NEW other \in Docs,
           \A n \in 1..Len(from) : doc[from[n]] = other[from[n]]
    PROVE  Key(doc, from) = Key(other, from)
  <1>1. Len(from) \in 0..Len(from)
    OBVIOUS
  <1> QED BY <1>1, KeyIsLoop, LoopSame, DocsContents

(* A key of one field holds the value of this field.                       *)
LEMMA KeyOfOne ==
    ASSUME NEW doc \in Docs, NEW from \in Seq(Fields), Len(from) = 1, doc[from[1]] # Nil
    PROVE  Key(doc, from) = <<doc[from[1]]>>
  <1> DEFINE k == Loop(doc, from)
  <1>1. Rounds(doc, from, k, 1)
    BY LoopRounds, DocsContents
  <1>2. Key(doc, from) = k[1]
    BY KeyIsLoop
  <1> HIDE DEF k
  <1>3. k[0] = <<>> /\ k[1] = Round(doc, from, k, 1)
    BY <1>1 DEF Rounds, Round
  <1>4. k[1] = Append(<<>>, doc[from[1]])
    <2>1. 1 - 1 = 0 /\ 1 # 0
      OBVIOUS
    <2>2. Round(doc, from, k, 1) = Append(k[1 - 1], doc[from[1]])
      BY <2>1 DEF Round
    <2> QED BY <1>3, <2>1, <2>2
  <1>5. doc[from[1]] \in Values
    BY DEF Docs
  <1> QED BY <1>2, <1>4, <1>5

(* Without slices a document has at most one key in a unique index.        *)
LEMMA KeysOfScalars ==
    ASSUME NEW doc \in Docs, NEW from \in Seq(Fields), \A v \in Values : Elements[v] = {v}
    PROVE  KeysOf(doc, from) = IF Key(doc, from) = <<>> THEN {} ELSE {Key(doc, from)}
  <1>1. ASSUME Key(doc, from) # <<>>, Len(from) = 1
        PROVE  KeysOf(doc, from) = {Key(doc, from)}
    <2>1. doc[from[1]] # Nil
      BY <1>1, KeyFacts
    <2>2. doc[from[1]] \in Values
      <3>1. from[1] \in Fields
        BY <1>1
      <3> QED BY <2>1, <3>1 DEF Docs
    <2>3. {<<e>> : e \in Elements[doc[from[1]]]} = {<<doc[from[1]]>>}
      BY <2>2
    <2> QED BY <1>1, <2>1, <2>3, KeyOfOne DEF KeysOf
  <1> QED BY <1>1 DEF KeysOf

(* The values of a list that are not nil, run together: the whole list if  *)
(* none is.                                                                *)
LEMMA KeyOfList ==
    ASSUME NEW list \in Seq(Values)
    PROVE  Key(list, [n \in DOMAIN list |-> n]) = list
  <1> DEFINE from == [n \in DOMAIN list |-> n]
             k == Loop(list, from)
             S == {m \in Nat : m <= Len(list) => k[m] = [j \in 1..m |-> list[j]]}
  <1>1. /\ Len(list) \in Nat /\ DOMAIN list = 1..Len(list)
        /\ from \in Seq(DOMAIN list) /\ Len(from) = Len(list)
        /\ list \in Contents(DOMAIN list)
    BY DEF Contents
  <1>2. Rounds(list, from, k, Len(list))
    BY <1>1, LoopRounds
  <1>3. Key(list, from) = k[Len(list)]
    BY <1>1, KeyIsLoop
  <1>4. \A n \in 1..Len(list) : from[n] = n /\ list[n] \in Values /\ list[n] # Nil
    BY <1>1, DocumentsAssumption
  <1> HIDE DEF k, from
  <1>5. 0 \in S
    <2>1. k[0] = <<>>
      <3>1. 0 \in 0..Len(list)
        BY <1>1
      <3>2. k[0] = Round(list, from, k, 0)
        BY <1>2, <3>1 DEF Rounds
      <3> QED BY <3>2 DEF Round
    <2>2. <<>> = [j \in 1..0 |-> list[j]]
      OBVIOUS
    <2> QED BY <2>1, <2>2
  <1>6. ASSUME NEW m \in Nat, m \in S
        PROVE  m + 1 \in S
    <2> SUFFICES ASSUME m + 1 <= Len(list)
                 PROVE  k[m + 1] = [j \in 1..(m + 1) |-> list[j]]
      OBVIOUS
    <2>1. k[m] = [j \in 1..m |-> list[j]]
      BY <1>1, <1>6
    <2>2. k[m + 1] = Round(list, from, k, m + 1)
      BY <1>1, <1>2 DEF Rounds
    <2>3. list[m + 1] \in Values /\ list[from[m + 1]] = list[m + 1] /\ list[m + 1] # Nil
      BY <1>1, <1>4
    <2>4. k[m + 1] = Append([j \in 1..m |-> list[j]], list[m + 1])
      BY <2>1, <2>2, <2>3 DEF Round
    <2>5. [j \in 1..m |-> list[j]] \in Seq(Values)
      BY <1>1, <1>4
    <2>6. Append([j \in 1..m |-> list[j]], list[m + 1]) = [j \in 1..(m + 1) |-> list[j]]
      BY <2>3, <2>5
    <2> QED BY <2>4, <2>6
  <1> HIDE DEF S
  <1>7. \A m \in Nat : m \in S
    BY <1>5, <1>6, ListFacts!Induction
  <1>8. k[Len(list)] = [j \in 1..Len(list) |-> list[j]]
    BY <1>1, <1>7 DEF S
  <1>9. list = [j \in 1..Len(list) |-> list[j]]
    OBVIOUS
  <1> QED BY <1>3, <1>8, <1>9 DEF from

-----------------------------------------------------------------------------
Ops == {"insert", "update", "delete"}
Events == [op : Ops, id : Ids, fields : Docs, removed : SUBSET Fields]
States == [Ids -> Docs \cup {NoDoc}]

(* Fields of which every change reaches the cache: an update that does not *)
(* mention it leaves it alone, and no update sets it to null or takes it   *)
(* out of an embedded struct.                                              *)
Followed(f) ==
    /\ f \notin Plain
    /\ \A u \in Updates : f \notin u.nulled /\ (f \in u.removed => f \notin Nested)

(* The write that the event tells of: it touched one document.             *)
Did(before, after, e) ==
    /\ \A id \in Ids \ {e.id} : after[id] = before[id]
    /\ e.op = "insert" => before[e.id] = NoDoc /\ after[e.id] = e.fields
    /\ e.op = "delete" => after[e.id] = NoDoc
    /\ e.op = "update" =>
          /\ before[e.id] # NoDoc /\ after[e.id] # NoDoc
          /\ \A f \in Fields : Followed(f) =>
                after[e.id][f] = Merge(before[e.id], e.fields, e.removed)[f]

(* The same documents, and the same values of the followed fields.         *)
Agree(s, t) ==
    \A id \in Ids :
       /\ s[id] = NoDoc <=> t[id] = NoDoc
       /\ s[id] # NoDoc => \A f \in Fields : Followed(f) => s[id][f] = t[id][f]

Reached == IF stage = "before" THEN taken ELSE taken + 1

Typed ==
    /\ history \in Seq(States) /\ log \in Seq(Events)
    /\ taken \in 0..Len(log)
    /\ stage \in {"idle", "before", "after"}
    /\ stage # "idle" => taken # 0
    /\ C!TypeOK

EventsOK ==
    /\ Len(history) = Len(log) + 1
    /\ \A k \in 1..Len(log) : Did(history[k], history[k + 1], log[k])

Recorded == history \in Seq(States) /\ log \in Seq(Events) /\ EventsOK

CacheOK == Agree(cache, history[Reached])

Inv == Typed /\ EventsOK /\ CacheOK /\ NumbersAgree

-----------------------------------------------------------------------------
(* What an Append leaves and adds.                                         *)
LEMMA AppendFacts ==
    ASSUME NEW S, NEW s \in Seq(S), NEW e \in S
    PROVE  /\ Append(s, e) \in Seq(S)
           /\ Len(Append(s, e)) = Len(s) + 1
           /\ \A k \in 1..Len(s) : Append(s, e)[k] = s[k]
           /\ Append(s, e)[Len(s) + 1] = e
  OBVIOUS

LEMMA ElementFacts ==
    ASSUME NEW S, NEW s \in Seq(S), NEW k \in 1..Len(s)
    PROVE  s[k] \in S
  OBVIOUS

LEMMA NoDocNoDocument == NoDoc \notin Docs
  BY DocumentsAssumption DEF Docs

LEMMA MergeType ==
    ASSUME NEW doc \in Docs, NEW set \in Docs, NEW removed
    PROVE  Merge(doc, set, removed) \in Docs
  BY DEF Merge, Docs

LEMMA RecordedFacts ==
    ASSUME Recorded
    PROVE  /\ Len(log) \in Nat /\ Len(history) = Len(log) + 1
           /\ \A k \in 1..Len(history) : history[k] \in States
           /\ \A k \in 1..Len(log) : log[k] \in Events
           /\ db = history[Len(log) + 1] /\ db \in States
  <1>1. Len(log) \in Nat /\ Len(history) = Len(log) + 1
    BY DEF Recorded, EventsOK
  <1>2. \A k \in 1..Len(history) : history[k] \in States
    BY ElementFacts DEF Recorded
  <1>3. \A k \in 1..Len(log) : log[k] \in Events
    BY ElementFacts DEF Recorded
  <1>4. db = history[Len(log) + 1] /\ db \in States
    BY <1>1, <1>2 DEF db
  <1> QED BY <1>1, <1>2, <1>3, <1>4

LEMMA StateFacts ==
    ASSUME Typed, EventsOK
    PROVE  /\ Len(log) \in Nat /\ Len(history) = Len(log) + 1 /\ taken \in Nat
           /\ Reached \in 1..Len(history)
           /\ \A k \in 1..Len(history) : history[k] \in States
           /\ \A k \in 1..Len(log) : log[k] \in Events
           /\ db = history[Len(log) + 1] /\ db \in States
           /\ cache \in States
  <1>1. Recorded /\ taken \in Nat
    BY DEF Typed, Recorded
  <1>2. Reached \in 1..Len(history)
    BY <1>1, RecordedFacts DEF Typed, Reached
  <1>3. cache \in States
    BY DEF Typed, C!TypeOK, States, C!Docs, Docs
  <1> QED BY <1>1, <1>2, <1>3, RecordedFacts

-----------------------------------------------------------------------------
(* Writes.                                                                 *)

(* A commit that its event describes.                                      *)
Writes(op, id, doc, set, removed) ==
    /\ Commit(op, id, doc, set, removed)
    /\ Did(db, [db EXCEPT ![id] = doc], [op |-> op, id |-> id, fields |-> set, removed |-> removed])

LEMMA InsertWrites ==
    ASSUME NEW id \in Ids, NEW doc \in Inserts, Insert(id, doc), db \in States
    PROVE  Writes("insert", id, doc, doc, {}) /\ doc \in Docs
  <1>1. doc \in Docs
    BY EntityStoreAssumption
  <1> QED BY <1>1 DEF Insert, Writes, Did, States

LEMMA RemoveWrites ==
    ASSUME NEW id \in Ids, Remove(id), db \in States
    PROVE  Writes("delete", id, NoDoc, Blank, {})
  BY DEF Remove, Writes, Did, States

LEMMA ModifyWrites ==
    ASSUME NEW id \in Ids, NEW u \in Updates, Modify(id, u), db \in States
    PROVE  \E doc \in Docs : Writes("update", id, doc, u.set, u.removed)
  <1> DEFINE doc == [f \in Fields |-> IF f \in u.removed \cup u.nulled THEN Nil
                                      ELSE IF u.set[f] # Nil THEN u.set[f]
                                      ELSE db[id][f]]
             e == [op |-> "update", id |-> id, fields |-> u.set, removed |-> u.removed]
  <1>1. /\ db[id] # NoDoc /\ db[id] \in Docs
        /\ u.set \in Docs /\ u.removed \in SUBSET Fields
    BY EntityStoreAssumption DEF Modify, States
  <1>2. doc \in Docs /\ doc # NoDoc
    <2>1. doc \in Docs
      BY <1>1 DEF Docs
    <2> QED BY <2>1, NoDocNoDocument
  <1>3. Commit("update", id, doc, u.set, u.removed)
    BY DEF Modify
  <1>4. ASSUME NEW f \in Fields, Followed(f)
        PROVE  doc[f] = Merge(db[id], u.set, u.removed)[f]
    BY <1>4 DEF Followed, Merge
  <1> HIDE DEF doc
  <1>5. [db EXCEPT ![id] = doc][id] = doc
    BY <1>1 DEF States
  <1>6. Did(db, [db EXCEPT ![id] = doc], e)
    BY <1>1, <1>2, <1>4, <1>5 DEF Did, States
  <1> QED BY <1>2, <1>3, <1>6 DEF Writes

(* A write of any kind.                                                    *)
SomeWrite ==
    \E op \in Ops, id \in Ids, doc \in Docs \cup {NoDoc}, set \in Docs, removed \in SUBSET Fields :
       Writes(op, id, doc, set, removed)

LEMMA WritesAreWrites ==
    ASSUME db \in States, NEW id \in Ids,
           \/ \E doc \in Inserts : Insert(id, doc)
           \/ \E u \in Updates : Modify(id, u)
           \/ Remove(id)
    PROVE  SomeWrite
  <1>1. ASSUME NEW doc \in Inserts, Insert(id, doc)
        PROVE  doc \in Docs /\ Writes("insert", id, doc, doc, {})
    BY <1>1, InsertWrites
  <1>2. ASSUME NEW u \in Updates, Modify(id, u)
        PROVE  /\ u.set \in Docs /\ u.removed \in SUBSET Fields
               /\ \E doc \in Docs : Writes("update", id, doc, u.set, u.removed)
    BY <1>2, ModifyWrites, EntityStoreAssumption
  <1>3. ASSUME Remove(id)
        PROVE  Blank \in Docs /\ Writes("delete", id, NoDoc, Blank, {})
    BY <1>3, RemoveWrites DEF Blank, Docs
  <1> QED BY <1>1, <1>2, <1>3 DEF Ops, SomeWrite

(* The events and states written before stay as they are.                  *)
LEMMA RecordedWrite ==
    ASSUME Recorded, NEW op \in Ops, NEW id \in Ids, NEW doc \in Docs \cup {NoDoc},
           NEW set \in Docs, NEW removed \in SUBSET Fields, Writes(op, id, doc, set, removed)
    PROVE  /\ Recorded' /\ Len(log') = Len(log) + 1 /\ Len(history') = Len(log) + 2
           /\ \A k \in 1..Len(log) : log'[k] = log[k]
           /\ \A k \in 1..(Len(log) + 1) : history'[k] = history[k]
           /\ UNCHANGED <<listenerVars, cacheVars, indexVars>>
  <1> DEFINE e == [op |-> op, id |-> id, fields |-> set, removed |-> removed]
             state == [db EXCEPT ![id] = doc]
             n == Len(log)
  <1>1. /\ n \in Nat /\ Len(history) = n + 1
        /\ db = history[n + 1] /\ db \in States
    BY RecordedFacts
  <1>2. e \in Events /\ state \in States
    BY <1>1 DEF Events, States
  <1>3. history' = Append(history, state) /\ log' = Append(log, e) /\ Did(db, state, e)
    BY DEF Writes, Commit
  <1>4. UNCHANGED <<listenerVars, cacheVars, indexVars>>
    BY DEF Writes, Commit
  <1> HIDE DEF e, state
  <1>5. /\ log' \in Seq(Events) /\ Len(log') = n + 1
        /\ \A k \in 1..n : log'[k] = log[k]
        /\ log'[n + 1] = e
    BY <1>2, <1>3, AppendFacts DEF Recorded
  <1>6. /\ history' \in Seq(States) /\ Len(history') = n + 2
        /\ \A k \in 1..(n + 1) : history'[k] = history[k]
        /\ history'[n + 2] = state
    <2>1. /\ history' \in Seq(States) /\ Len(history') = Len(history) + 1
          /\ \A k \in 1..Len(history) : history'[k] = history[k]
          /\ history'[Len(history) + 1] = state
      BY <1>2, <1>3, AppendFacts DEF Recorded
    <2>2. Len(history) + 1 = n + 2
      BY <1>1
    <2> QED BY <1>1, <2>1, <2>2
  <1> HIDE DEF n
  <1>7. EventsOK'
    <2>1. ASSUME NEW k \in 1..(n + 1)
          PROVE  Did(history'[k], history'[k + 1], log'[k])
      <3>1. CASE k \in 1..n
        <4>1. k \in 1..(n + 1) /\ k + 1 \in 1..(n + 1)
          BY <1>1, <3>1
        <4>2. history'[k] = history[k] /\ history'[k + 1] = history[k + 1] /\ log'[k] = log[k]
          BY <1>5, <1>6, <3>1, <4>1
        <4>3. Did(history[k], history[k + 1], log[k])
          BY <3>1 DEF Recorded, EventsOK, n
        <4> QED BY <4>2, <4>3
      <3>2. CASE k = n + 1
        <4>1. history'[k] = db /\ history'[k + 1] = state /\ log'[k] = e
          <5>1. k \in 1..(n + 1) /\ k + 1 = n + 2
            BY <1>1, <3>2
          <5> QED BY <1>1, <1>5, <1>6, <3>2, <5>1
        <4> QED BY <1>3, <4>1
      <3> QED BY <1>1, <3>1, <3>2
    <2>2. Len(history') = Len(log') + 1
      BY <1>1, <1>5, <1>6
    <2> QED BY <1>5, <2>1, <2>2 DEF EventsOK
  <1> QED BY <1>4, <1>5, <1>6, <1>7 DEF Recorded, n

(* What the cache follows stays as it is, too.                             *)
LEMMA WriteStep ==
    ASSUME Inv, SomeWrite
    PROVE  Inv'
  <1> DEFINE n == Len(log)
  <1>1. n \in Nat /\ Reached \in 1..(n + 1) /\ Recorded
    BY StateFacts DEF Inv, Typed, Recorded
  <1>2. /\ Recorded' /\ Len(log') = n + 1
        /\ \A k \in 1..(n + 1) : history'[k] = history[k]
        /\ UNCHANGED <<listenerVars, cacheVars, indexVars>>
    BY <1>1, RecordedWrite DEF SomeWrite
  <1>3. /\ stage' = stage /\ taken' = taken /\ cache' = cache
        /\ itemsByIndex' = itemsByIndex /\ indexByID' = indexByID
    BY <1>2 DEF listenerVars, cacheVars
  <1>4. Typed'
    <2>1. taken \in 0..n /\ taken' \in 0..Len(log')
      BY <1>1, <1>2, <1>3 DEF Inv, Typed
    <2> QED BY <1>2, <1>3, <2>1 DEF Inv, Typed, Recorded, C!TypeOK
  <1>5. CacheOK'
    <2>1. Reached' = Reached /\ history'[Reached] = history[Reached]
      BY <1>1, <1>2, <1>3 DEF Reached
    <2>2. cache' = cache /\ history'[Reached'] = history[Reached]
      BY <1>3, <2>1
    <2> QED BY <2>2 DEF Inv, CacheOK
  <1>6. NumbersAgree'
    BY <1>3 DEF Inv, NumbersAgree
  <1> QED BY <1>2, <1>4, <1>5, <1>6 DEF Inv, Recorded

-----------------------------------------------------------------------------
(* The Listener.                                                           *)

(* What Apply does to the cache is what the write did in the database.     *)
LEMMA ApplyAgrees ==
    ASSUME NEW before \in States, NEW after \in States, NEW e \in Events, NEW s \in States,
           NEW t, Did(before, after, e), Agree(s, before),
           e.op = "insert" => t = [s EXCEPT ![e.id] = e.fields],
           e.op = "delete" => t = [s EXCEPT ![e.id] = NoDoc],
           e.op = "update" => t = IF s[e.id] = NoDoc THEN s
                                  ELSE [s EXCEPT ![e.id] = Merge(@, e.fields, e.removed)]
    PROVE  t \in States /\ Agree(t, after)
  <1> DEFINE i == e.id
  <1>1. i \in Ids /\ e.op \in Ops /\ e.fields \in Docs /\ e.fields # NoDoc
    BY NoDocNoDocument DEF Events
  <1>2. t \in States /\ \A j \in Ids \ {i} : t[j] = s[j]
    <2>1. CASE e.op = "update"
      <3>1. CASE s[i] = NoDoc
        BY <2>1, <3>1
      <3>2. CASE s[i] # NoDoc
        <4>1. s[i] \in Docs
          BY <1>1, <3>2 DEF States
        <4>2. Merge(s[i], e.fields, e.removed) \in Docs
          BY <1>1, <4>1, MergeType
        <4> QED BY <1>1, <2>1, <3>2, <4>2 DEF States
      <3> QED BY <3>1, <3>2
    <2>2. CASE e.op # "update"
      BY <1>1, <2>2 DEF Ops, States
    <2> QED BY <2>1, <2>2
  <1>3. ASSUME NEW j \in Ids \ {i}
        PROVE  /\ t[j] = NoDoc <=> after[j] = NoDoc
               /\ t[j] # NoDoc => \A f \in Fields : Followed(f) => t[j][f] = after[j][f]
    <2>1. t[j] = s[j] /\ after[j] = before[j]
      BY <1>2 DEF Did
    <2> QED BY <2>1 DEF Agree
  <1>4. /\ t[i] = NoDoc <=> after[i] = NoDoc
        /\ t[i] # NoDoc => \A f \in Fields : Followed(f) => t[i][f] = after[i][f]
    <2>1. CASE e.op = "insert"
      <3>1. t[i] = e.fields /\ after[i] = e.fields
        BY <1>1, <2>1 DEF States, Did
      <3> QED BY <3>1
    <2>2. CASE e.op = "delete"
      <3>1. t[i] = NoDoc /\ after[i] = NoDoc
        BY <1>1, <2>2 DEF States, Did
      <3> QED BY <3>1
    <2>3. CASE e.op = "update"
      <3>1. /\ before[i] # NoDoc /\ after[i] # NoDoc
            /\ \A f \in Fields : Followed(f) =>
                  after[i][f] = Merge(before[i], e.fields, e.removed)[f]
        BY <2>3 DEF Did
      <3>2. s[i] # NoDoc /\ \A f \in Fields : Followed(f) => s[i][f] = before[i][f]
        BY <1>1, <3>1 DEF Agree
      <3>3. s[i] \in Docs
        BY <1>1, <3>2 DEF States
      <3>4. t[i] = Merge(s[i], e.fields, e.removed)
        BY <1>1, <2>3, <3>2 DEF States
      <3>5. t[i] # NoDoc
        BY <1>1, <3>3, <3>4, MergeType, NoDocNoDocument
      <3>6. ASSUME NEW f \in Fields, Followed(f)
            PROVE  Merge(s[i], e.fields, e.removed)[f] = Merge(before[i], e.fields, e.removed)[f]
        BY <3>2, <3>6 DEF Merge
      <3> QED BY <3>1, <3>4, <3>5, <3>6
    <2> QED BY <1>1, <2>1, <2>2, <2>3 DEF Ops
  <1> QED BY <1>2, <1>3, <1>4 DEF Agree

(* The event that is being handled.                                        *)
LEMMA EventFacts ==
    ASSUME Inv, stage # "idle"
    PROVE  /\ taken \in 1..Len(log) /\ event \in Events
           /\ history[taken] \in States /\ history[taken + 1] \in States
           /\ Did(history[taken], history[taken + 1], event)
  <1>1. /\ taken \in 1..Len(log) /\ taken \in 1..Len(history) /\ taken + 1 \in 1..Len(history)
    BY StateFacts DEF Inv, Typed
  <1> QED BY <1>1, StateFacts DEF Inv, EventsOK, event

(* An inserted id gets the next number, and has no other.                  *)
LEMMA AddNumbers ==
    ASSUME C!TypeOK, NumbersAgree, NEW id \in Ids, cache[id] = NoDoc,
           NEW doc \in Docs, C!Add(id, doc)
    PROVE  /\ itemsByIndex' \in Seq(Ids \cup {Nil})
           /\ indexByID' \in [Ids -> 0..Len(itemsByIndex')]
           /\ NumbersAgree'
  <1> DEFINE n == Len(itemsByIndex)
  <1>1. /\ itemsByIndex \in Seq(Ids \cup {Nil}) /\ n \in Nat
        /\ indexByID \in [Ids -> 0..n] /\ id # Nil /\ doc # NoDoc
    BY DocumentsAssumption, NoDocNoDocument DEF C!TypeOK
  <1>2. itemsByIndex' = Append(itemsByIndex, id)
    BY DEF C!Add
  <1>3. /\ itemsByIndex' \in Seq(Ids \cup {Nil}) /\ Len(itemsByIndex') = n + 1
        /\ \A k \in 1..n : itemsByIndex'[k] = itemsByIndex[k]
        /\ itemsByIndex'[n + 1] = id
    BY <1>1, <1>2, AppendFacts
  <1> HIDE DEF n
  <1>4. /\ indexByID' = [indexByID EXCEPT ![id] = n + 1]
        /\ cache' = [cache EXCEPT ![id] = doc]
    BY DEF C!Add, n
  <1>5. indexByID' \in [Ids -> 0..Len(itemsByIndex')]
    BY <1>1, <1>3, <1>4
  <1>6. indexByID[id] = 0
    BY DEF NumbersAgree
  <1>7. ASSUME NEW k \in 1..n
        PROVE  itemsByIndex[k] # id
    <2>1. SUFFICES ASSUME itemsByIndex[k] = id PROVE FALSE
      OBVIOUS
    <2>2. indexByID[id] = k
      BY <1>1, <2>1 DEF NumbersAgree, n
    <2> QED BY <1>1, <1>6, <2>2
  <1>8. ASSUME NEW j \in Ids, indexByID'[j] # 0
        PROVE  itemsByIndex'[indexByID'[j]] = j /\ cache'[j] # NoDoc
    <2>1. CASE j = id
      BY <1>1, <1>3, <1>4, <2>1 DEF C!TypeOK
    <2>2. CASE j # id
      <3>1. indexByID'[j] = indexByID[j] /\ cache'[j] = cache[j]
        BY <1>1, <1>4, <2>2 DEF C!TypeOK
      <3>2. indexByID[j] \in 1..n
        BY <1>1, <1>8, <3>1
      <3> QED BY <1>3, <1>8, <3>1, <3>2 DEF NumbersAgree
    <2> QED BY <2>1, <2>2
  <1>9. ASSUME NEW k \in DOMAIN itemsByIndex', itemsByIndex'[k] # Nil
        PROVE  indexByID'[itemsByIndex'[k]] = k
    <2>1. k \in 1..(n + 1)
      BY <1>1, <1>3
    <2>2. CASE k = n + 1
      BY <1>1, <1>3, <1>4, <2>2
    <2>3. CASE k \in 1..n
      <3>1. /\ itemsByIndex'[k] = itemsByIndex[k] /\ itemsByIndex[k] # id
            /\ k \in DOMAIN itemsByIndex /\ itemsByIndex[k] \in Ids
        BY <1>1, <1>3, <1>7, <1>9, <2>3 DEF n
      <3>2. indexByID[itemsByIndex[k]] = k
        BY <1>9, <3>1 DEF NumbersAgree
      <3> QED BY <1>1, <1>4, <3>1, <3>2
    <2> QED BY <1>1, <2>1, <2>2, <2>3
  <1> QED BY <1>3, <1>5, <1>8, <1>9 DEF NumbersAgree

(* Forgetting an id and its number keeps the rest one to one; the document *)
(* may go or stay.                                                         *)
LEMMA ForgetNumbers ==
    ASSUME C!TypeOK, NumbersAgree, NEW id \in Ids,
           C!Forget({id}, {indexByID[id]}),
           \A j \in Ids \ {id} : cache'[j] = cache[j]
    PROVE  /\ itemsByIndex' \in Seq(Ids \cup {Nil})
           /\ indexByID' \in [Ids -> 0..Len(itemsByIndex')]
           /\ NumbersAgree'
  <1> DEFINE n == Len(itemsByIndex)
  <1>1. /\ itemsByIndex \in Seq(Ids \cup {Nil}) /\ n \in Nat /\ DOMAIN itemsByIndex = 1..n
        /\ indexByID \in [Ids -> 0..n]
    BY DEF C!TypeOK
  <1>2. /\ itemsByIndex' = [k \in 1..n |-> IF k = indexByID[id] THEN Nil ELSE itemsByIndex[k]]
        /\ indexByID' = [j \in Ids |-> IF j = id THEN 0 ELSE indexByID[j]]
    BY <1>1 DEF C!Forget
  <1>3. /\ itemsByIndex' \in Seq(Ids \cup {Nil}) /\ Len(itemsByIndex') = n
        /\ DOMAIN itemsByIndex' = 1..n
    BY <1>1, <1>2
  <1>4. indexByID' \in [Ids -> 0..Len(itemsByIndex')]
    BY <1>1, <1>2, <1>3
  <1>5. ASSUME NEW j \in Ids, indexByID'[j] # 0
        PROVE  itemsByIndex'[indexByID'[j]] = j /\ cache'[j] # NoDoc
    <2>1. j # id /\ indexByID'[j] = indexByID[j] /\ indexByID[j] \in 1..n
      BY <1>1, <1>2, <1>5
    <2>2. itemsByIndex[indexByID[j]] = j /\ cache[j] # NoDoc
      BY <1>5, <2>1 DEF NumbersAgree
    <2>3. indexByID[j] # indexByID[id]
      <3>1. SUFFICES ASSUME indexByID[j] = indexByID[id] PROVE FALSE
        OBVIOUS
      <3>2. itemsByIndex[indexByID[id]] = id
        BY <1>5, <2>1, <3>1 DEF NumbersAgree
      <3> QED BY <2>1, <2>2, <3>1, <3>2
    <2> QED BY <1>2, <2>1, <2>2, <2>3
  <1>6. ASSUME NEW k \in DOMAIN itemsByIndex', itemsByIndex'[k] # Nil
        PROVE  indexByID'[itemsByIndex'[k]] = k
    <2>1. /\ k \in 1..n /\ k # indexByID[id] /\ itemsByIndex'[k] = itemsByIndex[k]
          /\ itemsByIndex[k] \in Ids
      BY <1>1, <1>2, <1>3, <1>6
    <2>2. indexByID[itemsByIndex[k]] = k
      BY <1>1, <1>6, <2>1 DEF NumbersAgree
    <2> QED BY <1>2, <2>1, <2>2
  <1> QED BY <1>3, <1>4, <1>5, <1>6 DEF NumbersAgree

(* The instances of Documents in Cache compute the same.                   *)
LEMMA SameMerge ==
    ASSUME NEW doc, NEW set, NEW removed
    PROVE  C!Merge(doc, set, removed) = Merge(doc, set, removed)
  BY DEF C!Merge, Merge

LEMMA ApplyStep ==
    ASSUME Inv, Apply
    PROVE  Inv'
  <1> USE DEF Inv
  <1>1. /\ taken \in 1..Len(log) /\ event \in Events /\ event.id \in Ids /\ event.op \in Ops
        /\ event.fields \in Docs
        /\ history[taken] \in States /\ history[taken + 1] \in States /\ cache \in States
        /\ Did(history[taken], history[taken + 1], event)
        /\ Agree(cache, history[taken])
    BY EventFacts, StateFacts DEF Apply, Events, CacheOK, Reached
  <1>2. /\ history' = history /\ log' = log /\ taken' = taken /\ stage' = "after"
    BY DEF Apply, mongoVars
  <1>3. /\ event.op = "insert" => C!Add(event.id, event.fields)
        /\ event.op = "update" => C!Update(event.id, event.fields, event.removed)
        /\ event.op = "delete" => C!Delete(event.id)
    BY DEF Apply
  <1>4. cache' \in States /\ Agree(cache', history[taken + 1])
    <2>1. event.op = "insert" => cache' = [cache EXCEPT ![event.id] = event.fields]
      BY <1>3 DEF C!Add
    <2>2. event.op = "delete" => cache' = [cache EXCEPT ![event.id] = NoDoc]
      BY <1>3 DEF C!Delete
    <2>3. event.op = "update" =>
             cache' = IF cache[event.id] = NoDoc THEN cache
                      ELSE [cache EXCEPT ![event.id] = Merge(@, event.fields, event.removed)]
      BY <1>3, SameMerge DEF C!Update
    <2> QED BY <1>1, <2>1, <2>2, <2>3, ApplyAgrees
  <1>5. /\ itemsByIndex' \in Seq(Ids \cup {Nil})
        /\ indexByID' \in [Ids -> 0..Len(itemsByIndex')]
        /\ NumbersAgree'
    <2>1. CASE event.op = "insert"
      <3>1. cache[event.id] = NoDoc
        BY <1>1, <2>1 DEF Did, Agree
      <3> QED BY <1>1, <1>3, <2>1, <3>1, AddNumbers DEF Typed
    <2>2. CASE event.op = "update"
      <3>1. /\ itemsByIndex' = itemsByIndex /\ indexByID' = indexByID
            /\ \A id \in Ids : cache[id] # NoDoc => cache'[id] # NoDoc
        <4>1. \A id \in Ids : cache[id] # NoDoc => history[taken + 1][id] # NoDoc
          BY <1>1, <2>2 DEF Did, Agree
        <4>2. \A id \in Ids : history[taken + 1][id] # NoDoc => cache'[id] # NoDoc
          BY <1>4 DEF Agree
        <4>3. itemsByIndex' = itemsByIndex /\ indexByID' = indexByID
          BY <1>3, <2>2 DEF C!Update, C!idxVars
        <4> QED BY <4>1, <4>2, <4>3
      <3> QED BY <3>1 DEF Typed, C!TypeOK, NumbersAgree
    <2>3. CASE event.op = "delete"
      <3>1. C!Forget({event.id}, {indexByID[event.id]})
        BY <1>3, <2>3 DEF C!Delete
      <3>2. \A j \in Ids \ {event.id} : cache'[j] = cache[j]
        BY <1>1, <1>3, <2>3 DEF C!Delete, States
      <3> QED BY <1>1, <3>1, <3>2, ForgetNumbers DEF Typed
    <2> QED BY <1>1, <2>1, <2>2, <2>3 DEF Ops
  <1>6. Typed'
    <2>1. cache' \in [Ids -> C!Docs \cup {NoDoc}]
      BY <1>4 DEF States, C!Docs, Docs
    <2>2. taken' # 0
      BY <1>1, <1>2
    <2> QED BY <1>2, <1>5, <2>1, <2>2 DEF Typed, C!TypeOK
  <1>7. EventsOK'
    BY <1>2 DEF EventsOK
  <1>8. CacheOK'
    BY <1>2, <1>4 DEF CacheOK, Reached
  <1> QED BY <1>5, <1>6, <1>7, <1>8

(* The other steps of the Listener move on and leave the cache alone.      *)
Advances ==
    /\ UNCHANGED <<mongoVars, cacheVars>>
    /\ \/ taken' = taken /\ stage' = stage
       \/ stage = "idle" /\ taken < Len(log) /\ taken' = taken + 1 /\ stage' = "before"
       \/ stage = "after" /\ taken' = taken /\ stage' = "idle"

LEMMA ListenerStep ==
    ASSUME Inv, Advances
    PROVE  Inv' /\ Reached' = Reached
  <1> USE DEF Inv, Advances
  <1>1. /\ history' = history /\ log' = log /\ cache' = cache
        /\ itemsByIndex' = itemsByIndex /\ indexByID' = indexByID
    BY DEF mongoVars, cacheVars
  <1>2. Reached' = Reached
    BY DEF Reached
  <1>3. taken' \in 0..Len(log) /\ stage' \in {"idle", "before", "after"}
        /\ (stage' # "idle" => taken' # 0)
    BY StateFacts DEF Typed
  <1>4. Typed'
    BY <1>1, <1>3 DEF Typed, C!TypeOK
  <1>5. EventsOK'
    BY <1>1 DEF EventsOK
  <1>6. CacheOK'
    <2>1. history'[Reached'] = history[Reached]
      BY <1>1, <1>2
    <2> QED BY <1>1, <2>1 DEF CacheOK
  <1>7. NumbersAgree'
    BY <1>1 DEF NumbersAgree
  <1> QED BY <1>2, <1>4, <1>5, <1>6, <1>7

LEMMA LookupStep ==
    ASSUME Inv, NEW n \in DOMAIN itemsByIndex, GetByIndex(n)
    PROVE  Inv'
  <1> USE DEF Inv
  <1> DEFINE id == itemsByIndex[n]
  <1>1. /\ history' = history /\ log' = log /\ taken' = taken /\ stage' = stage
        /\ cache' = cache
    BY DEF GetByIndex, C!GetByIndex, mongoVars, listenerVars
  <1>2. id \in Ids /\ C!Forget({id}, {n, indexByID[id]})
    BY DEF GetByIndex, C!GetByIndex, C!Cached
  <1>3. indexByID[id] = n
    BY <1>2, DocumentsAssumption DEF NumbersAgree
  <1>4. C!Forget({id}, {indexByID[id]})
    <2>1. {n, indexByID[id]} = {indexByID[id]}
      BY <1>3
    <2> QED BY <1>2, <2>1
  <1> HIDE DEF id
  <1>5. /\ itemsByIndex' \in Seq(Ids \cup {Nil})
        /\ indexByID' \in [Ids -> 0..Len(itemsByIndex')]
        /\ NumbersAgree'
    BY <1>1, <1>2, <1>4, ForgetNumbers DEF Typed
  <1>6. Typed'
    BY <1>1, <1>5 DEF Typed, C!TypeOK
  <1>7. EventsOK' /\ CacheOK'
    BY <1>1 DEF EventsOK, CacheOK, Reached
  <1> QED BY <1>5, <1>6, <1>7

-----------------------------------------------------------------------------
(* What a step is, as far as the cache is concerned.                       *)
SomeLookup == \E n \in DOMAIN itemsByIndex : GetByIndex(n)

LEMMA StepKinds ==
    ASSUME Inv, [Next]_vars
    PROVE  SomeWrite \/ Apply \/ Advances \/ SomeLookup
  <1>1. Receive => Advances
    BY DEF Receive, Advances
  <1>2. BeforeInverse \/ BeforeUnique \/ BeforeSorted \/ BeforeSuffix => Advances
    BY DEF BeforeInverse, BeforeUnique, BeforeSorted, BeforeSuffix, CallBefore, Advances
  <1>3. AfterSuffix => Advances
    BY DEF AfterSuffix, Advances
  <1>4. UNCHANGED vars => Advances
    BY DEF vars, listenerVars, Advances
  <1>5. Handle => Apply \/ Advances
    BY <1>1, <1>2, <1>3 DEF Handle
  <1>6. db \in States
    BY StateFacts DEF Inv
  <1>7. Next => SomeWrite \/ Apply \/ Advances \/ SomeLookup
    BY <1>5, <1>6, WritesAreWrites DEF Next, SomeLookup
  <1> QED BY <1>4, <1>7

LEMMA InvInit == Init => Inv
  <1> SUFFICES ASSUME Init PROVE Inv
    OBVIOUS
  <1> DEFINE empty == [id \in Ids |-> NoDoc]
  <1>1. /\ history = <<empty>> /\ log = <<>> /\ taken = 0 /\ stage = "idle"
        /\ cache = empty /\ itemsByIndex = <<>> /\ indexByID = [id \in Ids |-> 0]
    BY DEF Init, C!Init
  <1>2. empty \in States /\ empty \in [Ids -> C!Docs \cup {NoDoc}]
    BY DEF States
  <1> HIDE DEF empty
  <1>3. Typed
    <2>1. history \in Seq(States) /\ log \in Seq(Events)
      BY <1>1, <1>2
    <2> QED BY <1>1, <1>2, <2>1 DEF Typed, C!TypeOK
  <1>4. EventsOK
    BY <1>1 DEF EventsOK
  <1>5. CacheOK
    BY <1>1 DEF CacheOK, Reached, Agree
  <1>6. NumbersAgree
    BY <1>1 DEF NumbersAgree
  <1> QED BY <1>3, <1>4, <1>5, <1>6 DEF Inv

LEMMA InvStep == Inv /\ [Next]_vars => Inv'
  <1>1. Inv /\ SomeLookup => Inv'
    BY LookupStep DEF SomeLookup
  <1> QED BY <1>1, StepKinds, WriteStep, ApplyStep, ListenerStep

(* The inductive invariant holds in every reachable state.                 *)
THEOREM Invariance == Spec => []Inv
  BY InvInit, InvStep, PTL DEF Spec

(* Ids and numbers stay one to one, and only cached documents have one,    *)
(* although GetByIndex, on the application's threads, takes numbers away   *)
(* between any two steps of the Listener and ids come back after deletion. *)
THEOREM NumbersStayOneToOne == Spec => []NumbersAgree
  <1>1. Inv => NumbersAgree
    BY DEF Inv
  <1> QED BY <1>1, Invariance, PTL

-----------------------------------------------------------------------------
(* EntityStore implements Projection if every change of every field        *)
(* reaches the cache: this is what a plain field, a null, or the removal   *)
(* from an embedded struct breaks.                                         *)

AllFollowed == \A f \in Fields : Followed(f)

LEMMA AgreeIsEqual ==
    ASSUME AllFollowed, NEW s \in States, NEW t \in States, Agree(s, t)
    PROVE  s = t
  <1>1. ASSUME NEW id \in Ids
        PROVE  s[id] = t[id]
    <2>1. CASE s[id] = NoDoc
      BY <2>1 DEF Agree
    <2>2. CASE s[id] # NoDoc
      <3>1. s[id] \in [Fields -> Values \cup {Nil}] /\ t[id] \in [Fields -> Values \cup {Nil}]
        BY <2>2 DEF Agree, States, Docs
      <3>2. \A f \in Fields : s[id][f] = t[id][f]
        BY <2>2 DEF Agree, AllFollowed
      <3> QED BY <3>1, <3>2
    <2> QED BY <2>1, <2>2
  <1> QED BY <1>1 DEF States

LEMMA ProjectionStep ==
    ASSUME AllFollowed, Inv, [Next]_vars
    PROVE  [Projected!Next]_(Projected!vars)
  <1>1. ASSUME NEW op \in Ops, NEW id \in Ids, NEW doc \in Docs \cup {NoDoc}, NEW set \in Docs,
               NEW removed \in SUBSET Fields, Writes(op, id, doc, set, removed)
        PROVE  Projected!Commit
    <2> DEFINE state == [db EXCEPT ![id] = doc]
    <2>1. /\ history \in Seq(States) /\ Len(log) \in Nat /\ Len(history) = Len(log) + 1
          /\ db = history[Len(history)] /\ db \in States
      BY StateFacts DEF Inv, Typed
    <2>2. state \in States /\ \A j \in Ids \ {id} : state[j] = db[j]
      BY <2>1 DEF States
    <2>3. history' = Append(history, state) /\ UNCHANGED <<stage, taken, cache>>
      BY <1>1 DEF Writes, Commit, listenerVars, cacheVars
    <2> HIDE DEF state
    <2>4. Len(history') = Len(history) + 1 /\ history'[Len(history) + 1] = state
      BY <2>1, <2>2, <2>3, AppendFacts
    <2>5. history'[Len(history')] = state
      BY <2>4
    <2> QED BY <2>1, <2>2, <2>3, <2>5 DEF Projected!Commit, States
  <1>2. CASE Apply
    <2>1. /\ stage = "before" /\ stage' = "after" /\ taken' = taken /\ history' = history
      BY <1>2 DEF Apply, mongoVars
    <2>2. Inv'
      BY <1>2, ApplyStep
    <2>3. cache' \in States /\ Agree(cache', history'[taken' + 1])
      BY <2>1, <2>2 DEF Inv, Typed, C!TypeOK, C!Docs, Docs, States, CacheOK, Reached
    <2>4. /\ history[taken + 1] \in States /\ taken \in 1..Len(log) /\ Len(log) \in Nat
          /\ Len(history) = Len(log) + 1
      BY <2>1, EventFacts, StateFacts DEF Inv
    <2>5. cache' = history[taken + 1]
      BY <2>1, <2>3, <2>4, AgreeIsEqual
    <2> QED BY <2>1, <2>4, <2>5 DEF Projected!Next, Projected!Apply
  <1>3. ASSUME UNCHANGED <<history, cache>>, Reached' = Reached
        PROVE  UNCHANGED Projected!vars
    BY <1>3 DEF Projected!vars, Reached
  <1>4. CASE Advances
    BY <1>3, <1>4, ListenerStep DEF Advances, mongoVars, cacheVars
  <1>5. ASSUME NEW n \in DOMAIN itemsByIndex, GetByIndex(n)
        PROVE  UNCHANGED Projected!vars
    BY <1>3, <1>5 DEF GetByIndex, C!GetByIndex, mongoVars, listenerVars, Reached
  <1> QED BY <1>1, <1>2, <1>4, <1>5, StepKinds
     DEF Projected!Next, SomeWrite, SomeLookup

(* The cache runs through the states of the collection, one write at a     *)
(* time, for any entity type all of whose fields are followed.             *)
THEOREM CacheFollows ==
    ASSUME AllFollowed
    PROVE  Spec => CacheIsProjection
  <1>1. Init => Projected!Init
    BY DEF Init, C!Init, Projected!Init
  <1>2. Inv /\ [Next]_vars => [Projected!Next]_(Projected!vars)
    BY ProjectionStep
  <1> QED BY <1>1, <1>2, Invariance, PTL DEF Spec, CacheIsProjection, Projected!Safety

-----------------------------------------------------------------------------
(* The types of the indexes.  No method of an index depends on more than   *)
(* that the documents it is given, and the cached ones, are documents.     *)
IndexTypes == Inverse!TypeOK /\ Unique!TypeOK /\ Sorted!TypeOK /\ Suffix!TypeOK

Targets == Ids \cup Values

LEMMA TargetType ==
    ASSUME NEW id \in Ids, NEW doc \in Docs, NEW to \in Fields \cup {Nil}
    PROVE  Target(id, doc, to) \in Targets
  BY DEF Target, Targets, Docs

(* The components' copies of the operators of Documents.                   *)
LEMMA SameDocuments ==
    ASSUME NEW doc, NEW from, NEW id, NEW to
    PROVE  /\ Inverse!Key(doc, from) = Key(doc, from) /\ Sorted!Key(doc, from) = Key(doc, from)
           /\ Suffix!Key(doc, from) = Key(doc, from)
           /\ Inverse!Keys(from) = Keys(from) /\ Sorted!Keys(from) = Keys(from)
           /\ Suffix!Keys(from) = Keys(from) /\ Unique!Keys(from) = Keys(from)
           /\ Inverse!Target(id, doc, to) = Target(id, doc, to)
           /\ Unique!Target(id, doc, Nil) = id /\ Sorted!Target(id, doc, Nil) = id
           /\ Suffix!Target(id, doc, Nil) = id
  BY DEF Inverse!Key, Sorted!Key, Suffix!Key, Key, Inverse!Keys, Sorted!Keys, Suffix!Keys,
         Unique!Keys, Keys, Inverse!Target, Target, Unique!Target, Sorted!Target, Suffix!Target

LEMMA RemovedType ==
    ASSUME NEW S, NEW list \in Seq(S), NEW x
    PROVE  Inverse!RemoveFirst(list, x) \in Seq(S) /\ Suffix!RemoveFirst(list, x) \in Seq(S)
  <1>1. /\ Inverse!RemoveFirst(list, x) = ListFacts!RemoveFirst(list, x)
        /\ Suffix!RemoveFirst(list, x) = ListFacts!RemoveFirst(list, x)
    BY DEF Inverse!RemoveFirst, ListFacts!RemoveFirst, Inverse!RemoveAt, ListFacts!RemoveAt,
           Inverse!SelectInSeq, ListFacts!SelectInSeq, Inverse!Min, ListFacts!Min,
           Suffix!RemoveFirst, Suffix!RemoveAt, Suffix!SelectInSeq, Suffix!Min
  <1> QED BY <1>1, ListFacts!RemoveFirstFacts

(* A list is put in the place of another.                                  *)
LEMMA ListPut ==
    ASSUME NEW K, NEW L, NEW f \in [K -> L], NEW k \in K, NEW list \in L
    PROVE  [f EXCEPT ![k] = list] \in [K -> L]
  OBVIOUS

LEMMA InverseTyped ==
    ASSUME Inverse!TypeOK, cache \in States, NEW id \in Ids, NEW doc \in Docs,
           Inverse!Add(id, doc) \/ Inverse!Update(id, doc) \/ Inverse!Delete(id)
    PROVE  Inverse!TypeOK'
  <1> DEFINE K == Keys(InverseFrom)
             L == Seq(Targets)
             new == Key(doc, InverseFrom)
             old == Key(cache[id], InverseFrom)
             to == Target(id, cache[id], To)
             at == Target(id, doc, To)
             Typed2 == inverse' \in [K -> L] /\ inverseNil' \in L
  <1>1. Inverse!Keys(InverseFrom) = K
    BY SameDocuments
  <1>2. inverse \in [K -> L] /\ inverseNil \in L
    BY <1>1 DEF Inverse!TypeOK, Targets
  <1>3. /\ cache[id] # NoDoc => cache[id] \in Docs
        /\ InverseFrom \in Seq(Fields) /\ To \in Fields \cup {Nil}
    BY EntityStoreAssumption DEF States
  <1>4. new # <<>> => new \in K
    BY <1>3, KeyFacts
  <1>5. cache[id] # NoDoc => to \in Targets /\ (old # <<>> => old \in K)
    BY <1>3, KeyFacts, TargetType
  <1>6. at \in Targets
    BY <1>3, TargetType
  <1>7. /\ Inverse!Key(doc, InverseFrom) = new /\ Inverse!Key(cache[id], InverseFrom) = old
        /\ Inverse!Target(id, doc, To) = at /\ Inverse!Target(id, cache[id], To) = to
    BY SameDocuments
  <1> HIDE DEF K, new, old, to, at
  <1>8. \A list \in L, x \in Targets : Append(list, x) \in L
    BY AppendFacts
  <1>9. \A list \in L : \A x : Inverse!RemoveFirst(list, x) \in L
    BY RemovedType
  <1> HIDE DEF L
  <1>10. ASSUME Inverse!Add(id, doc)
         PROVE  Typed2
    <2>1. CASE new = <<>>
      <3>1. inverseNil' = Append(inverseNil, at) /\ inverse' = inverse
        BY <1>7, <1>10, <2>1 DEF Inverse!Add
      <3> QED BY <1>2, <1>6, <1>8, <3>1
    <2>2. CASE new # <<>>
      <3> DEFINE list == IF Inverse!Contains(inverse[new], at) THEN inverse[new]
                         ELSE Append(inverse[new], at)
      <3>1. inverse' = [inverse EXCEPT ![new] = list] /\ inverseNil' = inverseNil
        BY <1>7, <1>10, <2>2 DEF Inverse!Add
      <3>2. new \in K /\ list \in L
        BY <1>2, <1>4, <1>6, <1>8, <2>2
      <3> HIDE DEF list
      <3> QED BY <1>2, <3>1, <3>2, ListPut
    <2> QED BY <2>1, <2>2
  <1>11. ASSUME Inverse!Update(id, doc)
         PROVE  Typed2
    <2>1. CASE new = <<>> \/ cache[id] = NoDoc
      <3>1. inverse' = inverse /\ inverseNil' = inverseNil
        BY <1>7, <1>11, <2>1 DEF Inverse!Update
      <3> QED BY <1>2, <3>1
    <2>2. CASE new # <<>> /\ cache[id] # NoDoc /\ old = <<>>
      <3>1. /\ inverseNil' = Inverse!RemoveFirst(inverseNil, to)
            /\ inverse' = [inverse EXCEPT ![new] = Append(inverse[new], to)]
        BY <1>7, <1>11, <2>2 DEF Inverse!Update
      <3>2. new \in K /\ Append(inverse[new], to) \in L
        BY <1>2, <1>4, <1>5, <1>8, <2>2
      <3>3. inverse' \in [K -> L]
        BY <1>2, <3>1, <3>2, ListPut
      <3> QED BY <1>2, <1>9, <3>1, <3>3
    <2>3. CASE new # <<>> /\ cache[id] # NoDoc /\ old # <<>>
      <3> DEFINE less == [inverse EXCEPT ![old] = Inverse!RemoveFirst(inverse[old], to)]
      <3>1. inverse' = [less EXCEPT ![new] = Append(less[new], to)] /\ inverseNil' = inverseNil
        BY <1>7, <1>11, <2>3 DEF Inverse!Update
      <3>2. old \in K /\ Inverse!RemoveFirst(inverse[old], to) \in L
        BY <1>2, <1>5, <1>9, <2>3
      <3>3. less \in [K -> L]
        BY <1>2, <3>2, ListPut
      <3> HIDE DEF less
      <3>4. new \in K /\ Append(less[new], to) \in L
        BY <1>4, <1>5, <1>8, <2>3, <3>3
      <3>5. inverse' \in [K -> L]
        BY <3>1, <3>3, <3>4, ListPut
      <3> QED BY <1>2, <3>1, <3>5
    <2> QED BY <2>1, <2>2, <2>3
  <1>12. ASSUME Inverse!Delete(id)
         PROVE  Typed2
    <2>1. CASE cache[id] = NoDoc
      <3>1. inverse' = inverse /\ inverseNil' = inverseNil
        BY <1>12, <2>1 DEF Inverse!Delete
      <3> QED BY <1>2, <3>1
    <2>2. CASE cache[id] # NoDoc /\ old = <<>>
      <3>1. inverseNil' = Append(inverseNil, to) /\ inverse' = inverse
        BY <1>7, <1>12, <2>2 DEF Inverse!Delete
      <3> QED BY <1>2, <1>5, <1>8, <2>2, <3>1
    <2>3. CASE cache[id] # NoDoc /\ old # <<>>
      <3>1. /\ inverse' = [inverse EXCEPT ![old] = Inverse!RemoveFirst(inverse[old], to)]
            /\ inverseNil' = inverseNil
        BY <1>7, <1>12, <2>3 DEF Inverse!Delete
      <3>2. old \in K /\ Inverse!RemoveFirst(inverse[old], to) \in L
        BY <1>2, <1>5, <1>9, <2>3
      <3> QED BY <1>2, <3>1, <3>2, ListPut
    <2> QED BY <2>1, <2>2, <2>3
  <1>13. inverse' \in [K -> L] /\ inverseNil' \in L
    BY <1>10, <1>11, <1>12
  <1> QED BY <1>1, <1>13 DEF Inverse!TypeOK, Targets, L

LEMMA UniqueTyped ==
    ASSUME Unique!TypeOK, NEW id \in Ids, NEW doc,
           Unique!Add(id, doc) \/ Unique!Update(id, doc) \/ Unique!Delete(id)
    PROVE  Unique!TypeOK'
  BY SameDocuments DEF Unique!TypeOK, Unique!Add, Unique!Update, Unique!Delete

LEMMA SortedTyped ==
    ASSUME Sorted!TypeOK, cache \in States, NEW id \in Ids, NEW doc \in Docs,
           Sorted!Add(id, doc) \/ Sorted!Update(id, doc) \/ Sorted!Delete(id)
    PROVE  Sorted!TypeOK'
  <1> DEFINE K == Keys(SortedFrom)
             new == Key(doc, SortedFrom)
             More == /\ items' = items \/ (new # <<>> /\ items' \subseteq items \cup {<<new, id>>})
                     /\ locked' \in BOOLEAN
  <1>1. new # <<>> => new \in K
    BY KeyFacts, EntityStoreAssumption
  <1>2. Sorted!Keys(SortedFrom) = K
    BY SameDocuments
  <1>3. items \subseteq K \X (Ids \cup Values) /\ locked \in BOOLEAN
    BY <1>2 DEF Sorted!TypeOK
  <1>4. /\ Sorted!Key(doc, SortedFrom) = new /\ Sorted!Target(id, doc, Nil) = id
        /\ Sorted!Target(id, cache[id], Nil) = id
    BY SameDocuments
  <1> HIDE DEF new, K
  <1>5. ASSUME Sorted!Add(id, doc)
        PROVE  More
    <2>1. CASE new = <<>>
      BY <1>3, <1>4, <1>5, <2>1 DEF Sorted!Add
    <2>2. CASE new # <<>>
      <3>1. items' = items \cup {<<new, id>>} /\ locked' = (<<new, id>> \in items)
        BY <1>4, <1>5, <2>2 DEF Sorted!Add
      <3> QED BY <2>2, <3>1
    <2> QED BY <2>1, <2>2
  <1>6. ASSUME Sorted!Update(id, doc)
        PROVE  More
    <2> DEFINE old == IF cache[id] = NoDoc THEN <<>> ELSE Sorted!Key(cache[id], SortedFrom)
    <2>1. CASE new = <<>> \/ old = <<>>
      BY <1>3, <1>4, <1>6, <2>1 DEF Sorted!Update
    <2>2. CASE new # <<>> /\ old # <<>>
      <3>1. items' = (items \ {<<old, id>>}) \cup {<<new, id>>} /\ locked' = locked
        BY <1>4, <1>6, <2>2 DEF Sorted!Update
      <3> QED BY <1>3, <2>2, <3>1
    <2> QED BY <2>1, <2>2
  <1>7. ASSUME Sorted!Delete(id)
        PROVE  items' \subseteq items /\ locked' \in BOOLEAN
    BY <1>3, <1>7 DEF Sorted!Delete
  <1>8. items' \subseteq K \X (Ids \cup Values) /\ locked' \in BOOLEAN
    BY <1>1, <1>3, <1>5, <1>6, <1>7
  <1> QED BY <1>2, <1>8 DEF Sorted!TypeOK

(* The trigrams the tree of the suffix index may have, and their lists.     *)
Trigrams == UNION {Suffix!Range(Suffix!Grams(Suffix!Text(key))) : key \in Keys(SuffixFrom)}

Posting(tree, last) ==
    /\ DOMAIN tree \subseteq Trigrams
    /\ \A gram \in DOMAIN tree : tree[gram] \in Seq(1..last)

LEMMA SuffixTypes ==
    /\ Suffix!TypeOK <=> Posting(postings, Len(itemsByIndex))
    /\ Suffix!TypeOK' <=> Posting(postings', Len(itemsByIndex'))
  <1>1. Suffix!Keys(SuffixFrom) = Keys(SuffixFrom)
    BY DEF Suffix!Keys, Keys
  <1> QED BY <1>1 DEF Suffix!TypeOK, Posting, Trigrams

(* The lists are still lists of numbers when more numbers are given out.   *)
LEMMA PostingGrows ==
    ASSUME NEW tree, NEW last \in Nat, NEW more \in Nat, last <= more, Posting(tree, last)
    PROVE  Posting(tree, more)
  <1>1. ASSUME NEW list \in Seq(1..last)
        PROVE  list \in Seq(1..more)
    <2>1. list \in [1..Len(list) -> 1..last] /\ Len(list) \in Nat
      OBVIOUS
    <2>2. list \in [1..Len(list) -> 1..more]
      BY <2>1
    <2> QED BY <2>1, <2>2
  <1> QED BY <1>1 DEF Posting

LEMMA PutTyped ==
    ASSUME NEW last \in Nat, Posting(postings, last), NEW key \in Keys(SuffixFrom), NEW n \in 1..last
    PROVE  /\ Posting(Suffix!Put(Suffix!Text(key), n), last)
           /\ Posting(Suffix!Withdraw(Suffix!Text(key), n), last)
  <1> DEFINE text == Suffix!Text(key)
             grams == Suffix!Range(Suffix!Grams(text))
             put == Suffix!Put(text, n)
             left == Suffix!Withdraw(text, n)
  <1>1. grams \subseteq Trigrams
    BY DEF Trigrams
  <1>2. DOMAIN postings \subseteq Trigrams /\ \A gram \in DOMAIN postings : postings[gram] \in Seq(1..last)
    BY DEF Posting
  <1>3. ASSUME NEW gram
        PROVE  Suffix!Posted(gram) \in Seq(1..last)
    <2>1. <<>> \in Seq(1..last)
      OBVIOUS
    <2>2. CASE gram \in DOMAIN postings
      BY <1>2, <2>2 DEF Suffix!Posted
    <2>3. CASE gram \notin DOMAIN postings
      BY <2>1, <2>3 DEF Suffix!Posted
    <2> QED BY <2>2, <2>3
  <1>4. \A list \in Seq(1..last) : Append(list, n) \in Seq(1..last)
    BY AppendFacts
  <1>5. \A list \in Seq(1..last) : Suffix!RemoveFirst(list, n) \in Seq(1..last)
    BY RemovedType
  <1>6. put = [gram \in DOMAIN postings \cup grams |->
                 IF gram \in grams /\ ~ Suffix!Contains(Suffix!Posted(gram), n)
                 THEN Append(Suffix!Posted(gram), n) ELSE Suffix!Posted(gram)]
    BY DEF Suffix!Put
  <1>7. left = [gram \in DOMAIN postings |->
                  IF gram \in grams THEN Suffix!RemoveFirst(postings[gram], n) ELSE postings[gram]]
    BY DEF Suffix!Withdraw
  <1> HIDE DEF text, grams, put, left
  <1>8. Posting(put, last)
    BY <1>1, <1>2, <1>3, <1>4, <1>6 DEF Posting
  <1>9. Posting(left, last)
    BY <1>2, <1>5, <1>7 DEF Posting
  <1> QED BY <1>8, <1>9 DEF put, left, text

(* The number of a document that has one is one that was given out, and    *)
(* its text one of those of a key.                                         *)
LEMMA NumberTyped ==
    ASSUME NEW id \in Ids, NEW doc \in Docs, C!TypeOK, Suffix!Number(id, doc) # 0
    PROVE  /\ Suffix!Number(id, doc) \in 1..Len(itemsByIndex)
           /\ Key(doc, SuffixFrom) \in Keys(SuffixFrom)
           /\ Suffix!Contents(doc) = Suffix!Text(Key(doc, SuffixFrom))
  <1>1. Suffix!Key(doc, SuffixFrom) = Key(doc, SuffixFrom) /\ Suffix!Target(id, doc, Nil) = id
    BY SameDocuments
  <1>2. Key(doc, SuffixFrom) # <<>> /\ Suffix!Number(id, doc) = indexByID[id]
    BY <1>1 DEF Suffix!Number
  <1>3. indexByID[id] \in 0..Len(itemsByIndex) /\ Len(itemsByIndex) \in Nat
    BY DEF C!TypeOK
  <1>4. Key(doc, SuffixFrom) \in Keys(SuffixFrom)
    BY <1>2, KeyFacts, EntityStoreAssumption
  <1> QED BY <1>1, <1>2, <1>3, <1>4 DEF Suffix!Contents

LEMMA SuffixTyped ==
    ASSUME Suffix!TypeOK, C!TypeOK, cache \in States, NEW id \in Ids, NEW doc \in Docs,
           UNCHANGED itemsByIndex,
           Suffix!Add(id, doc) \/ Suffix!Update(id) \/ Suffix!Delete(id)
    PROVE  Suffix!TypeOK'
  <1> DEFINE last == Len(itemsByIndex)
  <1>1. Posting(postings, last)
    BY SuffixTypes
  <1>2. last \in Nat /\ last' = last
    BY DEF C!TypeOK
  <1>3. ASSUME NEW some \in Docs, Suffix!Number(id, some) # 0
        PROVE  /\ Posting(Suffix!Put(Suffix!Contents(some), Suffix!Number(id, some)), last)
               /\ Posting(Suffix!Withdraw(Suffix!Contents(some), Suffix!Number(id, some)), last)
    <2>1. /\ Suffix!Number(id, some) \in 1..last
          /\ Key(some, SuffixFrom) \in Keys(SuffixFrom)
          /\ Suffix!Contents(some) = Suffix!Text(Key(some, SuffixFrom))
      BY <1>3, NumberTyped
    <2> HIDE DEF last
    <2> QED BY <1>1, <1>2, <2>1, PutTyped
  <1>4. cache[id] # NoDoc => cache[id] \in Docs
    BY DEF States
  <1> HIDE DEF last
  <1>5. Posting(postings', last)
    <2>1. CASE Suffix!Add(id, doc)
      BY <1>1, <1>3, <2>1 DEF Suffix!Add
    <2>2. CASE Suffix!Update(id)
      BY <1>1, <1>3, <1>4, <2>2 DEF Suffix!Update
    <2>3. CASE Suffix!Delete(id)
      BY <1>1, <1>3, <1>4, <2>3 DEF Suffix!Delete
    <2> QED BY <2>1, <2>2, <2>3
  <1>6. Posting(postings', last')
    BY <1>2, <1>5
  <1> QED BY <1>6, SuffixTypes DEF last

(* What a call of a listener does at most: one method of each index, about *)
(* the document of the event.                                              *)
Calls(e) ==
    /\ UNCHANGED itemsByIndex
    /\ \/ UNCHANGED inverseVars
       \/ Inverse!Add(e.id, e.fields) \/ Inverse!Update(e.id, e.fields) \/ Inverse!Delete(e.id)
    /\ \/ UNCHANGED unique
       \/ Unique!Add(e.id, e.fields) \/ Unique!Update(e.id, e.fields) \/ Unique!Delete(e.id)
    /\ \/ UNCHANGED sortedVars
       \/ Sorted!Add(e.id, e.fields) \/ Sorted!Update(e.id, e.fields) \/ Sorted!Delete(e.id)
    /\ \/ UNCHANGED postings
       \/ Suffix!Add(e.id, e.fields) \/ Suffix!Update(e.id) \/ Suffix!Delete(e.id)

LEMMA CallsTyped ==
    ASSUME IndexTypes, C!TypeOK, NEW e, e.id \in Ids, e.fields \in Docs, Calls(e)
    PROVE  IndexTypes'
  <1> DEFINE id == e.id
             doc == e.fields
  <1>1. cache \in States
    BY DEF C!TypeOK, States, C!Docs, Docs
  <1>2. Inverse!TypeOK /\ Unique!TypeOK /\ Sorted!TypeOK /\ Suffix!TypeOK
    BY DEF IndexTypes
  <1>3. id \in Ids /\ doc \in Docs
    OBVIOUS
  <1>4. /\ UNCHANGED itemsByIndex
        /\ \/ UNCHANGED inverseVars
           \/ Inverse!Add(id, doc) \/ Inverse!Update(id, doc) \/ Inverse!Delete(id)
        /\ \/ UNCHANGED unique
           \/ Unique!Add(id, doc) \/ Unique!Update(id, doc) \/ Unique!Delete(id)
        /\ \/ UNCHANGED sortedVars
           \/ Sorted!Add(id, doc) \/ Sorted!Update(id, doc) \/ Sorted!Delete(id)
        /\ \/ UNCHANGED postings
           \/ Suffix!Add(id, doc) \/ Suffix!Update(id) \/ Suffix!Delete(id)
    BY DEF Calls
  <1> HIDE DEF id, doc
  <1>5. Inverse!TypeOK'
    <2>1. CASE UNCHANGED inverseVars
      BY <1>2, <2>1 DEF inverseVars, Inverse!TypeOK
    <2>2. CASE Inverse!Add(id, doc) \/ Inverse!Update(id, doc) \/ Inverse!Delete(id)
      BY <1>1, <1>2, <1>3, <2>2, InverseTyped
    <2> QED BY <1>4, <2>1, <2>2
  <1>6. Unique!TypeOK'
    <2>1. CASE UNCHANGED unique
      BY <1>2, <2>1 DEF Unique!TypeOK
    <2>2. CASE Unique!Add(id, doc) \/ Unique!Update(id, doc) \/ Unique!Delete(id)
      BY <1>2, <1>3, <2>2, UniqueTyped
    <2> QED BY <1>4, <2>1, <2>2
  <1>7. Sorted!TypeOK'
    <2>1. CASE UNCHANGED sortedVars
      BY <1>2, <2>1 DEF sortedVars, Sorted!TypeOK
    <2>2. CASE Sorted!Add(id, doc) \/ Sorted!Update(id, doc) \/ Sorted!Delete(id)
      BY <1>1, <1>2, <1>3, <2>2, SortedTyped
    <2> QED BY <1>4, <2>1, <2>2
  <1>8. Suffix!TypeOK'
    <2>1. CASE UNCHANGED postings
      BY <1>2, <1>4, <2>1 DEF Suffix!TypeOK
    <2>2. CASE Suffix!Add(id, doc) \/ Suffix!Update(id) \/ Suffix!Delete(id)
      BY <1>1, <1>2, <1>3, <1>4, <2>2, SuffixTyped
    <2> QED BY <1>4, <2>1, <2>2
  <1> QED BY <1>5, <1>6, <1>7, <1>8 DEF IndexTypes

(* The cache may change, and numbers be given out, while no index does.    *)
LEMMA IndexesStay ==
    ASSUME IndexTypes, UNCHANGED indexVars,
           Len(itemsByIndex) \in Nat, Len(itemsByIndex') \in Nat,
           Len(itemsByIndex) <= Len(itemsByIndex')
    PROVE  IndexTypes'
  <1>1. UNCHANGED <<inverse, inverseNil, unique, items, locked, postings>>
    BY DEF indexVars, inverseVars, sortedVars
  <1>2. Inverse!TypeOK' /\ Unique!TypeOK' /\ Sorted!TypeOK'
    BY <1>1 DEF IndexTypes, Inverse!TypeOK, Unique!TypeOK, Sorted!TypeOK
  <1>3. Suffix!TypeOK'
    <2>1. Posting(postings, Len(itemsByIndex))
      BY SuffixTypes DEF IndexTypes
    <2>2. Posting(postings, Len(itemsByIndex'))
      BY <2>1, PostingGrows
    <2>3. Posting(postings', Len(itemsByIndex'))
      BY <1>1, <2>2
    <2> QED BY <2>3, SuffixTypes
  <1> QED BY <1>2, <1>3 DEF IndexTypes

(* The cache's methods, whatever the numbering is.                         *)
LEMMA CacheTyped ==
    ASSUME C!TypeOK, NEW id \in Ids, NEW doc \in Docs, NEW removed,
           C!Add(id, doc) \/ C!Update(id, doc, removed) \/ C!Delete(id)
    PROVE  /\ C!TypeOK'
           /\ Len(itemsByIndex) \in Nat /\ Len(itemsByIndex') \in Nat
           /\ Len(itemsByIndex) <= Len(itemsByIndex')
  <1> DEFINE n == Len(itemsByIndex)
  <1>1. /\ cache \in States /\ itemsByIndex \in Seq(Ids \cup {Nil}) /\ n \in Nat
        /\ DOMAIN itemsByIndex = 1..n /\ indexByID \in [Ids -> 0..n]
    BY DEF C!TypeOK, States, C!Docs, Docs
  <1>2. ASSUME cache' \in States, itemsByIndex' \in Seq(Ids \cup {Nil}),
               Len(itemsByIndex') \in {n, n + 1}, indexByID' \in [Ids -> 0..Len(itemsByIndex')]
        PROVE  C!TypeOK' /\ n \in Nat /\ Len(itemsByIndex') \in Nat /\ n <= Len(itemsByIndex')
    <2>1. C!TypeOK'
      BY <1>2 DEF C!TypeOK, States, C!Docs, Docs
    <2> QED BY <1>1, <1>2, <2>1
  <1>3. CASE C!Add(id, doc)
    <2>1. /\ cache' = [cache EXCEPT ![id] = doc] /\ itemsByIndex' = Append(itemsByIndex, id)
          /\ indexByID' = [indexByID EXCEPT ![id] = n + 1]
      BY <1>3 DEF C!Add
    <2>2. itemsByIndex' \in Seq(Ids \cup {Nil}) /\ Len(itemsByIndex') = n + 1
      BY <1>1, <2>1, AppendFacts
    <2> HIDE DEF n
    <2>3. cache' \in States /\ indexByID' \in [Ids -> 0..Len(itemsByIndex')]
      BY <1>1, <2>1, <2>2 DEF States
    <2> QED BY <1>2, <2>2, <2>3 DEF n
  <1>4. CASE C!Update(id, doc, removed)
    <2>1. /\ cache' = IF cache[id] = NoDoc THEN cache
                      ELSE [cache EXCEPT ![id] = Merge(@, doc, removed)]
          /\ itemsByIndex' = itemsByIndex /\ indexByID' = indexByID
      BY <1>4 DEF C!Update, C!idxVars, C!Merge, Merge
    <2>2. cache[id] # NoDoc => Merge(cache[id], doc, removed) \in Docs
      BY <1>1, MergeType DEF States
    <2>3. cache' \in States
      BY <1>1, <2>1, <2>2 DEF States
    <2> QED BY <1>1, <1>2, <2>1, <2>3
  <1>5. CASE C!Delete(id)
    <2>1. /\ cache' = [cache EXCEPT ![id] = NoDoc]
          /\ itemsByIndex' = [k \in 1..n |-> IF k \in {indexByID[id]} THEN Nil ELSE itemsByIndex[k]]
          /\ indexByID' = [j \in Ids |-> IF j \in {id} THEN 0 ELSE indexByID[j]]
      BY <1>1, <1>5 DEF C!Delete, C!Forget
    <2>2. itemsByIndex' \in Seq(Ids \cup {Nil}) /\ Len(itemsByIndex') = n
      BY <1>1, <2>1
    <2>3. cache' \in States /\ indexByID' \in [Ids -> 0..Len(itemsByIndex')]
      BY <1>1, <2>1, <2>2 DEF States
    <2> QED BY <1>2, <2>2, <2>3
  <1> QED BY <1>3, <1>4, <1>5

(* No method of the cache takes numbers back.                              *)
LEMMA NumbersGrow ==
    ASSUME C!TypeOK,
           \/ \E id \in Ids, doc \in Docs : C!Add(id, doc)
           \/ \E id \in Ids, doc \in Docs, removed \in SUBSET Fields : C!Update(id, doc, removed)
           \/ \E id \in Ids : C!Delete(id)
           \/ \E n \in DOMAIN itemsByIndex : C!GetByIndex(n)
    PROVE  /\ Len(itemsByIndex) \in Nat /\ Len(itemsByIndex') \in Nat
           /\ Len(itemsByIndex) <= Len(itemsByIndex')
  <1>1. itemsByIndex \in Seq(Ids \cup {Nil}) /\ Len(itemsByIndex) \in Nat
    BY DEF C!TypeOK
  <1>2. ASSUME NEW id \in Ids, itemsByIndex' = Append(itemsByIndex, id)
        PROVE  Len(itemsByIndex') = Len(itemsByIndex) + 1
    BY <1>1, <1>2
  <1>3. ASSUME NEW numbers, NEW ids, C!Forget(ids, numbers)
        PROVE  Len(itemsByIndex') = Len(itemsByIndex)
    <2>1. /\ itemsByIndex' = [n \in 1..Len(itemsByIndex) |->
                                 IF n \in numbers THEN Nil ELSE itemsByIndex[n]]
      BY <1>1, <1>3 DEF C!Forget
    <2>2. itemsByIndex' \in Seq(Ids \cup {Nil})
      BY <1>1, <2>1
    <2> QED BY <1>1, <2>1, <2>2
  <1>4. CASE \E id \in Ids, doc \in Docs : C!Add(id, doc)
    BY <1>1, <1>2, <1>4 DEF C!Add
  <1>5. CASE \E id \in Ids, doc \in Docs, removed \in SUBSET Fields : C!Update(id, doc, removed)
    BY <1>1, <1>5 DEF C!Update, C!idxVars
  <1>6. CASE \E id \in Ids : C!Delete(id)
    BY <1>1, <1>3, <1>6 DEF C!Delete
  <1>7. CASE \E n \in DOMAIN itemsByIndex : C!GetByIndex(n)
    BY <1>1, <1>3, <1>7 DEF C!GetByIndex
  <1> QED BY <1>4, <1>5, <1>6, <1>7

LEMMA TypesStep ==
    ASSUME Inv, todo \subseteq BeforeListeners, IndexTypes, [Next]_vars
    PROVE  todo' \subseteq BeforeListeners /\ IndexTypes'
  <1>1. C!TypeOK /\ itemsByIndex \in Seq(Ids \cup {Nil}) /\ Len(itemsByIndex) \in Nat
    BY DEF Inv, Typed, C!TypeOK
  <1>2. ASSUME stage # "idle"
        PROVE  /\ event.id \in Ids /\ event.fields \in Docs /\ event.op \in Ops
               /\ event.removed \in SUBSET Fields
    BY <1>2, EventFacts DEF Events
  <1>3. ASSUME UNCHANGED <<cacheVars, indexVars>>, todo' \in {todo, BeforeListeners}
        PROVE  todo' \subseteq BeforeListeners /\ IndexTypes'
    <2>1. itemsByIndex' = itemsByIndex
      BY <1>3 DEF cacheVars
    <2> QED BY <1>1, <1>3, <2>1, IndexesStay
  <1>4. ASSUME stage # "idle", todo' \subseteq todo, Calls(event)
        PROVE  todo' \subseteq BeforeListeners /\ IndexTypes'
    BY <1>1, <1>2, <1>4, CallsTyped
  <1>5. ASSUME UNCHANGED <<todo, indexVars>>,
               /\ Len(itemsByIndex) \in Nat /\ Len(itemsByIndex') \in Nat
               /\ Len(itemsByIndex) <= Len(itemsByIndex')
        PROVE  todo' \subseteq BeforeListeners /\ IndexTypes'
    BY <1>5, IndexesStay
  <1>6. CASE SomeWrite
    BY <1>3, <1>6 DEF SomeWrite, Writes, Commit, listenerVars
  <1>7. CASE Receive
    BY <1>3, <1>7 DEF Receive
  <1>8. CASE BeforeInverse
    <2>1. stage # "idle" /\ todo' \subseteq todo
      BY <1>8 DEF BeforeInverse, CallBefore
    <2>2. Calls(event)
      BY <1>2, <1>8, <2>1 DEF BeforeInverse, CallBefore, cacheVars, Calls, Ops
    <2> QED BY <1>4, <2>1, <2>2
  <1>9. CASE BeforeUnique
    <2>1. stage # "idle" /\ todo' \subseteq todo
      BY <1>9 DEF BeforeUnique, CallBefore
    <2>2. Calls(event)
      BY <1>2, <1>9, <2>1 DEF BeforeUnique, CallBefore, cacheVars, Calls, Ops
    <2> QED BY <1>4, <2>1, <2>2
  <1>10. CASE BeforeSorted
    <2>1. stage # "idle" /\ todo' \subseteq todo
      BY <1>10 DEF BeforeSorted, CallBefore
    <2>2. Calls(event)
      BY <1>2, <1>10, <2>1 DEF BeforeSorted, CallBefore, cacheVars, Calls, Ops
    <2> QED BY <1>4, <2>1, <2>2
  <1>11. CASE BeforeSuffix
    <2>1. stage # "idle" /\ todo' \subseteq todo
      BY <1>11 DEF BeforeSuffix, CallBefore
    <2>2. Calls(event)
      BY <1>2, <1>11, <2>1 DEF BeforeSuffix, CallBefore, cacheVars, Calls, Ops
    <2> QED BY <1>4, <2>1, <2>2
  <1>12. CASE AfterSuffix
    <2>1. stage # "idle" /\ todo' \subseteq todo
      BY <1>12 DEF AfterSuffix
    <2>2. Calls(event)
      BY <1>2, <1>12, <2>1 DEF AfterSuffix, cacheVars, Calls, Ops
    <2> QED BY <1>4, <2>1, <2>2
  <1>13. CASE Apply
    <2>1. /\ stage # "idle" /\ UNCHANGED <<todo, indexVars>>
          /\ \/ C!Add(event.id, event.fields)
             \/ C!Update(event.id, event.fields, event.removed)
             \/ C!Delete(event.id)
      <3>1. stage # "idle"
        BY <1>13 DEF Apply
      <3> QED BY <1>2, <1>13, <3>1 DEF Apply, Ops
    <2>2. \/ \E id \in Ids, doc \in Docs : C!Add(id, doc)
          \/ \E id \in Ids, doc \in Docs, removed \in SUBSET Fields : C!Update(id, doc, removed)
          \/ \E id \in Ids : C!Delete(id)
      BY <1>2, <2>1
    <2> QED BY <1>1, <1>5, <2>1, <2>2, NumbersGrow
  <1>14. CASE SomeLookup
    <2>1. /\ UNCHANGED <<todo, indexVars>>
          /\ \E n \in DOMAIN itemsByIndex : C!GetByIndex(n)
      BY <1>14 DEF SomeLookup, GetByIndex, listenerVars
    <2> QED BY <1>1, <1>5, <2>1, NumbersGrow
  <1>15. CASE UNCHANGED vars
    BY <1>3, <1>15 DEF vars, listenerVars
  <1>16. db \in States
    BY StateFacts DEF Inv
  <1>17. Next => SomeWrite \/ Handle \/ SomeLookup
    BY <1>16, WritesAreWrites DEF Next, SomeLookup
  <1> QED BY <1>6, <1>7, <1>8, <1>9, <1>10, <1>11, <1>12, <1>13, <1>14, <1>15, <1>17 DEF Handle

LEMMA TypesInit == Init => todo \subseteq BeforeListeners /\ IndexTypes
  <1> SUFFICES ASSUME Init PROVE todo \subseteq BeforeListeners /\ IndexTypes
    OBVIOUS
  <1>1. todo \subseteq BeforeListeners
    BY DEF Init
  <1>2. Inverse!TypeOK
    BY DEF Init, Inverse!Init, Inverse!TypeOK
  <1>3. Unique!TypeOK
    BY DEF Init, Unique!Init, Unique!TypeOK
  <1>4. Sorted!TypeOK
    BY DEF Init, Sorted!Init, Sorted!TypeOK
  <1>5. Suffix!TypeOK
    <2>1. postings = <<>>
      BY DEF Init, Suffix!Init
    <2>2. DOMAIN postings = {}
      BY <2>1
    <2> QED BY <2>2 DEF Suffix!TypeOK
  <1> QED BY <1>1, <1>2, <1>3, <1>4, <1>5 DEF IndexTypes

(* The lists of the indexes hold ids (or the values To names), under keys  *)
(* of values; the suffix index only numbers that were given out, though it *)
(* is called twice for each event, before and after the cache changes.     *)
THEOREM TypeCorrect == Spec => []TypeOK
  <1> DEFINE Types == todo \subseteq BeforeListeners /\ IndexTypes
  <1>1. Init => Inv /\ Types
    BY InvInit, TypesInit
  <1>2. Inv /\ Types /\ [Next]_vars => (Inv /\ Types)'
    BY InvStep, TypesStep
  <1>3. Inv /\ Types => TypeOK
    BY DEF Inv, Typed, TypeOK, IndexTypes, States, Events, Ops
  <1> HIDE DEF Types
  <1> QED BY <1>1, <1>2, <1>3, PTL DEF Spec
-----------------------------------------------------------------------------

(* Writes and what their events say.                                       *)

(* What Inserts and Updates say of an event.                               *)
Meant(e) ==
    /\ e.op = "insert" => e.fields \in Inserts
    /\ e.op = "update" => \E u \in Updates : e.fields = u.set /\ e.removed = u.removed

(* The database keeps the unique keys of the documents apart.              *)
Apart(s) ==
    \A i, j \in Ids : i # j /\ s[i] # NoDoc /\ s[j] # NoDoc =>
       KeysOf(s[i], UniqueFrom) \cap KeysOf(s[j], UniqueFrom) = {}

(* A write that leaves the collection in the given state.                  *)
Wrote(e, state) ==
    /\ history' = Append(history, state) /\ log' = Append(log, e)
    /\ Did(db, state, e) /\ Meant(e)
    /\ Apart(db) => Apart(state)
    /\ UNCHANGED <<listenerVars, cacheVars, indexVars>>

SomeoneWrote == \E e \in Events, state \in States : Wrote(e, state)

LEMMA CommitApart ==
    ASSUME NEW op, NEW id \in Ids, NEW doc, NEW set, NEW removed, db \in States,
           Commit(op, id, doc, set, removed), Apart(db)
    PROVE  Apart([db EXCEPT ![id] = doc])
  <1> DEFINE state == [db EXCEPT ![id] = doc]
  <1> SUFFICES ASSUME NEW i \in Ids, NEW j \in Ids, i # j, state[i] # NoDoc, state[j] # NoDoc
               PROVE  KeysOf(state[i], UniqueFrom) \cap KeysOf(state[j], UniqueFrom) = {}
    BY DEF Apart
  <1>1. state[id] = doc /\ \A k \in Ids \ {id} : state[k] = db[k]
    BY DEF States
  <1> HIDE DEF state
  <1>2. ASSUME NEW k \in Ids \ {id}, doc # NoDoc, db[k] # NoDoc
        PROVE  KeysOf(db[k], UniqueFrom) \cap KeysOf(doc, UniqueFrom) = {}
    BY <1>2 DEF Commit
  <1>3. CASE i = id
    BY <1>1, <1>2, <1>3
  <1>4. CASE j = id
    BY <1>1, <1>2, <1>4
  <1>5. CASE i # id /\ j # id
    BY <1>1, <1>5 DEF Apart
  <1> QED BY <1>3, <1>4, <1>5

LEMMA WritesWrote ==
    ASSUME db \in States, NEW op \in Ops, NEW id \in Ids, NEW doc \in Docs \cup {NoDoc}, NEW set \in Docs,
           NEW removed \in SUBSET Fields, Writes(op, id, doc, set, removed),
           op = "insert" => set \in Inserts,
           op = "update" => \E u \in Updates : set = u.set /\ removed = u.removed
    PROVE  SomeoneWrote
  <1> DEFINE e == [op |-> op, id |-> id, fields |-> set, removed |-> removed]
             state == [db EXCEPT ![id] = doc]
  <1>1. e \in Events /\ state \in States
    BY DEF Events, States
  <1>2. Meant(e)
    BY DEF Meant
  <1>3. Apart(db) => Apart(state)
    BY CommitApart DEF Writes
  <1>4. /\ history' = Append(history, state) /\ log' = Append(log, e) /\ Did(db, state, e)
        /\ UNCHANGED <<listenerVars, cacheVars, indexVars>>
    BY DEF Writes, Commit
  <1> HIDE DEF e, state
  <1>5. Wrote(e, state)
    BY <1>2, <1>3, <1>4 DEF Wrote
  <1> QED BY <1>1, <1>5 DEF SomeoneWrote

(* The three kinds of writes are writes in this sense.                     *)
LEMMA WriteKinds ==
    ASSUME db \in States, NEW id \in Ids,
           \/ \E doc \in Inserts : Insert(id, doc)
           \/ \E u \in Updates : Modify(id, u)
           \/ Remove(id)
    PROVE  SomeoneWrote
  <1>1. ASSUME NEW doc \in Inserts, Insert(id, doc)
        PROVE  SomeoneWrote
    <2>1. doc \in Docs /\ Writes("insert", id, doc, doc, {})
      BY <1>1, InsertWrites
    <2> QED BY <2>1, WritesWrote DEF Ops
  <1>2. ASSUME NEW u \in Updates, Modify(id, u)
        PROVE  SomeoneWrote
    <2>1. PICK doc \in Docs : Writes("update", id, doc, u.set, u.removed)
      BY <1>2, ModifyWrites
    <2>2. u.set \in Docs /\ u.removed \in SUBSET Fields
      BY EntityStoreAssumption
    <2> QED BY <2>1, <2>2, WritesWrote DEF Ops
  <1>3. ASSUME Remove(id)
        PROVE  SomeoneWrote
    <2>1. Blank \in Docs /\ Writes("delete", id, NoDoc, Blank, {})
      BY <1>3, RemoveWrites DEF Blank, Docs
    <2> QED BY <2>1, WritesWrote DEF Ops
  <1> QED BY <1>1, <1>2, <1>3

(* The states and the events after a write.                                *)
LEMMA WroteFacts ==
    ASSUME Inv, NEW e \in Events, NEW state \in States, Wrote(e, state)
    PROVE  /\ Len(log) \in Nat /\ Len(log') = Len(log) + 1
           /\ Len(history) = Len(log) + 1 /\ Len(history') = Len(log) + 2
           /\ \A k \in 1..Len(log) : log'[k] = log[k]
           /\ log'[Len(log) + 1] = e
           /\ \A k \in 1..(Len(log) + 1) : history'[k] = history[k]
           /\ history'[Len(log) + 2] = state
           /\ db = history[Len(log) + 1]
  <1>1. /\ history \in Seq(States) /\ log \in Seq(Events) /\ Len(log) \in Nat
        /\ Len(history) = Len(log) + 1 /\ db = history[Len(log) + 1]
    BY StateFacts DEF Inv, Typed
  <1>2. /\ Len(log') = Len(log) + 1
        /\ \A k \in 1..Len(log) : log'[k] = log[k]
        /\ log'[Len(log) + 1] = e
    BY <1>1, AppendFacts DEF Wrote
  <1>3. /\ Len(history') = Len(history) + 1
        /\ \A k \in 1..Len(history) : history'[k] = history[k]
        /\ history'[Len(history) + 1] = state
    BY <1>1, AppendFacts DEF Wrote
  <1>4. Len(history) + 1 = Len(log) + 2
    BY <1>1
  <1> QED BY <1>1, <1>2, <1>3, <1>4

-----------------------------------------------------------------------------
(* Keys before and after a write.                                          *)

(* Every change of the fields of the index reaches the cache, and an event *)
(* brings new values for all of them or for none.                          *)
Whole(from) ==
    /\ \A n \in 1..Len(from) : Followed(from[n])
    /\ \A u \in Updates : \/ \A n \in 1..Len(from) : u.set[from[n]] = Nil
                          \/ \A n \in 1..Len(from) : u.set[from[n]] # Nil

(* An update sets all fields of the key or none and removes none.          *)
KeyKept(from) ==
    Whole(from) /\ \A u \in Updates, n \in 1..Len(from) : from[n] \notin u.removed

Has(doc, key, from) == doc # NoDoc /\ Key(doc, from) = key

(* The key the event leaves a document with, that had the old one before.  *)
KeyAfter(e, old, from) == IF Key(e.fields, from) = <<>> THEN old ELSE Key(e.fields, from)

LEMMA UpdatedKey ==
    ASSUME NEW from \in Seq(Fields), Whole(from), NEW e \in Events, e.op = "update", Meant(e),
           NEW before \in Docs, NEW after \in Docs,
           \A f \in Fields : Followed(f) => after[f] = Merge(before, e.fields, e.removed)[f],
           \A n \in 1..Len(from) : from[n] \notin e.removed
    PROVE  Key(after, from) = KeyAfter(e, Key(before, from), from)
  <1>1. PICK u \in Updates : e.fields = u.set
    BY DEF Meant
  <1>2. /\ e.fields \in Docs
        /\ \A n \in 1..Len(from) : from[n] \in Fields
    BY DEF Events
  <1>3. ASSUME NEW n \in 1..Len(from)
        PROVE  after[from[n]] = IF e.fields[from[n]] # Nil THEN e.fields[from[n]] ELSE before[from[n]]
    <2>1. from[n] \in Fields /\ from[n] \notin e.removed /\ from[n] \notin Plain
      BY <1>2 DEF Whole, Followed
    <2>2. after[from[n]] = Merge(before, e.fields, e.removed)[from[n]]
      BY <1>2 DEF Whole
    <2> QED BY <2>1, <2>2 DEF Merge
  <1>4. CASE Key(e.fields, from) = <<>>
    <2>1. \A n \in 1..Len(from) : e.fields[from[n]] = Nil
      BY <1>2, <1>4, KeyFacts
    <2>2. \A n \in 1..Len(from) : after[from[n]] = before[from[n]]
      BY <1>3, <2>1
    <2> QED BY <1>4, <2>2, KeySame DEF KeyAfter
  <1>5. CASE Key(e.fields, from) # <<>>
    <2>1. ~ \A n \in 1..Len(from) : e.fields[from[n]] = Nil
      BY <1>2, <1>5, KeyFacts
    <2>2. \A n \in 1..Len(from) : e.fields[from[n]] # Nil
      BY <1>1, <2>1 DEF Whole
    <2>3. \A n \in 1..Len(from) : after[from[n]] = e.fields[from[n]]
      BY <1>3, <2>2
    <2> QED BY <1>2, <1>5, <2>3, KeySame DEF KeyAfter
  <1> QED BY <1>4, <1>5

LEMMA CachedKey ==
    ASSUME NEW from \in Seq(Fields), \A n \in 1..Len(from) : Followed(from[n]),
           NEW s \in States, NEW t \in States, Agree(s, t), NEW id \in Ids
    PROVE  /\ s[id] = NoDoc <=> t[id] = NoDoc
           /\ s[id] # NoDoc => Key(s[id], from) = Key(t[id], from)
  <1>1. s[id] = NoDoc <=> t[id] = NoDoc
    BY DEF Agree
  <1>2. ASSUME s[id] # NoDoc
        PROVE  Key(s[id], from) = Key(t[id], from)
    <2>1. s[id] \in Docs /\ t[id] \in Docs
      BY <1>1, <1>2 DEF States
    <2>2. \A n \in 1..Len(from) : s[id][from[n]] = t[id][from[n]]
      BY <1>2 DEF Agree
    <2> QED BY <2>1, <2>2, KeySame
  <1> QED BY <1>1, <1>2

-----------------------------------------------------------------------------
(* The unique index.                                                       *)

(* What the code needs of a unique index: every document has a key, no     *)
(* update takes it away, and no field of it is a slice.                    *)
UniqueKeyed ==
    /\ Whole(UniqueFrom)
    /\ \A u \in Updates, n \in 1..Len(UniqueFrom) : UniqueFrom[n] \notin u.removed
    /\ \A doc \in Inserts : Key(doc, UniqueFrom) # <<>>
    /\ \A v \in Values : Elements[v] = {v}

HasKey(doc, key) == doc # NoDoc /\ key = Key(doc, UniqueFrom)

Keyed(s) == \A id \in Ids : s[id] # NoDoc => Key(s[id], UniqueFrom) # <<>>

(* Documents with the same key are the same document.                      *)
Unlike(s) == \A key \in Keys(UniqueFrom), i, j \in Ids : HasKey(s[i], key) /\ HasKey(s[j], key) => i = j

(* The index leads from every key to the document with the key in s.       *)
Leads(index, s) == \A key \in Keys(UniqueFrom), id \in Ids : index[key] = id <=> HasKey(s[id], key)

(* How far the unique index is.                                            *)
UniqueReached == IF stage = "before" /\ "unique" \in todo THEN taken ELSE taken + 1

UniqueInv ==
    /\ \A k \in 1..Len(log) : Meant(log[k])
    /\ \A k \in 1..Len(history) : Apart(history[k]) /\ Keyed(history[k])
    /\ Leads(unique, history[UniqueReached])

LEMMA ApartUnlike ==
    ASSUME UniqueKeyed, NEW s \in States, Apart(s)
    PROVE  Unlike(s)
  <1> SUFFICES ASSUME NEW key \in Keys(UniqueFrom), NEW i \in Ids, NEW j \in Ids,
                      HasKey(s[i], key), HasKey(s[j], key), i # j
               PROVE  FALSE
    BY DEF Unlike
  <1>1. s[i] \in Docs /\ s[j] \in Docs /\ key # <<>>
    BY DEF HasKey, States, Keys
  <1>2. key \in KeysOf(s[i], UniqueFrom) /\ key \in KeysOf(s[j], UniqueFrom)
    BY <1>1, KeysOfScalars, EntityStoreAssumption DEF HasKey, UniqueKeyed
  <1> QED BY <1>2 DEF Apart, HasKey

(* A write leaves every document with a key.                               *)
LEMMA WriteKeyed ==
    ASSUME UniqueKeyed, NEW before \in States, NEW after \in States, NEW e \in Events,
           Did(before, after, e), Meant(e), Keyed(before)
    PROVE  Keyed(after)
  <1> SUFFICES ASSUME NEW id \in Ids, after[id] # NoDoc
               PROVE  Key(after[id], UniqueFrom) # <<>>
    BY DEF Keyed
  <1>1. CASE id # e.id
    BY <1>1 DEF Did, Keyed
  <1>2. CASE id = e.id /\ e.op = "insert"
    BY <1>2 DEF Did, Meant, UniqueKeyed
  <1>3. CASE id = e.id /\ e.op = "update"
    <2>1. /\ before[id] \in Docs /\ before[id] # NoDoc /\ after[id] \in Docs
          /\ \A f \in Fields : Followed(f) =>
                after[id][f] = Merge(before[id], e.fields, e.removed)[f]
      BY <1>3 DEF Did, States
    <2>2. \A n \in 1..Len(UniqueFrom) : UniqueFrom[n] \notin e.removed
      BY <1>3 DEF Meant, UniqueKeyed
    <2>3. Key(after[id], UniqueFrom) = KeyAfter(e, Key(before[id], UniqueFrom), UniqueFrom)
      BY <1>3, <2>1, <2>2, UpdatedKey, EntityStoreAssumption DEF UniqueKeyed
    <2>4. Key(before[id], UniqueFrom) # <<>>
      BY <2>1 DEF Keyed
    <2> QED BY <2>3, <2>4 DEF KeyAfter
  <1>4. CASE id = e.id /\ e.op = "delete"
    BY <1>4 DEF Did
  <1> QED BY <1>1, <1>2, <1>3, <1>4 DEF Events, Ops

LEMMA SameKeys ==
    ASSUME NEW doc, NEW id
    PROVE  /\ Unique!KeysOf(doc, UniqueFrom) = KeysOf(doc, UniqueFrom)
           /\ Unique!Key(doc, UniqueFrom) = Key(doc, UniqueFrom)
           /\ Unique!Keys(UniqueFrom) = Keys(UniqueFrom)
           /\ Unique!Target(id, doc, Nil) = id
  BY DEF Unique!KeysOf, KeysOf, Unique!Key, Key, Unique!Keys, Keys, Unique!Target

(* What the three methods do to the index, if `old' is the key of the      *)
(* cached document.                                                        *)
LEMMA UniqueMethods ==
    ASSUME UniqueKeyed, NEW id \in Ids, NEW set \in Docs
    PROVE  /\ Unique!Add(id, set) /\ Key(set, UniqueFrom) # <<>> =>
                 \A key \in Keys(UniqueFrom) :
                    unique'[key] = IF key = Key(set, UniqueFrom) THEN id ELSE unique[key]
           /\ cache[id] \in Docs /\ Key(cache[id], UniqueFrom) # <<>> /\ cache[id] # NoDoc =>
                 /\ Unique!Update(id, set) /\ Key(set, UniqueFrom) = <<>> => unique' = unique
                 /\ Unique!Update(id, set) /\ Key(set, UniqueFrom) # <<>> =>
                       LET new == Key(set, UniqueFrom)
                           old == Key(cache[id], UniqueFrom)
                       IN \A key \in Keys(UniqueFrom) :
                             unique'[key] = IF key = new /\ key # old THEN id
                                            ELSE IF key = old /\ key # new THEN Nil
                                            ELSE unique[key]
                 /\ Unique!Delete(id) =>
                       \A key \in Keys(UniqueFrom) :
                          unique'[key] = IF key = Key(cache[id], UniqueFrom) THEN Nil ELSE unique[key]
  <1>1. ASSUME Unique!Add(id, set), Key(set, UniqueFrom) # <<>>, NEW key \in Keys(UniqueFrom)
        PROVE  unique'[key] = IF key = Key(set, UniqueFrom) THEN id ELSE unique[key]
    <2>1. KeysOf(set, UniqueFrom) = {Key(set, UniqueFrom)}
      BY <1>1, KeysOfScalars, EntityStoreAssumption DEF UniqueKeyed
    <2> QED BY <1>1, <2>1, SameKeys DEF Unique!Add
  <1> SUFFICES ASSUME cache[id] \in Docs, Key(cache[id], UniqueFrom) # <<>>, cache[id] # NoDoc
               PROVE  /\ Unique!Update(id, set) /\ Key(set, UniqueFrom) = <<>> => unique' = unique
                      /\ Unique!Update(id, set) /\ Key(set, UniqueFrom) # <<>> =>
                            \A key \in Keys(UniqueFrom) :
                               unique'[key] =
                                  IF key = Key(set, UniqueFrom) /\ key # Key(cache[id], UniqueFrom) THEN id
                                  ELSE IF key = Key(cache[id], UniqueFrom) /\ key # Key(set, UniqueFrom) THEN Nil
                                  ELSE unique[key]
                      /\ Unique!Delete(id) =>
                            \A key \in Keys(UniqueFrom) :
                               unique'[key] = IF key = Key(cache[id], UniqueFrom) THEN Nil ELSE unique[key]
    BY <1>1
  <1>2. KeysOf(cache[id], UniqueFrom) = {Key(cache[id], UniqueFrom)}
    BY KeysOfScalars, EntityStoreAssumption DEF UniqueKeyed
  <1>3. ASSUME Unique!Update(id, set), Key(set, UniqueFrom) = <<>>
        PROVE  unique' = unique
    <2>1. KeysOf(set, UniqueFrom) = {}
      BY <1>3 DEF KeysOf
    <2> QED BY <1>3, <2>1, SameKeys DEF Unique!Update
  <1>4. ASSUME Unique!Update(id, set), Key(set, UniqueFrom) # <<>>, NEW key \in Keys(UniqueFrom)
        PROVE  unique'[key] =
                  IF key = Key(set, UniqueFrom) /\ key # Key(cache[id], UniqueFrom) THEN id
                  ELSE IF key = Key(cache[id], UniqueFrom) /\ key # Key(set, UniqueFrom) THEN Nil
                  ELSE unique[key]
    <2>1. KeysOf(set, UniqueFrom) = {Key(set, UniqueFrom)}
      BY <1>4, KeysOfScalars, EntityStoreAssumption DEF UniqueKeyed
    <2> QED BY <1>2, <1>4, <2>1, SameKeys DEF Unique!Update
  <1>5. ASSUME Unique!Delete(id), NEW key \in Keys(UniqueFrom)
        PROVE  unique'[key] = IF key = Key(cache[id], UniqueFrom) THEN Nil ELSE unique[key]
    BY <1>5, SameKeys DEF Unique!Delete
  <1> QED BY <1>3, <1>4, <1>5

(* The index takes the step from one state of the collection to the next.  *)
LEMMA UniqueFollows ==
    ASSUME UniqueKeyed, NEW before \in States, NEW after \in States, NEW e \in Events,
           Did(before, after, e), Meant(e), Keyed(before), Unlike(before), Unlike(after),
           cache \in States, Agree(cache, before), Leads(unique, before),
           e.op = "insert" => Unique!Add(e.id, e.fields),
           e.op = "update" => Unique!Update(e.id, e.fields),
           e.op = "delete" => Unique!Delete(e.id)
    PROVE  Leads(unique', after)
  <1> DEFINE i == e.id
             new == Key(e.fields, UniqueFrom)
             old == Key(cache[i], UniqueFrom)
  <1>1. /\ i \in Ids /\ e.fields \in Docs /\ e.op \in Ops
        /\ \A j \in Ids \ {i} : after[j] = before[j]
    BY DEF Events, Did
  <1>2. before[i] # NoDoc => /\ cache[i] \in Docs /\ cache[i] # NoDoc /\ old # <<>>
                             /\ old = Key(before[i], UniqueFrom)
    <2>1. /\ cache[i] = NoDoc <=> before[i] = NoDoc
          /\ cache[i] # NoDoc => old = Key(before[i], UniqueFrom)
      <3>1. UniqueFrom \in Seq(Fields) /\ \A n \in 1..Len(UniqueFrom) : Followed(UniqueFrom[n])
        BY EntityStoreAssumption DEF UniqueKeyed, Whole
      <3> QED BY <1>1, <3>1, CachedKey
    <2> QED BY <1>1, <2>1 DEF States, Keyed
  <1> SUFFICES ASSUME NEW key \in Keys(UniqueFrom), NEW j \in Ids
               PROVE  unique'[key] = j <=> HasKey(after[j], key)
    BY DEF Leads
  <1>3. unique[key] = j <=> HasKey(before[j], key)
    BY DEF Leads
  <1>4. unique[key] = i <=> HasKey(before[i], key)
    BY <1>1 DEF Leads
  <1>5. j # i => (HasKey(after[j], key) <=> HasKey(before[j], key))
    BY <1>1
  <1>6. CASE e.op = "insert"
    <2>1. before[i] = NoDoc /\ after[i] = e.fields /\ new # <<>>
      BY <1>6 DEF Did, Meant, UniqueKeyed
    <2>2. unique'[key] = IF key = new THEN i ELSE unique[key]
      BY <1>1, <1>6, <2>1, UniqueMethods
    <2>3. HasKey(after[i], key) <=> key = new
      BY <1>1, <2>1, NoDocNoDocument DEF HasKey
    <2>4. ~ HasKey(before[i], key)
      BY <2>1 DEF HasKey
    <2>5. j # i /\ HasKey(after[j], key) => ~ HasKey(after[i], key)
      BY <1>1 DEF Unlike
    <2> QED BY <1>3, <1>4, <1>5, <2>2, <2>3, <2>4, <2>5
  <1>7. CASE e.op = "update"
    <2>1. /\ before[i] # NoDoc /\ after[i] # NoDoc /\ before[i] \in Docs /\ after[i] \in Docs
          /\ \A f \in Fields : Followed(f) =>
                after[i][f] = Merge(before[i], e.fields, e.removed)[f]
      BY <1>1, <1>7 DEF Did, States
    <2>2. \A n \in 1..Len(UniqueFrom) : UniqueFrom[n] \notin e.removed
      BY <1>7 DEF Meant, UniqueKeyed
    <2>3. Key(after[i], UniqueFrom) = IF new = <<>> THEN old ELSE new
      BY <1>2, <1>7, <2>1, <2>2, UpdatedKey, EntityStoreAssumption DEF UniqueKeyed, KeyAfter
    <2>4. HasKey(before[i], key) <=> key = old
      BY <1>2, <2>1 DEF HasKey
    <2>5. HasKey(after[i], key) <=> key = IF new = <<>> THEN old ELSE new
      BY <2>1, <2>3 DEF HasKey
    <2>6. j # i /\ HasKey(after[j], key) => ~ HasKey(after[i], key)
      BY <1>1 DEF Unlike
    <2>7. j # i /\ HasKey(before[j], key) => ~ HasKey(before[i], key)
      BY <1>1 DEF Unlike
    <2>8. CASE new = <<>>
      <3>1. unique' = unique
        BY <1>1, <1>2, <1>7, <2>1, <2>8, UniqueMethods
      <3> QED BY <1>3, <1>4, <1>5, <2>4, <2>5, <2>8, <3>1
    <2>9. CASE new # <<>>
      <3>1. unique'[key] = IF key = new /\ key # old THEN i
                           ELSE IF key = old /\ key # new THEN Nil
                           ELSE unique[key]
        BY <1>1, <1>2, <1>7, <2>1, <2>9, UniqueMethods
      <3>2. j # Nil /\ i # Nil
        BY <1>1, DocumentsAssumption
      <3> QED BY <1>3, <1>4, <1>5, <2>4, <2>5, <2>6, <2>7, <2>9, <3>1, <3>2
    <2> QED BY <2>8, <2>9
  <1>8. CASE e.op = "delete"
    <2>1. after[i] = NoDoc
      BY <1>8 DEF Did
    <2>2. CASE before[i] = NoDoc
      <3>1. cache[i] = NoDoc
        BY <1>1, <2>2 DEF Agree
      <3>2. unique' = unique
        BY <1>8, <3>1 DEF Unique!Delete
      <3> QED BY <1>3, <1>4, <1>5, <2>1, <2>2, <3>2 DEF HasKey
    <2>3. CASE before[i] # NoDoc
      <3>1. unique'[key] = IF key = old THEN Nil ELSE unique[key]
        BY <1>1, <1>2, <1>8, <2>3, UniqueMethods
      <3>2. j # Nil
        BY DocumentsAssumption
      <3>3. HasKey(before[i], key) <=> key = old
        BY <1>2, <2>3 DEF HasKey
      <3>4. j # i /\ HasKey(before[j], key) => ~ HasKey(before[i], key)
        BY <1>1 DEF Unlike
      <3>5. ~ HasKey(after[i], key)
        BY <2>1 DEF HasKey
      <3> QED BY <1>3, <1>4, <1>5, <3>1, <3>2, <3>3, <3>4, <3>5
    <2> QED BY <2>2, <2>3
  <1> QED BY <1>1, <1>6, <1>7, <1>8 DEF Ops

(* A write adds an event and a state, both of which are as they must be.   *)
LEMMA UniqueWrite ==
    ASSUME UniqueKeyed, Inv, UniqueInv, NEW e \in Events, NEW state \in States, Wrote(e, state)
    PROVE  UniqueInv'
  <1> DEFINE n == Len(log)
  <1>1. /\ n \in Nat /\ Len(log') = n + 1 /\ Len(history) = n + 1 /\ Len(history') = n + 2
        /\ \A k \in 1..n : log'[k] = log[k]
        /\ log'[n + 1] = e
        /\ \A k \in 1..(n + 1) : history'[k] = history[k]
        /\ history'[n + 2] = state
        /\ db = history[n + 1]
    BY WroteFacts
  <1>2. /\ stage' = stage /\ todo' = todo /\ taken' = taken /\ unique' = unique
        /\ Did(db, state, e) /\ Meant(e) /\ (Apart(db) => Apart(state))
    BY DEF Wrote, listenerVars, indexVars
  <1>3. UniqueReached \in 1..(n + 1)
    BY StateFacts DEF Inv, Typed, UniqueReached
  <1> HIDE DEF n
  <1>4. \A k \in 1..(n + 1) : Meant(log'[k])
    <2>1. \A k \in 1..(n + 1) : k \in 1..n \/ k = n + 1
      BY <1>1
    <2>2. \A k \in 1..n : Meant(log[k])
      BY DEF UniqueInv, n
    <2> QED BY <1>1, <1>2, <2>1, <2>2
  <1>5. Apart(state) /\ Keyed(state)
    <2>1. n + 1 \in 1..Len(history)
      BY <1>1
    <2>2. Apart(db) /\ Keyed(db) /\ db \in States
      BY <1>1, <2>1, StateFacts DEF UniqueInv, Inv
    <2> QED BY <1>2, <2>2, WriteKeyed
  <1>6. \A k \in 1..(n + 2) : Apart(history'[k]) /\ Keyed(history'[k])
    <2>1. \A k \in 1..(n + 2) : k \in 1..(n + 1) \/ k = n + 2
      BY <1>1
    <2>2. \A k \in 1..(n + 1) : Apart(history[k]) /\ Keyed(history[k])
      BY <1>1 DEF UniqueInv
    <2> QED BY <1>1, <1>5, <2>1, <2>2
  <1>7. Leads(unique', history'[UniqueReached'])
    <2>1. UniqueReached' = UniqueReached
      BY <1>2 DEF UniqueReached
    <2>2. history'[UniqueReached'] = history[UniqueReached]
      BY <1>1, <1>3, <2>1
    <2> QED BY <1>2, <2>2 DEF UniqueInv
  <1> QED BY <1>1, <1>4, <1>6, <1>7 DEF UniqueInv

LEMMA UniqueEvent ==
    ASSUME UniqueKeyed, Inv, UniqueInv, BeforeUnique
    PROVE  UniqueInv'
  <1>1. /\ stage = "before" /\ "unique" \in todo /\ todo' = todo \ {"unique"}
        /\ history' = history /\ log' = log /\ taken' = taken /\ stage' = stage
    BY DEF BeforeUnique, CallBefore, mongoVars
  <1>2. /\ event.op = "insert" => Unique!Add(event.id, event.fields)
        /\ event.op = "update" => Unique!Update(event.id, event.fields)
        /\ event.op = "delete" => Unique!Delete(event.id)
    BY DEF BeforeUnique
  <1>3. /\ taken \in 1..Len(log) /\ event \in Events /\ Len(history) = Len(log) + 1
        /\ history[taken] \in States /\ history[taken + 1] \in States
        /\ Did(history[taken], history[taken + 1], event)
        /\ cache \in States /\ Agree(cache, history[taken])
    BY <1>1, EventFacts, StateFacts DEF Inv, CacheOK, Reached
  <1>4. /\ Meant(event) /\ Keyed(history[taken])
        /\ Apart(history[taken]) /\ Apart(history[taken + 1])
        /\ Leads(unique, history[taken])
    <2>1. taken \in 1..Len(history) /\ taken + 1 \in 1..Len(history)
      BY <1>3
    <2> QED BY <1>1, <1>3, <2>1 DEF UniqueInv, UniqueReached, event
  <1>5. Unlike(history[taken]) /\ Unlike(history[taken + 1])
    BY <1>3, <1>4, ApartUnlike
  <1>6. Leads(unique', history[taken + 1])
    BY <1>2, <1>3, <1>4, <1>5, UniqueFollows
  <1>7. UniqueReached' = taken + 1
    BY <1>1 DEF UniqueReached
  <1> QED BY <1>1, <1>6, <1>7 DEF UniqueInv

(* All other steps leave the unique index where it is.                     *)
UniqueRests ==
    /\ UNCHANGED <<history, log, unique>>
    /\ UniqueReached' = UniqueReached

LEMMA UniqueStepKinds ==
    ASSUME Inv, [Next]_vars
    PROVE  SomeoneWrote \/ BeforeUnique \/ UniqueRests
  <1> USE DEF UniqueRests, UniqueReached, mongoVars
  <1>1. Receive => UniqueRests
    BY StateFacts DEF Receive, indexVars, BeforeListeners, Inv
  <1>2. BeforeInverse \/ BeforeSorted \/ BeforeSuffix => UniqueRests
    BY DEF BeforeInverse, BeforeSorted, BeforeSuffix, CallBefore
  <1>3. Apply => UniqueRests
    BY DEF Apply, indexVars
  <1>4. AfterSuffix => UniqueRests
    BY DEF AfterSuffix
  <1>5. ASSUME NEW n \in DOMAIN itemsByIndex, GetByIndex(n)
        PROVE  UniqueRests
    BY <1>5 DEF GetByIndex, indexVars, listenerVars
  <1>6. UNCHANGED vars => UniqueRests
    BY DEF vars, indexVars, listenerVars
  <1> HIDE DEF UniqueRests
  <1>7. Handle => BeforeUnique \/ UniqueRests
    BY <1>1, <1>2, <1>3, <1>4 DEF Handle
  <1>8. ASSUME NEW id \in Ids,
               \/ \E doc \in Inserts : Insert(id, doc)
               \/ \E u \in Updates : Modify(id, u)
               \/ Remove(id)
        PROVE  SomeoneWrote
    BY <1>8, WriteKinds, StateFacts DEF Inv
  <1>9. Next => SomeoneWrote \/ BeforeUnique \/ UniqueRests
    BY <1>5, <1>7, <1>8 DEF Next
  <1> QED BY <1>6, <1>9

LEMMA UniqueInvInit == Init => UniqueInv
  <1> SUFFICES ASSUME Init PROVE UniqueInv
    OBVIOUS
  <1> DEFINE empty == [id \in Ids |-> NoDoc]
  <1>1. /\ history = <<empty>> /\ log = <<>> /\ taken = 0 /\ stage = "idle"
        /\ unique = [key \in Keys(UniqueFrom) |-> Nil]
    BY SameKeys DEF Init, Unique!Init
  <1>2. UniqueReached = 1 /\ Len(history) = 1 /\ history[1] = empty /\ Len(log) = 0
    BY <1>1 DEF UniqueReached
  <1>3. Apart(empty) /\ Keyed(empty)
    BY DEF Apart, Keyed
  <1>4. Leads(unique, empty)
    BY <1>1, DocumentsAssumption DEF Leads, HasKey
  <1> HIDE DEF empty
  <1> QED BY <1>2, <1>3, <1>4 DEF UniqueInv

LEMMA UniqueInvStep ==
    ASSUME UniqueKeyed
    PROVE  Inv /\ UniqueInv /\ [Next]_vars => UniqueInv'
  <1>1. Inv /\ UniqueInv /\ SomeoneWrote => UniqueInv'
    BY UniqueWrite DEF SomeoneWrote
  <1>2. UniqueInv /\ UniqueRests => UniqueInv'
    BY DEF UniqueInv, UniqueRests
  <1> QED BY <1>1, <1>2, UniqueEvent, UniqueStepKinds

LEMMA UniqueInvExact ==
    ASSUME UniqueKeyed, Inv, UniqueInv
    PROVE  UniqueExact
  <1> SUFFICES ASSUME NEW id \in Settled, NEW key \in Keys(UniqueFrom)
               PROVE  unique[key] = id <=> cache[id] # NoDoc /\ key \in KeysOf(cache[id], UniqueFrom)
    BY DEF UniqueExact, Unique!Get
  <1>1. /\ id \in Ids /\ key # <<>> /\ cache \in States /\ history[Reached] \in States
        /\ Agree(cache, history[Reached])
    BY StateFacts DEF Settled, Keys, Inv, CacheOK
  <1>2. unique[key] = id <=> HasKey(history[UniqueReached][id], key)
    BY <1>1 DEF UniqueInv, Leads
  <1>3. history[UniqueReached][id] = history[Reached][id]
    <2>1. CASE stage = "idle"
      BY <2>1 DEF Reached, UniqueReached
    <2>2. CASE stage # "idle"
      <3>1. id # event.id /\ Did(history[taken], history[taken + 1], event)
        BY <2>2, EventFacts DEF Settled
      <3>2. history[taken][id] = history[taken + 1][id]
        BY <1>1, <3>1 DEF Did
      <3> QED BY <2>2, <3>2 DEF Reached, UniqueReached
    <2> QED BY <2>1, <2>2
  <1>4. /\ cache[id] = NoDoc <=> history[Reached][id] = NoDoc
        /\ cache[id] # NoDoc => Key(cache[id], UniqueFrom) = Key(history[Reached][id], UniqueFrom)
    <2>1. UniqueFrom \in Seq(Fields) /\ \A n \in 1..Len(UniqueFrom) : Followed(UniqueFrom[n])
      BY EntityStoreAssumption DEF UniqueKeyed, Whole
    <2> QED BY <1>1, <2>1, CachedKey
  <1>5. HasKey(cache[id], key) <=> HasKey(history[Reached][id], key)
    BY <1>4 DEF HasKey
  <1>6. cache[id] # NoDoc => (key \in KeysOf(cache[id], UniqueFrom) <=> key = Key(cache[id], UniqueFrom))
    <2>1. ASSUME cache[id] # NoDoc
          PROVE  KeysOf(cache[id], UniqueFrom) = IF Key(cache[id], UniqueFrom) = <<>> THEN {}
                                                 ELSE {Key(cache[id], UniqueFrom)}
      BY <1>1, <2>1, KeysOfScalars, EntityStoreAssumption DEF UniqueKeyed, States
    <2> QED BY <1>1, <2>1
  <1> QED BY <1>2, <1>3, <1>5, <1>6 DEF HasKey

(* A lookup in the unique index finds the one cached document with the     *)
(* key, whoever had the key before and wherever the Listener is, provided  *)
(* every document has a key and no update takes it away or changes a part  *)
(* of it only, and the fields are no slices.                               *)
THEOREM UniqueIsExact ==
    ASSUME UniqueKeyed
    PROVE  Spec => []UniqueExact
  <1>1. Inv /\ UniqueInv => UniqueExact
    BY UniqueInvExact
  <1>2. Inv /\ UniqueInv /\ [Next]_vars => UniqueInv'
    BY UniqueInvStep
  <1> QED BY <1>1, <1>2, UniqueInvInit, Invariance, PTL DEF Spec

-----------------------------------------------------------------------------
(* The inverse index: its lists, and those of the facts about lists.       *)
LEMMA SameCardinality ==
    ASSUME NEW S
    PROVE  Cardinality(S) = ListFacts!Cardinality(S)
  BY DEF Cardinality, ListFacts!Cardinality

LEMMA SameTimes ==
    ASSUME NEW list, NEW x
    PROVE  Times(list, x) = ListFacts!Times(list, x)
  BY SameCardinality DEF Times, ListFacts!Times, ListFacts!Positions

LEMMA SameRemoveFirst ==
    ASSUME NEW list, NEW x
    PROVE  Inverse!RemoveFirst(list, x) = ListFacts!RemoveFirst(list, x)
  BY DEF Inverse!RemoveFirst, ListFacts!RemoveFirst, Inverse!RemoveAt, ListFacts!RemoveAt,
         Inverse!SelectInSeq, ListFacts!SelectInSeq, Inverse!Min, ListFacts!Min

LEMMA HowOften ==
    ASSUME NEW S, NEW list \in Seq(S), NEW x
    PROVE  Times(list, x) \in Nat /\ (Inverse!Contains(list, x) <=> Times(list, x) # 0)
  BY SameTimes, ListFacts!TimesType DEF Inverse!Contains, ListFacts!Contains

LEMMA AtMostOne ==
    ASSUME NEW S, NEW x, S \subseteq {x}
    PROVE  Cardinality(S) <= 1
  <1>1. S = {} \/ S = {x}
    OBVIOUS
  <1>2. Cardinality(S) = 0 \/ Cardinality(S) = 1
    <2>1. ListFacts!Cardinality({}) = 0
      BY ListFacts!FS_EmptySet
    <2>2. ListFacts!Cardinality({x}) = 1
      BY ListFacts!FS_Singleton
    <2> QED BY <1>1, <2>1, <2>2, SameCardinality
  <1> QED BY <1>2

-----------------------------------------------------------------------------
(* Lists under keys, with an entry added or taken away.                    *)
Put(data, key, x) == [data EXCEPT ![key] = Append(@, x)]
Taken(data, key, x) == [data EXCEPT ![key] = Inverse!RemoveFirst(@, x)]

Adds(after, before, K, k, e) ==
    \A key \in K : \A x :
       Times(after[key], x) =
          IF key = k /\ x = e THEN Times(before[key], x) + 1 ELSE Times(before[key], x)

Takes(after, before, K, k, e) ==
    \A key \in K : \A x :
       Times(after[key], x) =
          IF key = k /\ x = e /\ Times(before[key], x) # 0 THEN Times(before[key], x) - 1
          ELSE Times(before[key], x)

LEMMA PutFacts ==
    ASSUME NEW K, NEW S, NEW data \in [K -> Seq(S)], NEW k \in K, NEW e \in S
    PROVE  Put(data, k, e) \in [K -> Seq(S)] /\ Adds(Put(data, k, e), data, K, k, e)
  <1>1. Append(data[k], e) \in Seq(S)
    OBVIOUS
  <1>2. /\ Put(data, k, e) \in [K -> Seq(S)]
        /\ Put(data, k, e)[k] = Append(data[k], e)
        /\ \A key \in K \ {k} : Put(data, k, e)[key] = data[key]
    BY <1>1 DEF Put
  <1>3. ASSUME NEW x
        PROVE  Times(Append(data[k], e), x) = IF x = e THEN Times(data[k], x) + 1 ELSE Times(data[k], x)
    BY SameTimes, ListFacts!TimesAppend
  <1> QED BY <1>2, <1>3 DEF Adds

LEMMA TakenFacts ==
    ASSUME NEW K, NEW S, NEW data \in [K -> Seq(S)], NEW k \in K, NEW e
    PROVE  Taken(data, k, e) \in [K -> Seq(S)] /\ Takes(Taken(data, k, e), data, K, k, e)
  <1>1. /\ Inverse!RemoveFirst(data[k], e) \in Seq(S)
        /\ \A x : Times(Inverse!RemoveFirst(data[k], e), x) =
                     IF x = e /\ Times(data[k], x) # 0 THEN Times(data[k], x) - 1 ELSE Times(data[k], x)
    BY SameRemoveFirst, SameTimes, ListFacts!RemoveFirstFacts
  <1>2. /\ Taken(data, k, e) \in [K -> Seq(S)]
        /\ Taken(data, k, e)[k] = Inverse!RemoveFirst(data[k], e)
        /\ \A key \in K \ {k} : Taken(data, k, e)[key] = data[key]
    BY <1>1 DEF Taken
  <1> QED BY <1>1, <1>2 DEF Takes

LEMMA InverseSame ==
    ASSUME NEW doc, NEW id
    PROVE  /\ Inverse!Key(doc, InverseFrom) = Key(doc, InverseFrom)
           /\ Inverse!Keys(InverseFrom) = Keys(InverseFrom)
           /\ Inverse!Target(id, doc, Nil) = id
  BY DEF Inverse!Key, Key, Inverse!Keys, Keys, Inverse!Target

-----------------------------------------------------------------------------
(* The three methods.                                                      *)

OthersKept(id) ==
    \A x \in Ids \ {id} :
       /\ \A key \in Keys(InverseFrom) : Times(inverse'[key], x) = Times(inverse[key], x)
       /\ Times(inverseNil', x) = Times(inverseNil, x)

(* How often a document remains under a key when it is taken from the old. *)
Kept(id, old, key) ==
    IF key = old /\ Times(inverse[key], id) # 0 THEN Times(inverse[key], id) - 1
    ELSE Times(inverse[key], id)

LEMMA ListTypes ==
    Inverse!TypeOK <=> /\ inverse \in [Keys(InverseFrom) -> Seq(Ids \cup Values)]
                       /\ inverseNil \in Seq(Ids \cup Values)
  BY InverseSame DEF Inverse!TypeOK

LEMMA NilAppend ==
    ASSUME Inverse!TypeOK, NEW id \in Ids
    PROVE  /\ Append(inverseNil, id) \in Seq(Ids \cup Values)
           /\ \A x : Times(Append(inverseNil, id), x) =
                        IF x = id THEN Times(inverseNil, x) + 1 ELSE Times(inverseNil, x)
  <1>1. inverseNil \in Seq(Ids \cup Values) /\ id \in Ids \cup Values
    BY ListTypes
  <1>2. Append(inverseNil, id) \in Seq(Ids \cup Values)
    BY <1>1, AppendFacts
  <1>3. ASSUME NEW x
        PROVE  Times(Append(inverseNil, id), x) =
                  IF x = id THEN Times(inverseNil, x) + 1 ELSE Times(inverseNil, x)
    BY <1>1, SameTimes, ListFacts!TimesAppend
  <1> QED BY <1>2, <1>3

LEMMA NilTaken ==
    ASSUME Inverse!TypeOK, NEW id \in Ids
    PROVE  /\ Inverse!RemoveFirst(inverseNil, id) \in Seq(Ids \cup Values)
           /\ \A x : x # id => Times(Inverse!RemoveFirst(inverseNil, id), x) = Times(inverseNil, x)
  <1>1. inverseNil \in Seq(Ids \cup Values)
    BY ListTypes
  <1> QED BY <1>1, SameRemoveFirst, SameTimes, ListFacts!RemoveFirstFacts

LEMMA AddMethod ==
    ASSUME To = Nil, Inverse!TypeOK, NEW id \in Ids, NEW doc \in Docs, Inverse!Add(id, doc)
    PROVE  /\ Inverse!TypeOK' /\ OthersKept(id)
           /\ \A key \in Keys(InverseFrom) :
                 Times(inverse'[key], id) =
                    IF key = Key(doc, InverseFrom) /\ Times(inverse[key], id) = 0 THEN 1
                    ELSE Times(inverse[key], id)
           /\ Key(doc, InverseFrom) = <<>> => Times(inverseNil', id) >= 1
  <1> DEFINE new == Key(doc, InverseFrom)
  <1>1. /\ inverse \in [Keys(InverseFrom) -> Seq(Ids \cup Values)]
        /\ inverseNil \in Seq(Ids \cup Values) /\ id \in Ids \cup Values
        /\ new # <<>> => new \in Keys(InverseFrom)
    BY ListTypes, KeyFacts, EntityStoreAssumption
  <1> HIDE DEF new
  <1>2. CASE new = <<>>
    <2>1. inverse' = inverse /\ inverseNil' = Append(inverseNil, id)
      BY <1>2, InverseSame DEF Inverse!Add, new
    <2>2. Times(inverseNil, id) \in Nat
      BY <1>1, HowOften
    <2>3. \A key \in Keys(InverseFrom) : key # new
      BY <1>2 DEF Keys
    <2> QED BY <1>1, <1>2, <2>1, <2>2, <2>3, NilAppend, ListTypes DEF OthersKept, Inverse!TypeOK, new
  <1>3. CASE new # <<>>
    <2>1. /\ inverseNil' = inverseNil
          /\ inverse' = [inverse EXCEPT ![new] = IF Inverse!Contains(@, id) THEN @ ELSE Append(@, id)]
      BY <1>3, InverseSame DEF Inverse!Add, new
    <2>2. inverse[new] \in Seq(Ids \cup Values) /\ new \in Keys(InverseFrom)
      BY <1>1, <1>3
    <2>3. Inverse!Contains(inverse[new], id) <=> Times(inverse[new], id) # 0
      BY <2>2, HowOften
    <2>4. CASE Times(inverse[new], id) # 0
      <3>1. inverse' = inverse
        BY <1>1, <2>1, <2>3, <2>4
      <3> QED BY <1>3, <2>1, <2>4, <3>1, ListTypes DEF OthersKept, Inverse!TypeOK, new
    <2>5. CASE Times(inverse[new], id) = 0
      <3>1. inverse' = Put(inverse, new, id)
        BY <1>1, <2>1, <2>3, <2>5 DEF Put
      <3>2. /\ inverse' \in [Keys(InverseFrom) -> Seq(Ids \cup Values)]
            /\ Adds(inverse', inverse, Keys(InverseFrom), new, id)
        BY <1>1, <2>2, <3>1, PutFacts
      <3>3. Inverse!TypeOK'
        BY <1>1, <2>1, <3>2, InverseSame DEF Inverse!TypeOK
      <3>4. OthersKept(id)
        BY <2>1, <3>2 DEF OthersKept, Adds
      <3>5. ASSUME NEW key \in Keys(InverseFrom)
            PROVE  Times(inverse'[key], id) =
                      IF key = new /\ Times(inverse[key], id) = 0 THEN 1 ELSE Times(inverse[key], id)
        BY <2>5, <3>2 DEF Adds
      <3> QED BY <1>3, <3>3, <3>4, <3>5 DEF new
    <2> QED BY <2>4, <2>5
  <1> QED BY <1>2, <1>3

LEMMA UpdateMethod ==
    ASSUME To = Nil, Inverse!TypeOK, NEW id \in Ids, NEW set \in Docs, cache[id] \in Docs,
           Inverse!Update(id, set)
    PROVE  LET new == Key(set, InverseFrom)
               old == Key(cache[id], InverseFrom)
           IN /\ Inverse!TypeOK' /\ OthersKept(id)
              /\ new = <<>> => inverse' = inverse /\ inverseNil' = inverseNil
              /\ new # <<>> =>
                    \A key \in Keys(InverseFrom) :
                       Times(inverse'[key], id) =
                          IF key = new THEN Kept(id, old, key) + 1 ELSE Kept(id, old, key)
  <1> DEFINE new == Key(set, InverseFrom)
             old == Key(cache[id], InverseFrom)
             S == Ids \cup Values
             K == Keys(InverseFrom)
  <1>1. /\ inverse \in [K -> Seq(S)] /\ inverseNil \in Seq(S) /\ id \in S
        /\ new # <<>> => new \in K
        /\ old # <<>> => old \in K
        /\ cache[id] # NoDoc
    BY ListTypes, KeyFacts, EntityStoreAssumption, NoDocNoDocument
  <1>2. /\ new = <<>> => inverse' = inverse /\ inverseNil' = inverseNil
        /\ new # <<>> /\ old = <<>> => /\ inverse' = Put(inverse, new, id)
                                       /\ inverseNil' = Inverse!RemoveFirst(inverseNil, id)
        /\ new # <<>> /\ old # <<>> => /\ inverse' = Put(Taken(inverse, old, id), new, id)
                                       /\ inverseNil' = inverseNil
    BY <1>1, InverseSame DEF Inverse!Update, Put, Taken
  <1> HIDE DEF new, old, S, K
  <1>3. CASE new = <<>>
    BY <1>2, <1>3, ListTypes DEF OthersKept, Inverse!TypeOK, new
  <1>4. ASSUME new # <<>>, NEW data \in [K -> Seq(S)], inverse' = Put(data, new, id),
               inverseNil' \in Seq(S),
               \A x : x # id => Times(inverseNil', x) = Times(inverseNil, x),
               \A key \in K : \A x : Times(data[key], x) =
                                      IF x = id THEN Kept(id, old, key) ELSE Times(inverse[key], x)
        PROVE  /\ Inverse!TypeOK' /\ OthersKept(id)
               /\ \A key \in K : Times(inverse'[key], id) =
                                    IF key = new THEN Kept(id, old, key) + 1 ELSE Kept(id, old, key)
    <2>1. new \in K /\ id \in S
      BY <1>1, <1>4
    <2>2. inverse' \in [K -> Seq(S)] /\ Adds(inverse', data, K, new, id)
      BY <2>1, <1>4, PutFacts
    <2>3. Inverse!TypeOK'
      BY <1>4, <2>2, InverseSame DEF Inverse!TypeOK, S, K
    <2>4. OthersKept(id)
      BY <1>4, <2>2 DEF OthersKept, Adds, K
    <2> QED BY <1>4, <2>2, <2>3, <2>4 DEF Adds
  <1>5. CASE new # <<>> /\ old = <<>>
    <2>1. \A key \in K : Kept(id, old, key) = Times(inverse[key], id)
      BY <1>5 DEF Kept, K, Keys
    <2>2. inverseNil' \in Seq(S) /\ \A x : x # id => Times(inverseNil', x) = Times(inverseNil, x)
      BY <1>2, <1>5, NilTaken DEF S
    <2> QED BY <1>1, <1>2, <1>4, <1>5, <2>1, <2>2 DEF new, old, K
  <1>6. CASE new # <<>> /\ old # <<>>
    <2> DEFINE data == Taken(inverse, old, id)
    <2>1. old \in K
      BY <1>1, <1>6
    <2>2. data \in [K -> Seq(S)] /\ Takes(data, inverse, K, old, id)
      BY <1>1, <2>1, TakenFacts
    <2>3. inverse' = Put(data, new, id) /\ inverseNil' = inverseNil
      BY <1>2, <1>6
    <2> HIDE DEF data
    <2>4. \A key \in K : \A x : Times(data[key], x) =
                                 IF x = id THEN Kept(id, old, key) ELSE Times(inverse[key], x)
      BY <2>2 DEF Kept, Takes
    <2>5. inverseNil' \in Seq(S) /\ \A x : x # id => Times(inverseNil', x) = Times(inverseNil, x)
      BY <1>1, <2>3
    <2> QED BY <1>4, <1>6, <2>2, <2>3, <2>4, <2>5 DEF new, old, K
  <1> QED BY <1>3, <1>5, <1>6

LEMMA DeleteMethod ==
    ASSUME To = Nil, Inverse!TypeOK, NEW id \in Ids, cache[id] \in Docs, Inverse!Delete(id)
    PROVE  /\ Inverse!TypeOK' /\ OthersKept(id)
           /\ \A key \in Keys(InverseFrom) :
                 Times(inverse'[key], id) = Kept(id, Key(cache[id], InverseFrom), key)
  <1> DEFINE old == Key(cache[id], InverseFrom)
  <1>1. /\ inverse \in [Keys(InverseFrom) -> Seq(Ids \cup Values)]
        /\ inverseNil \in Seq(Ids \cup Values)
        /\ old # <<>> => old \in Keys(InverseFrom)
        /\ cache[id] # NoDoc
    BY ListTypes, KeyFacts, EntityStoreAssumption, NoDocNoDocument
  <1>2. /\ old = <<>> => inverse' = inverse /\ inverseNil' = Append(inverseNil, id)
        /\ old # <<>> => inverse' = Taken(inverse, old, id) /\ inverseNil' = inverseNil
    BY <1>1, InverseSame DEF Inverse!Delete, Taken
  <1> HIDE DEF old
  <1>3. CASE old = <<>>
    <2>1. \A key \in Keys(InverseFrom) : key # old
      BY <1>3 DEF Keys
    <2> QED BY <1>1, <1>2, <1>3, <2>1, NilAppend, ListTypes
            DEF OthersKept, Inverse!TypeOK, Kept, old
  <1>4. CASE old # <<>>
    <2>1. old \in Keys(InverseFrom)
      BY <1>1, <1>4
    <2>2. /\ Taken(inverse, old, id) \in [Keys(InverseFrom) -> Seq(Ids \cup Values)]
          /\ Takes(Taken(inverse, old, id), inverse, Keys(InverseFrom), old, id)
      BY <1>1, <2>1, TakenFacts
    <2>3. inverse' = Taken(inverse, old, id) /\ inverseNil' = inverseNil
      BY <1>2, <1>4
    <2>4. Inverse!TypeOK'
      BY <1>1, <2>2, <2>3, InverseSame DEF Inverse!TypeOK
    <2>5. OthersKept(id)
      BY <2>2, <2>3 DEF OthersKept, Takes
    <2> QED BY <2>2, <2>3, <2>4, <2>5 DEF Kept, Takes, old
  <1> QED BY <1>3, <1>4

-----------------------------------------------------------------------------
(* The index and a state of the collection.                                *)

Holds(doc, key) == doc # NoDoc /\ Key(doc, InverseFrom) = key

(* The document is listed once under its key in s, and nowhere else.       *)
Exactly(s, id) ==
    /\ \A key \in Keys(InverseFrom) :
          Times(inverse[key], id) = IF Holds(s[id], key) THEN 1 ELSE 0
    /\ Holds(s[id], <<>>) => Times(inverseNil, id) >= 1

(* It is listed under its key in s, and perhaps elsewhere.                 *)
Finds(s, id) ==
    \A key \in Keys(InverseFrom) : Holds(s[id], key) => Times(inverse[key], id) >= 1

(* The event removes none of the fields of the index, or all of them.      *)
RemovesNone(e) == \A n \in 1..Len(InverseFrom) : InverseFrom[n] \notin e.removed
RemovesAll(e) == \A n \in 1..Len(InverseFrom) : InverseFrom[n] \in e.removed

(* The event is one the index can follow, and the index follows it.        *)
Follows(before, after, e) ==
    /\ To = Nil /\ Whole(InverseFrom)
    /\ Did(before, after, e) /\ Meant(e)
    /\ cache \in States /\ Agree(cache, before)
    /\ Inverse!TypeOK
    /\ e.op = "insert" => Inverse!Add(e.id, e.fields)
    /\ e.op = "update" => Inverse!Update(e.id, e.fields)
    /\ e.op = "delete" => Inverse!Delete(e.id)

LEMMA CachedInverseKey ==
    ASSUME NEW before \in States, NEW after \in States, NEW e \in Events, Follows(before, after, e)
    PROVE  IF before[e.id] = NoDoc THEN cache[e.id] = NoDoc
           ELSE /\ cache[e.id] \in Docs /\ cache[e.id] # NoDoc /\ before[e.id] \in Docs
                /\ Key(cache[e.id], InverseFrom) = Key(before[e.id], InverseFrom)
  <1>1. /\ e.id \in Ids /\ cache \in States /\ Agree(cache, before)
        /\ InverseFrom \in Seq(Fields) /\ \A n \in 1..Len(InverseFrom) : Followed(InverseFrom[n])
    BY EntityStoreAssumption DEF Events, Follows, Whole
  <1>2. /\ cache[e.id] = NoDoc <=> before[e.id] = NoDoc
        /\ cache[e.id] # NoDoc => Key(cache[e.id], InverseFrom) = Key(before[e.id], InverseFrom)
    BY <1>1, CachedKey
  <1> QED BY <1>1, <1>2 DEF States

(* The key after an update.                                                *)
LEMMA InverseUpdatedKey ==
    ASSUME NEW before \in States, NEW after \in States, NEW e \in Events, Follows(before, after, e),
           e.op = "update"
    PROVE  /\ before[e.id] # NoDoc /\ after[e.id] # NoDoc
           /\ RemovesNone(e) => Key(after[e.id], InverseFrom) =
                                   KeyAfter(e, Key(before[e.id], InverseFrom), InverseFrom)
           /\ RemovesAll(e) => Key(after[e.id], InverseFrom) = <<>>
  <1>1. /\ before[e.id] # NoDoc /\ after[e.id] # NoDoc
        /\ before[e.id] \in Docs /\ after[e.id] \in Docs
        /\ Whole(InverseFrom) /\ Meant(e) /\ InverseFrom \in Seq(Fields)
        /\ \A f \in Fields : Followed(f) =>
              after[e.id][f] = Merge(before[e.id], e.fields, e.removed)[f]
    BY EntityStoreAssumption DEF Follows, Did, States, Events
  <1>2. ASSUME RemovesNone(e)
        PROVE  Key(after[e.id], InverseFrom) = KeyAfter(e, Key(before[e.id], InverseFrom), InverseFrom)
    BY <1>1, <1>2, UpdatedKey DEF RemovesNone
  <1>3. ASSUME RemovesAll(e)
        PROVE  Key(after[e.id], InverseFrom) = <<>>
    <2>1. PICK u \in Updates : e.removed = u.removed
      BY <1>1 DEF Meant
    <2>2. ASSUME NEW n \in 1..Len(InverseFrom)
          PROVE  after[e.id][InverseFrom[n]] = Nil
      <3>1. InverseFrom[n] \in Fields /\ InverseFrom[n] \in e.removed \ Nested
        BY <1>1, <1>3, <2>1 DEF RemovesAll, Whole, Followed
      <3>2. after[e.id][InverseFrom[n]] = Merge(before[e.id], e.fields, e.removed)[InverseFrom[n]]
        BY <1>1, <3>1 DEF Whole
      <3> QED BY <3>1, <3>2 DEF Merge
    <2> QED BY <1>1, <2>2, KeyFacts
  <1> QED BY <1>1, <1>2, <1>3

LEMMA OthersFollow ==
    ASSUME NEW before \in States, NEW after \in States, NEW e \in Events,
           Did(before, after, e), OthersKept(e.id), NEW id \in Ids \ {e.id}
    PROVE  /\ Exactly(before, id) => Exactly(after, id)'
           /\ Finds(before, id) => Finds(after, id)'
  <1>1. after[id] = before[id]
    BY DEF Did
  <1> QED BY <1>1 DEF OthersKept, Exactly, Finds

LEMMA InsertFollows ==
    ASSUME NEW before \in States, NEW after \in States, NEW e \in Events, Follows(before, after, e),
           e.op = "insert"
    PROVE  /\ Inverse!TypeOK' /\ OthersKept(e.id)
           /\ Exactly(before, e.id) => Exactly(after, e.id)'
           /\ Finds(after, e.id)'
  <1> DEFINE i == e.id
             new == Key(e.fields, InverseFrom)
  <1>1. /\ before[i] = NoDoc /\ after[i] = e.fields /\ i \in Ids /\ e.fields \in Docs
        /\ To = Nil /\ Inverse!TypeOK /\ Inverse!Add(i, e.fields)
    BY DEF Follows, Did, Events
  <1>2. \A key : Holds(after[i], key) <=> key = new
    BY <1>1, NoDocNoDocument DEF Holds
  <1>3. \A key : ~ Holds(before[i], key)
    BY <1>1 DEF Holds
  <1>4. /\ Inverse!TypeOK' /\ OthersKept(i)
        /\ \A key \in Keys(InverseFrom) :
              Times(inverse'[key], i) = IF key = new /\ Times(inverse[key], i) = 0 THEN 1
                                        ELSE Times(inverse[key], i)
        /\ new = <<>> => Times(inverseNil', i) >= 1
    BY <1>1, AddMethod
  <1>5. \A key \in Keys(InverseFrom) : Times(inverse[key], i) \in Nat
    <2>1. inverse \in [Keys(InverseFrom) -> Seq(Ids \cup Values)]
      BY <1>1, ListTypes
    <2> QED BY <2>1, HowOften
  <1> HIDE DEF new
  <1>6. Exactly(before, i) => Exactly(after, i)'
    BY <1>2, <1>3, <1>4 DEF Exactly
  <1>7. Finds(after, i)'
    BY <1>2, <1>4, <1>5 DEF Finds
  <1> QED BY <1>4, <1>6, <1>7

LEMMA KeptNumber ==
    ASSUME Inverse!TypeOK, NEW id \in Ids, NEW old, NEW key \in Keys(InverseFrom)
    PROVE  Kept(id, old, key) \in Nat /\ Times(inverse[key], id) \in Nat
  <1>1. inverse[key] \in Seq(Ids \cup Values)
    BY ListTypes
  <1>2. Times(inverse[key], id) \in Nat
    BY <1>1, HowOften
  <1> QED BY <1>2 DEF Kept

LEMMA UpdateFollows ==
    ASSUME NEW before \in States, NEW after \in States, NEW e \in Events, Follows(before, after, e),
           e.op = "update"
    PROVE  /\ Inverse!TypeOK' /\ OthersKept(e.id)
           /\ RemovesNone(e) /\ Exactly(before, e.id) => Exactly(after, e.id)'
           /\ RemovesNone(e) \/ RemovesAll(e) => (Finds(before, e.id) => Finds(after, e.id)')
  <1> DEFINE i == e.id
             new == Key(e.fields, InverseFrom)
             old == Key(cache[i], InverseFrom)
  <1>1. /\ i \in Ids /\ e.fields \in Docs /\ To = Nil /\ Inverse!TypeOK
        /\ Inverse!Update(i, e.fields)
    BY DEF Follows, Events
  <1>2. before[i] # NoDoc /\ after[i] # NoDoc
    BY InverseUpdatedKey
  <1>3. cache[i] \in Docs /\ old = Key(before[i], InverseFrom)
    BY <1>2, CachedInverseKey
  <1>4. /\ Inverse!TypeOK' /\ OthersKept(i)
        /\ new = <<>> => inverse' = inverse /\ inverseNil' = inverseNil
        /\ new # <<>> =>
              \A key \in Keys(InverseFrom) :
                 Times(inverse'[key], i) = IF key = new THEN Kept(i, old, key) + 1 ELSE Kept(i, old, key)
    BY <1>1, <1>3, UpdateMethod
  <1>5. RemovesNone(e) => Key(after[i], InverseFrom) = IF new = <<>> THEN old ELSE new
    BY <1>3, InverseUpdatedKey DEF KeyAfter
  <1>6. RemovesAll(e) => Key(after[i], InverseFrom) = <<>>
    BY InverseUpdatedKey
  <1> HIDE DEF new, old
  <1>7. ASSUME RemovesNone(e), Exactly(before, i)
        PROVE  Exactly(after, i)'
    <2>1. CASE new = <<>>
      BY <1>2, <1>3, <1>4, <1>5, <1>7, <2>1 DEF Exactly, Holds
    <2>2. CASE new # <<>>
      <3>1. \A key \in Keys(InverseFrom) : Kept(i, old, key) = 0
        BY <1>2, <1>3, <1>7 DEF Kept, Exactly, Holds
      <3>2. \A key : Holds(after[i], key) <=> key = new
        BY <1>2, <1>5, <1>7, <2>2 DEF Holds
      <3> QED BY <1>4, <2>2, <3>1, <3>2 DEF Exactly
    <2> QED BY <2>1, <2>2
  <1>8. ASSUME RemovesNone(e), Finds(before, i)
        PROVE  Finds(after, i)'
    <2>1. CASE new = <<>>
      BY <1>2, <1>3, <1>4, <1>5, <1>8, <2>1 DEF Finds, Holds
    <2>2. CASE new # <<>>
      <3>1. \A key \in Keys(InverseFrom) : Kept(i, old, key) \in Nat
        BY <1>1, KeptNumber
      <3>2. \A key : Holds(after[i], key) <=> key = new
        BY <1>2, <1>5, <1>8, <2>2 DEF Holds
      <3> QED BY <1>4, <2>2, <3>1, <3>2 DEF Finds
    <2> QED BY <2>1, <2>2
  <1>9. RemovesAll(e) => Finds(after, i)'
    BY <1>6 DEF Finds, Holds, Keys
  <1> QED BY <1>4, <1>7, <1>8, <1>9

LEMMA DeleteFollows ==
    ASSUME NEW before \in States, NEW after \in States, NEW e \in Events, Follows(before, after, e),
           e.op = "delete"
    PROVE  /\ Inverse!TypeOK' /\ OthersKept(e.id)
           /\ Exactly(before, e.id) => Exactly(after, e.id)'
           /\ Finds(after, e.id)'
  <1> DEFINE i == e.id
             old == Key(cache[i], InverseFrom)
  <1>1. /\ after[i] = NoDoc /\ i \in Ids /\ To = Nil /\ Inverse!TypeOK /\ Inverse!Delete(i)
    BY DEF Follows, Did, Events
  <1>2. \A key : ~ Holds(after[i], key)
    BY <1>1 DEF Holds
  <1>3. Finds(after, i)'
    BY <1>2 DEF Finds
  <1>4. CASE before[i] = NoDoc
    <2>1. cache[i] = NoDoc
      BY <1>4, CachedInverseKey
    <2>2. inverse' = inverse /\ inverseNil' = inverseNil
      BY <1>1, <2>1 DEF Inverse!Delete
    <2>3. \A key : ~ Holds(before[i], key)
      BY <1>4 DEF Holds
    <2> QED BY <1>1, <1>2, <1>3, <2>2, <2>3, ListTypes DEF Exactly, OthersKept, Inverse!TypeOK
  <1>5. CASE before[i] # NoDoc
    <2>1. cache[i] \in Docs /\ old = Key(before[i], InverseFrom)
      BY <1>5, CachedInverseKey
    <2>2. /\ Inverse!TypeOK' /\ OthersKept(i)
          /\ \A key \in Keys(InverseFrom) : Times(inverse'[key], i) = Kept(i, old, key)
      BY <1>1, <2>1, DeleteMethod
    <2> HIDE DEF old
    <2>3. ASSUME Exactly(before, i)
          PROVE  Exactly(after, i)'
      <3>1. \A key \in Keys(InverseFrom) : Kept(i, old, key) = 0
        BY <1>5, <2>1, <2>3 DEF Kept, Exactly, Holds
      <3> QED BY <1>2, <2>2, <3>1 DEF Exactly
    <2> QED BY <1>3, <2>2, <2>3
  <1> QED BY <1>4, <1>5

LEMMA InverseFollows ==
    ASSUME NEW before \in States, NEW after \in States, NEW e \in Events, Follows(before, after, e)
    PROVE  /\ Inverse!TypeOK'
           /\ \A id \in Ids : Exactly(before, id) /\ (id = e.id /\ e.op = "update" => RemovesNone(e)) =>
                 Exactly(after, id)'
           /\ (e.op = "update" => RemovesNone(e) \/ RemovesAll(e)) =>
                 \A id \in Ids : Finds(before, id) => Finds(after, id)'
  <1>1. /\ Inverse!TypeOK' /\ OthersKept(e.id)
        /\ Exactly(before, e.id) /\ (e.op = "update" => RemovesNone(e)) => Exactly(after, e.id)'
        /\ (e.op = "update" => RemovesNone(e) \/ RemovesAll(e)) =>
              (Finds(before, e.id) => Finds(after, e.id)')
    BY InsertFollows, UpdateFollows, DeleteFollows DEF Events, Ops
  <1>2. ASSUME NEW id \in Ids \ {e.id}
        PROVE  /\ Exactly(before, id) => Exactly(after, id)'
               /\ Finds(before, id) => Finds(after, id)'
    BY <1>1, OthersFollow DEF Follows
  <1>3. ASSUME NEW id \in Ids, Exactly(before, id), id = e.id /\ e.op = "update" => RemovesNone(e)
        PROVE  Exactly(after, id)'
    BY <1>1, <1>2, <1>3
  <1>4. ASSUME e.op = "update" => RemovesNone(e) \/ RemovesAll(e), NEW id \in Ids, Finds(before, id)
        PROVE  Finds(after, id)'
    BY <1>1, <1>2, <1>4
  <1> QED BY <1>1, <1>3, <1>4

-----------------------------------------------------------------------------
(* The invariants.                                                         *)

(* What the code needs of an inverse index: it lists ids, and every update *)
(* brings new values for all its fields or for none.                       *)
InverseWhole == To = Nil /\ Whole(InverseFrom)

(* An update takes away all the fields or none.                            *)
RemovedWhole ==
    \A u \in Updates :
       \/ \A n \in 1..Len(InverseFrom) : InverseFrom[n] \notin u.removed
       \/ \A n \in 1..Len(InverseFrom) : InverseFrom[n] \in u.removed

(* How far the inverse index is.                                           *)
InverseReached == IF stage = "before" /\ "inverse" \in todo THEN taken ELSE taken + 1

InverseInv ==
    /\ \A k \in 1..Len(log) : Meant(log[k])
    /\ Inverse!TypeOK
    /\ \A id \in Ids \ LostKey : Exactly(history[InverseReached], id)

InverseFound == \A id \in Ids : Finds(history[InverseReached], id)

LEMMA InverseWrite ==
    ASSUME Inv, InverseInv, NEW e \in Events, NEW state \in States, Wrote(e, state)
    PROVE  InverseInv' /\ (InverseFound => InverseFound')
  <1> DEFINE n == Len(log)
             s == history[InverseReached]
  <1>1. /\ n \in Nat /\ Len(log') = n + 1
        /\ \A k \in 1..n : log'[k] = log[k]
        /\ log'[n + 1] = e
        /\ \A k \in 1..(n + 1) : history'[k] = history[k]
    BY WroteFacts
  <1>2. /\ stage' = stage /\ todo' = todo /\ taken' = taken
        /\ inverse' = inverse /\ inverseNil' = inverseNil /\ Meant(e)
    BY DEF Wrote, listenerVars, indexVars, inverseVars
  <1>3. InverseReached \in 1..(n + 1) /\ taken \in 0..n
    BY StateFacts DEF Inv, Typed, InverseReached
  <1>4. \A k \in 1..(n + 1) : Meant(log'[k])
    <2>1. \A k \in 1..(n + 1) : k \in 1..n \/ k = n + 1
      BY <1>1
    <2>2. \A k \in 1..n : Meant(log[k])
      BY DEF InverseInv
    <2> QED BY <1>1, <1>2, <2>1, <2>2
  <1>5. history'[InverseReached'] = s
    <2>1. InverseReached' = InverseReached
      BY <1>2 DEF InverseReached
    <2> QED BY <1>1, <1>3, <2>1
  <1>6. LostKey' = LostKey
    <2>1. \A k \in 1..taken : log'[k] = log[k]
      BY <1>1, <1>3
    <2> QED BY <1>2, <2>1 DEF LostKey
  <1>7. Inverse!TypeOK'
    BY <1>2 DEF InverseInv, Inverse!TypeOK
  <1> HIDE DEF n, s
  <1>8. ASSUME NEW id \in Ids \ LostKey
        PROVE  Exactly(history[InverseReached], id)'
    <2>1. Exactly(s, id)
      BY DEF InverseInv, s
    <2> QED BY <1>2, <1>5, <2>1 DEF Exactly
  <1>9. ASSUME InverseFound, NEW id \in Ids
        PROVE  Finds(history[InverseReached], id)'
    <2>1. Finds(s, id)
      BY <1>9 DEF InverseFound, s
    <2> QED BY <1>2, <1>5, <2>1 DEF Finds
  <1>10. InverseInv'
    BY <1>1, <1>4, <1>6, <1>7, <1>8 DEF InverseInv
  <1> QED BY <1>9, <1>10 DEF InverseFound

(* A document that has lost no key was in no event that takes one.         *)
LEMMA NotLost ==
    ASSUME Inv, stage = "before", event.id \notin LostKey
    PROVE  RemovesNone(event)
  <1>1. taken \in 1..taken
    BY EventFacts
  <1>2. event.removed \cap Lists!ToSet(InverseFrom) = {}
    BY <1>1 DEF LostKey, event
  <1>3. \A n \in 1..Len(InverseFrom) : InverseFrom[n] \in Lists!ToSet(InverseFrom)
    BY EntityStoreAssumption DEF Lists!ToSet
  <1> QED BY <1>2, <1>3 DEF RemovesNone

LEMMA InverseEvent ==
    ASSUME InverseWhole, Inv, InverseInv, BeforeInverse
    PROVE  InverseInv' /\ (RemovedWhole /\ InverseFound => InverseFound')
  <1>1. /\ stage = "before" /\ "inverse" \in todo /\ todo' = todo \ {"inverse"}
        /\ history' = history /\ log' = log /\ taken' = taken /\ stage' = stage
    BY DEF BeforeInverse, CallBefore, mongoVars
  <1>2. /\ event.op = "insert" => Inverse!Add(event.id, event.fields)
        /\ event.op = "update" => Inverse!Update(event.id, event.fields)
        /\ event.op = "delete" => Inverse!Delete(event.id)
    BY DEF BeforeInverse
  <1>3. /\ taken \in 1..Len(log) /\ event \in Events
        /\ history[taken] \in States /\ history[taken + 1] \in States
        /\ Did(history[taken], history[taken + 1], event)
        /\ cache \in States /\ Agree(cache, history[taken])
    BY <1>1, EventFacts, StateFacts DEF Inv, CacheOK, Reached
  <1>. PICK before \in States, after \in States, e \in Events :
               before = history[taken] /\ after = history[taken + 1] /\ e = event
    BY <1>3
  <1>4. Meant(e)
    BY <1>3 DEF InverseInv, event
  <1>5. Follows(before, after, e)
    BY <1>2, <1>3, <1>4 DEF Follows, InverseWhole, InverseInv
  <1>6. /\ InverseReached = taken /\ InverseReached' = taken + 1
        /\ history'[InverseReached'] = after /\ LostKey' = LostKey
    BY <1>1 DEF InverseReached, LostKey
  <1>7. /\ Inverse!TypeOK'
        /\ \A id \in Ids :
              Exactly(before, id) /\ (id = e.id /\ e.op = "update" => RemovesNone(e)) =>
                 Exactly(after, id)'
        /\ (e.op = "update" => RemovesNone(e) \/ RemovesAll(e)) =>
              \A id \in Ids : Finds(before, id) => Finds(after, id)'
    BY <1>3, <1>5, InverseFollows
  <1>8. RemovedWhole => (e.op = "update" => RemovesNone(e) \/ RemovesAll(e))
    BY <1>4 DEF Meant, RemovedWhole, RemovesNone, RemovesAll
  <1>9. \A id \in Ids \ LostKey : Exactly(before, id)
    BY <1>6 DEF InverseInv
  <1>10. \A id \in Ids \ LostKey : id = e.id => RemovesNone(e)
    BY <1>1, NotLost
  <1>11. ASSUME NEW id \in Ids \ LostKey
         PROVE  Exactly(history[InverseReached], id)'
    <2>1. Exactly(after, id)'
      BY <1>7, <1>9, <1>10
    <2> QED BY <1>6, <2>1 DEF Exactly
  <1>12. InverseInv'
    BY <1>1, <1>6, <1>7, <1>11 DEF InverseInv
  <1>13. ASSUME RemovedWhole, InverseFound, NEW id \in Ids
         PROVE  Finds(history[InverseReached], id)'
    <2>1. Finds(before, id)
      BY <1>6, <1>13 DEF InverseFound
    <2>2. Finds(after, id)'
      BY <1>7, <1>8, <1>13, <2>1
    <2> QED BY <1>6, <2>2 DEF Finds
  <1> QED BY <1>12, <1>13 DEF InverseFound

(* All other steps leave the inverse index where it is; the next event may *)
(* be one that takes a key away.                                           *)
InverseRests ==
    /\ UNCHANGED <<history, log, inverse, inverseNil>>
    /\ InverseReached' = InverseReached
    /\ LostKey \subseteq LostKey'

LEMMA InverseStepKinds ==
    ASSUME Inv, [Next]_vars
    PROVE  SomeoneWrote \/ BeforeInverse \/ InverseRests
  <1> USE DEF InverseRests, InverseReached, LostKey, mongoVars, inverseVars
  <1>1. Receive => InverseRests
    <2>1. taken \in Nat
      BY StateFacts DEF Inv
    <2> QED BY <2>1 DEF Receive, indexVars, BeforeListeners
  <1>2. BeforeUnique \/ BeforeSorted \/ BeforeSuffix => InverseRests
    BY DEF BeforeUnique, BeforeSorted, BeforeSuffix, CallBefore
  <1>3. Apply => InverseRests
    BY DEF Apply, indexVars
  <1>4. AfterSuffix => InverseRests
    BY DEF AfterSuffix
  <1>5. ASSUME NEW n \in DOMAIN itemsByIndex, GetByIndex(n)
        PROVE  InverseRests
    BY <1>5 DEF GetByIndex, indexVars, listenerVars
  <1>6. UNCHANGED vars => InverseRests
    BY DEF vars, indexVars, listenerVars
  <1> HIDE DEF InverseRests
  <1>7. Handle => BeforeInverse \/ InverseRests
    BY <1>1, <1>2, <1>3, <1>4 DEF Handle
  <1>8. ASSUME NEW id \in Ids,
               \/ \E doc \in Inserts : Insert(id, doc)
               \/ \E u \in Updates : Modify(id, u)
               \/ Remove(id)
        PROVE  SomeoneWrote
    BY <1>8, WriteKinds, StateFacts DEF Inv
  <1>9. Next => SomeoneWrote \/ BeforeInverse \/ InverseRests
    BY <1>5, <1>7, <1>8 DEF Next
  <1> QED BY <1>6, <1>9

LEMMA InverseRest ==
    ASSUME InverseInv, InverseRests
    PROVE  InverseInv' /\ (InverseFound => InverseFound')
  <1>1. /\ history' = history /\ log' = log /\ inverse' = inverse /\ inverseNil' = inverseNil
        /\ InverseReached' = InverseReached /\ LostKey \subseteq LostKey'
        /\ history'[InverseReached'] = history[InverseReached]
    BY DEF InverseRests
  <1>2. ASSUME NEW id \in Ids \ LostKey'
        PROVE  Exactly(history[InverseReached], id)'
    <2>1. Exactly(history[InverseReached], id)
      BY <1>1 DEF InverseInv
    <2> QED BY <1>1, <2>1 DEF Exactly
  <1>3. ASSUME InverseFound, NEW id \in Ids
        PROVE  Finds(history[InverseReached], id)'
    <2>1. Finds(history[InverseReached], id)
      BY <1>3 DEF InverseFound
    <2> QED BY <1>1, <2>1 DEF Finds
  <1>4. Inverse!TypeOK'
    BY <1>1 DEF InverseInv, Inverse!TypeOK
  <1>5. InverseInv'
    BY <1>1, <1>2, <1>4 DEF InverseInv
  <1> QED BY <1>3, <1>5 DEF InverseFound

LEMMA InverseInvInit == Init => InverseInv /\ InverseFound
  <1> SUFFICES ASSUME Init PROVE InverseInv /\ InverseFound
    OBVIOUS
  <1> DEFINE empty == [id \in Ids |-> NoDoc]
  <1>1. /\ history = <<empty>> /\ log = <<>> /\ taken = 0 /\ stage = "idle"
        /\ inverse = [key \in Keys(InverseFrom) |-> <<>>] /\ inverseNil = <<>>
    BY InverseSame DEF Init, Inverse!Init
  <1>2. InverseReached = 1 /\ history[1] = empty /\ Len(log) = 0
    BY <1>1 DEF InverseReached
  <1>3. \A id \in Ids : \A key : ~ Holds(empty[id], key)
    BY DEF Holds
  <1>4. \A key \in Keys(InverseFrom), id \in Ids : Times(inverse[key], id) = 0
    BY <1>1, SameTimes, ListFacts!TimesEmpty
  <1>5. Inverse!TypeOK
    BY <1>1, ListTypes
  <1> HIDE DEF empty
  <1>6. \A id \in Ids : Exactly(empty, id) /\ Finds(empty, id)
    BY <1>3, <1>4 DEF Exactly, Finds
  <1> QED BY <1>2, <1>5, <1>6 DEF InverseInv, InverseFound

LEMMA InverseInvStep ==
    ASSUME InverseWhole
    PROVE  /\ Inv /\ InverseInv /\ [Next]_vars => InverseInv'
           /\ RemovedWhole /\ Inv /\ InverseInv /\ InverseFound /\ [Next]_vars => InverseFound'
  <1>1. Inv /\ InverseInv /\ SomeoneWrote => InverseInv' /\ (InverseFound => InverseFound')
    BY InverseWrite DEF SomeoneWrote
  <1> QED BY <1>1, InverseRest, InverseEvent, InverseStepKinds

-----------------------------------------------------------------------------
(* The properties.                                                         *)

LEMMA Lookups ==
    /\ \A key \in Keys(InverseFrom) : Inverse!Get(key) = inverse[key]
    /\ Inverse!Get(<<Nil>>) = inverseNil
  <1>1. ASSUME NEW key \in Keys(InverseFrom)
        PROVE  Inverse!Get(key) = inverse[key]
    <2>1. key \in Seq(Values) /\ key # <<>> /\ key[1] \in Values
      BY DEF Keys
    <2>2. key[1] # Nil
      BY <2>1, DocumentsAssumption
    <2>3. Inverse!Key(key, [n \in DOMAIN key |-> n]) = key
      BY <2>1, KeyOfList DEF Inverse!Key, Key
    <2> QED BY <2>1, <2>2, <2>3 DEF Inverse!Get
  <1>2. Inverse!Get(<<Nil>>) = inverseNil
    BY DEF Inverse!Get
  <1> QED BY <1>1, <1>2

(* A document that no event is changing is, for the index, as it is in the *)
(* cache.                                                                  *)
LEMMA SettledKey ==
    ASSUME InverseWhole, Inv, NEW id \in Settled, NEW key
    PROVE  /\ Holds(history[InverseReached][id], key) <=> Holds(cache[id], key)
           /\ Due(id, key) = IF Holds(cache[id], key) THEN 1 ELSE 0
  <1>1. /\ id \in Ids /\ cache \in States /\ history[Reached] \in States
        /\ Agree(cache, history[Reached])
    BY StateFacts DEF Settled, Inv, CacheOK
  <1>2. history[InverseReached][id] = history[Reached][id]
    <2>1. CASE stage = "idle"
      BY <2>1 DEF Reached, InverseReached
    <2>2. CASE stage # "idle"
      <3>1. id # event.id /\ Did(history[taken], history[taken + 1], event)
        BY <2>2, EventFacts DEF Settled
      <3>2. history[taken][id] = history[taken + 1][id]
        BY <1>1, <3>1 DEF Did
      <3> QED BY <2>2, <3>2 DEF Reached, InverseReached
    <2> QED BY <2>1, <2>2
  <1>3. /\ cache[id] = NoDoc <=> history[Reached][id] = NoDoc
        /\ cache[id] # NoDoc => Key(cache[id], InverseFrom) = Key(history[Reached][id], InverseFrom)
    <2>1. InverseFrom \in Seq(Fields) /\ \A n \in 1..Len(InverseFrom) : Followed(InverseFrom[n])
      BY EntityStoreAssumption DEF InverseWhole, Whole
    <2> QED BY <1>1, <2>1, CachedKey
  <1> QED BY <1>2, <1>3 DEF Holds, Due

(* While an update is going through, the document keeps a key it had.      *)
LEMMA ChangingKey ==
    ASSUME InverseWhole, Inv, InverseInv, stage # "idle", event.id \notin LostKey,
           event.op = "update", cache[event.id] # NoDoc, Key(cache[event.id], InverseFrom) # <<>>
    PROVE  \E key \in Keys(InverseFrom) : Holds(history[InverseReached][event.id], key)
  <1> DEFINE id == event.id
             before == history[taken][id]
             after == history[taken + 1][id]
  <1>1. /\ taken \in 1..Len(log) /\ event \in Events /\ id \in Ids /\ event.fields \in Docs
        /\ history[taken] \in States /\ history[taken + 1] \in States
        /\ Did(history[taken], history[taken + 1], event)
        /\ InverseFrom \in Seq(Fields) /\ Whole(InverseFrom) /\ Meant(event)
    <2>1. taken \in 1..Len(log)
      BY EventFacts
    <2>2. Meant(event)
      BY <2>1 DEF InverseInv, event
    <2> QED BY <2>2, EventFacts, EntityStoreAssumption DEF Events, InverseWhole
  <1>2. /\ before \in Docs /\ after \in Docs /\ before # NoDoc /\ after # NoDoc
        /\ \A f \in Fields : Followed(f) => after[f] = Merge(before, event.fields, event.removed)[f]
    BY <1>1 DEF Did, States
  <1>3. \A n \in 1..Len(InverseFrom) : InverseFrom[n] \notin event.removed
    <2>1. taken \in 1..taken
      BY EventFacts
    <2>2. event.removed \cap Lists!ToSet(InverseFrom) = {}
      BY <2>1 DEF LostKey, event
    <2>3. \A n \in 1..Len(InverseFrom) : InverseFrom[n] \in Lists!ToSet(InverseFrom)
      BY EntityStoreAssumption DEF Lists!ToSet
    <2> QED BY <2>2, <2>3
  <1>4. Key(after, InverseFrom) = KeyAfter(event, Key(before, InverseFrom), InverseFrom)
    BY <1>1, <1>2, <1>3, UpdatedKey
  <1>5. Key(cache[id], InverseFrom) = Key(history[Reached][id], InverseFrom)
    <2>1. cache \in States /\ history[Reached] \in States /\ Agree(cache, history[Reached])
      BY StateFacts DEF Inv, CacheOK
    <2> QED BY <1>1, <2>1, CachedKey DEF Whole
  <1>6. Key(history[InverseReached][id], InverseFrom) # <<>>
    <2>1. CASE stage = "after"
      BY <1>5, <2>1 DEF Reached, InverseReached
    <2>2. CASE stage = "before"
      <3>1. Key(before, InverseFrom) # <<>>
        BY <1>5, <2>2 DEF Reached
      <3>2. Key(after, InverseFrom) # <<>>
        BY <1>4, <3>1 DEF KeyAfter
      <3> QED BY <3>1, <3>2 DEF InverseReached
    <2> QED BY <2>1, <2>2 DEF Inv, Typed
  <1>7. history[InverseReached][id] \in {before, after}
    BY DEF InverseReached
  <1>8. Key(history[InverseReached][id], InverseFrom) \in Keys(InverseFrom)
    BY <1>1, <1>2, <1>6, <1>7, KeyFacts
  <1> QED BY <1>2, <1>7, <1>8 DEF Holds

LEMMA InverseInvExact ==
    ASSUME InverseWhole, Inv, InverseInv
    PROVE  InverseExact
  <1> DEFINE s == history[InverseReached]
             listed(id) == {key \in Keys(InverseFrom) : Times(inverse[key], id) # 0}
  <1>1. ASSUME NEW id \in Settled \ LostKey, NEW key \in Keys(InverseFrom)
        PROVE  Times(Inverse!Get(key), id) = Due(id, key)
    <2>1. Times(inverse[key], id) = IF Holds(s[id], key) THEN 1 ELSE 0
      BY DEF InverseInv, Exactly, Settled
    <2> QED BY <2>1, SettledKey, Lookups
  <1>2. ASSUME NEW id \in Ids \ (Settled \cup LostKey)
        PROVE  /\ \A key \in listed(id) : Times(inverse[key], id) = 1
               /\ Cardinality(listed(id)) <= 1
               /\ event.op = "update" /\ cache[id] # NoDoc /\ Key(cache[id], InverseFrom) # <<>> =>
                     listed(id) # {}
    <2>1. stage # "idle" /\ id = event.id
      BY DEF Settled
    <2>2. \A key \in Keys(InverseFrom) :
             Times(inverse[key], id) = IF Holds(s[id], key) THEN 1 ELSE 0
      BY DEF InverseInv, Exactly
    <2>3. Cardinality(listed(id)) <= 1
      <3>1. listed(id) \subseteq {Key(s[id], InverseFrom)}
        BY <2>2 DEF Holds
      <3> HIDE DEF listed
      <3> QED BY <3>1, AtMostOne
    <2>4. ASSUME event.op = "update", cache[id] # NoDoc, Key(cache[id], InverseFrom) # <<>>
          PROVE  listed(id) # {}
      <3>1. \E key \in Keys(InverseFrom) : Holds(s[id], key)
        BY <2>1, <2>4, ChangingKey
      <3> QED BY <2>2, <3>1
    <2> QED BY <2>2, <2>3, <2>4
  <1>3. ASSUME NEW id \in Ids \ (Settled \cup LostKey)
        PROVE  {key \in Keys(InverseFrom) : Times(Inverse!Get(key), id) # 0} = listed(id)
    BY Lookups
  <1> HIDE DEF listed
  <1> QED BY <1>1, <1>2, <1>3, Lookups DEF InverseExact

LEMMA InverseInvComplete ==
    ASSUME InverseWhole, Inv, InverseInv, InverseFound
    PROVE  InverseComplete
  <1>1. ASSUME NEW id \in Settled, NEW key \in Keys(InverseFrom), Due(id, key) = 1
        PROVE  Times(Inverse!Get(key), id) >= 1
    <2>1. Holds(history[InverseReached][id], key)
      BY <1>1, SettledKey
    <2> QED BY <2>1, Lookups DEF InverseFound, Finds, Settled
  <1>2. ASSUME NEW id \in Settled \ LostKey, Due(id, <<>>) = 1
        PROVE  Times(Inverse!Get(<<Nil>>), id) >= 1
    <2>1. Holds(history[InverseReached][id], <<>>)
      BY <1>2, SettledKey
    <2> QED BY <2>1, Lookups DEF InverseInv, Exactly, Settled
  <1> QED BY <1>1, <1>2 DEF InverseComplete

(* Under each key, the inverse index lists the documents that have it,     *)
(* each once, and nobody else, wherever the Listener is and whatever       *)
(* happened to them before, provided an update that brings a new value for *)
(* a field of a composite key brings all; only documents that an update    *)
(* has taken a field of the key from are left out.                         *)
THEOREM InverseIsExact ==
    ASSUME InverseWhole
    PROVE  Spec => []InverseExact
  <1>1. Inv /\ InverseInv => InverseExact
    BY InverseInvExact
  <1>2. Inv /\ InverseInv /\ [Next]_vars => InverseInv'
    BY InverseInvStep
  <1>3. Init => InverseInv
    BY InverseInvInit
  <1> QED BY <1>1, <1>2, <1>3, Invariance, PTL DEF Spec

(* A lookup misses no document, also none that has lost its key and gained *)
(* another, or was deleted and created again, provided no update takes     *)
(* away a part of a composite key only.                                    *)
THEOREM InverseMissesNone ==
    ASSUME InverseWhole, RemovedWhole
    PROVE  Spec => []InverseComplete
  <1> DEFINE Found == Inv /\ InverseInv /\ InverseFound
  <1>1. Found => InverseComplete
    BY InverseInvComplete
  <1>2. Found /\ [Next]_vars => Found'
    BY InverseInvStep, InvStep
  <1>3. Init => Found
    BY InverseInvInit, InvInit
  <1> HIDE DEF Found
  <1> QED BY <1>1, <1>2, <1>3, PTL DEF Spec
=============================================================================
