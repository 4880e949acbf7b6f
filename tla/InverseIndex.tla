---------------------------- MODULE InverseIndex ----------------------------
(***************************************************************************)
(* inverseIndex: for each key, the list of the ids of the documents with   *)
(* that key, and a list of those without one.  The actions are the three   *)
(* methods the Listener calls before it changes the cache, each under the  *)
(* index's lock.                                                           *)
(***************************************************************************)
EXTENDS Documents, SequencesExt

CONSTANTS From, To

VARIABLES cache, data, nilData

Init ==
    /\ data = [key \in Keys(From) |-> <<>>]
    /\ nilData = <<>>

TypeOK ==
    /\ data \in [Keys(From) -> Seq(Ids \cup Values)]
    /\ nilData \in Seq(Ids \cup Values)

(* Get: the values that are not nil are run together as for a key; a       *)
(* lookup whose first value is nil is answered with the nil list.          *)
Get(values) ==
    IF values # <<>> /\ values[1] # Nil
    THEN data[Key(values, [n \in DOMAIN values |-> n])]
    ELSE nilData

Add(id, doc) ==
    LET key == Key(doc, From)
        to == Target(id, doc, To)
    IN IF key = <<>>
       THEN nilData' = Append(nilData, to) /\ UNCHANGED data
       ELSE /\ data' = [data EXCEPT ![key] = IF Contains(@, to) THEN @ ELSE Append(@, to)]
            /\ UNCHANGED nilData

(* Mutation: the entry under the old key stays.                            *)
UpdateKeepingOld(id, set) ==
    LET key == Key(set, From) IN
    IF key = <<>> \/ cache[id] = NoDoc
    THEN UNCHANGED <<data, nilData>>
    ELSE /\ data' = [data EXCEPT ![key] = Append(@, Target(id, cache[id], To))]
         /\ UNCHANGED nilData

(* Mutation: a document without a key is passed over.                      *)
UpdateKeyed(id, set) ==
    LET key == Key(set, From)
        old == IF cache[id] = NoDoc THEN <<>> ELSE Key(cache[id], From)
    IN IF key = <<>> \/ old = <<>>
       THEN UNCHANGED <<data, nilData>>
       ELSE /\ data' = [[data EXCEPT ![old] = RemoveFirst(@, Target(id, cache[id], To))]
                              EXCEPT ![key] = Append(@, Target(id, cache[id], To))]
            /\ UNCHANGED nilData

(* The new key is that of the updated fields alone.                        *)
Update(id, set) ==
    LET key == Key(set, From) IN
    IF key = <<>> \/ cache[id] = NoDoc
    THEN UNCHANGED <<data, nilData>>
    ELSE LET old == Key(cache[id], From)
             to == Target(id, cache[id], To)
         IN IF old = <<>>
            THEN /\ nilData' = RemoveFirst(nilData, to)
                 /\ data' = [data EXCEPT ![key] = Append(@, to)]
            ELSE /\ data' = [[data EXCEPT ![old] = RemoveFirst(@, to)]
                                   EXCEPT ![key] = Append(@, to)]
                 /\ UNCHANGED nilData

(* A document without a key is appended to the nil list once more.         *)
Delete(id) ==
    IF cache[id] = NoDoc
    THEN UNCHANGED <<data, nilData>>
    ELSE LET key == Key(cache[id], From)
             to == Target(id, cache[id], To)
         IN IF key = <<>>
            THEN nilData' = Append(nilData, to) /\ UNCHANGED data
            ELSE /\ data' = [data EXCEPT ![key] = RemoveFirst(@, to)]
                 /\ UNCHANGED nilData
=============================================================================
