----------------------------- MODULE SuffixIndex -----------------------------
(***************************************************************************)
(* Suffix, M and S: for each trigram, the list of the documents whose text *)
(* contains it.  A document is posted under its number in the cache        *)
(* (module Cache), and is not posted while it has none.                    *)
(*                                                                         *)
(* NewSuffixIndex returns the index twice, for the Listener to call before *)
(* and after it changes the cache: NewUpdateSuffix, too, makes a Suffix.   *)
(***************************************************************************)
EXTENDS Documents, Texts, Intersections

CONSTANTS
    From, To,
    Marks           \* characters that Find drops from what it looks for

VARIABLES cache, itemsByIndex, indexByID,
    postings        \* trigram -> numbers, for the trigrams in the tree

Init == postings = <<>>

TypeOK ==
    /\ DOMAIN postings \subseteq UNION {Range(Grams(Text(key))) : key \in Keys(From)}
    /\ \A gram \in DOMAIN postings : postings[gram] \in Seq(1..Len(itemsByIndex))

-----------------------------------------------------------------------------
(* S, the tree.                                                            *)

(* get.                                                                    *)
Posted(gram) == IF gram \in DOMAIN postings THEN postings[gram] ELSE <<>>

Put(text, n) ==
    LET grams == Range(Grams(text)) IN
    [gram \in DOMAIN postings \cup grams |->
        IF gram \in grams /\ ~ Contains(Posted(gram), n) THEN Append(Posted(gram), n)
        ELSE Posted(gram)]

(* The trigram stays in the tree, be its list empty.                       *)
Withdraw(text, n) ==
    [gram \in DOMAIN postings |->
        IF gram \in Range(Grams(text)) THEN RemoveFirst(postings[gram], n)
        ELSE postings[gram]]

(* Mutation: the loop ends before the last trigram.                        *)
NumbersShort(text) ==
    LET grams == Grams(text)
        numbers[k \in DOMAIN grams] ==
            IF k = 1 THEN Posted(grams[1])
            ELSE IF k = Len(grams) THEN numbers[k - 1]
            ELSE IntersectInt(numbers[k - 1], Posted(grams[k]))
    IN IF grams = <<>> THEN <<>> ELSE numbers[Len(grams)]

(* S.Search: the numbers posted under every trigram of the text.           *)
Numbers(text) ==
    LET grams == Grams(text)
        numbers[k \in DOMAIN grams] ==     \* under the first k trigrams
            IF k = 1 THEN Posted(grams[1])
            ELSE IntersectInt(numbers[k - 1], Posted(grams[k]))
    IN IF grams = <<>> THEN <<>> ELSE numbers[Len(grams)]

(* S.Find: how many of the trigrams a number is posted under; it lists the *)
(* numbers that have any by falling counts, equal ones in any order.       *)
Hits(text, n) ==
    LET grams == Grams(Only(text, Range(text) \ Marks)) IN
    Cardinality({k \in DOMAIN grams : Contains(Posted(grams[k]), n)})

-----------------------------------------------------------------------------
(* M.Search: a number that is nobody's becomes an empty id, here Nil.      *)
Search(text) ==
    LET numbers == Numbers(text) IN [k \in DOMAIN numbers |-> itemsByIndex[numbers[k]]]

(* Number and text under which a document with the given content is to be  *)
(* posted; number 0 for none.                                              *)
Number(id, doc) ==
    LET to == Target(id, doc, To) IN
    IF Key(doc, From) # <<>> /\ to \in Ids THEN indexByID[to] ELSE 0

Contents(doc) == Text(Key(doc, From))

Add(id, doc) ==
    IF Number(id, doc) = 0 THEN UNCHANGED postings
    ELSE \E text \in {Contents(doc)} : postings' = Put(text, Number(id, doc))

(* Mutation: an update is taken for a removal.                             *)
UpdateRemoving(id) ==
    postings' = IF cache[id] = NoDoc \/ Number(id, cache[id]) = 0 THEN postings
                ELSE Withdraw(Contents(cache[id]), Number(id, cache[id]))

(* The text is that of the cached document.                                *)
Update(id) ==
    IF cache[id] = NoDoc \/ Number(id, cache[id]) = 0 THEN UNCHANGED postings
    ELSE \E text \in {Contents(cache[id])} : postings' = Put(text, Number(id, cache[id]))

Delete(id) ==
    IF cache[id] = NoDoc \/ Number(id, cache[id]) = 0 THEN UNCHANGED postings
    ELSE \E text \in {Contents(cache[id])} : postings' = Withdraw(text, Number(id, cache[id]))
=============================================================================
