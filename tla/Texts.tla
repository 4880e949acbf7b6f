------------------------------- MODULE Texts -------------------------------
(***************************************************************************)
(* The texts that the sorted and the suffix index compare and cut up: a    *)
(* text is the sequence of the codes of its characters.                    *)
(***************************************************************************)
EXTENDS Integers, SequencesExt

CONSTANTS
    Spelling,       \* the text of a value or an id
    Lower           \* the lower-case form of a character

(* The values of a key run together.                                       *)
Text(key) == FlattenSeq([k \in DOMAIN key |-> Spelling[key[k]]])

(* The order of strings.                                                   *)
Precedes(s, t) ==
    \/ Len(s) < Len(t) /\ SubSeq(t, 1, Len(s)) = s
    \/ \E k \in DOMAIN s \cap DOMAIN t :
          s[k] < t[k] /\ \A j \in 1..(k - 1) : s[j] = t[j]

(* Mutation: the last trigram of a text is forgotten.                      *)
GramsShort(text) ==
    [k \in 1..(Len(text) - 3) |-> [j \in 1..3 |-> Lower[text[k + j - 1]]]]

(* The trigrams of a text, from left to right; a shorter text has none.    *)
Grams(text) ==
    [k \in 1..(Len(text) - 2) |-> [j \in 1..3 |-> Lower[text[k + j - 1]]]]

(* What somebody may search a text for.                                    *)
Parts(text) == {SubSeq(text, i, j) : i \in DOMAIN text, j \in DOMAIN text}
=============================================================================
