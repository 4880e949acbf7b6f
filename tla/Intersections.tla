--------------------------- MODULE Intersections ---------------------------
(***************************************************************************)
(* Intersect and IntersectInt: what lists of ids, or of numbers, have in   *)
(* common.  A map counts, or holds, the elements of one side; the elements *)
(* of the other side are looked up in it and keep their order.             *)
(***************************************************************************)
EXTENDS Integers, Sequences, FiniteSets

Maps == INSTANCE Functions

Times(list, x) == Cardinality({k \in DOMAIN list : list[k] = x})

(* How often the lists of `in' hold x, all together.                       *)
Count(x, in) ==
    LET count[n \in 0..Len(in)] ==         \* the first n lists
            IF n = 0 THEN 0 ELSE count[n - 1] + Times(in[n], x)
    IN count[Len(in)]

(* The elements of a list that are in a set, in their order: the loop that *)
(* appends them one by one.                                                *)
Only(list, set) ==
    LET only[n \in 0..Len(list)] ==        \* of the first n elements
            IF n = 0 THEN <<>>
            ELSE IF list[n] \in set THEN Append(only[n - 1], list[n])
            ELSE only[n - 1]
    IN only[Len(list)]

(* Mutation: whoever is in one of the other lists stays.                   *)
IntersectAny(in1, in) == Only(in1, {x \in Maps!Range(in1) : Count(x, in) > 0})

(* The elements of in1 that are counted as often as there are other lists: *)
(* this is the intersection if no list holds anything twice.               *)
Intersect(in1, in) ==
    Only(in1, {x \in Maps!Range(in1) : Count(x, in) # 0 /\ Count(x, in) = Len(in)})

(* The elements of the shorter list, or the second, that the other holds.  *)
IntersectInt(in1, in2) ==
    IF Len(in1) < Len(in2) THEN Only(in1, Maps!Range(in2)) ELSE Only(in2, Maps!Range(in1))
=============================================================================
