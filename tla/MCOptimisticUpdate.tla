------------------------- MODULE MCOptimisticUpdate -------------------------
(***************************************************************************)
(* Instances of OptimisticUpdate for TLC: two clients, one document of two *)
(* fields, of which one may be missing at first.                           *)
(***************************************************************************)
EXTENDS OptimisticUpdate, TLC

CONSTANTS a, b, c1, c2, d1

NoSlices == [v \in Values |-> {v}]

TwoFields == {"name", "email"}

Doc(name, email) == [name |-> name, email |-> email]

NameOptional == {Doc(Nil, a), Doc(a, a), Doc(b, b)}

(* A support tool sets one field.                                          *)
NewEmail == {Doc(Nil, b)}

Interchangeable == Permutations({c1, c2})
=============================================================================
