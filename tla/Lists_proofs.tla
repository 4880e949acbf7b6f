----------------------------- MODULE Lists_proofs -----------------------------
(***************************************************************************)
(* Facts about numbers and lists that the other proofs cite: induction     *)
(* over the natural numbers, for sets of numbers (from the library's       *)
(* theorem that their order is well-founded); that a loop over 1..N has a  *)
(* result, with which the recursive functions of the model are unfolded;   *)
(* what FlattenSeq holds; how often a list holds an element after          *)
(* something was appended to it or removed from it; and that a finite set  *)
(* can be sorted.                                                          *)
(***************************************************************************)
EXTENDS SequencesExt, FiniteSetTheorems, TLAPS

(* A set of numbers has a least element.                                   *)
LEMMA LeastNumber ==
    ASSUME NEW T \in SUBSET Nat, T # {}
    PROVE  \E n \in T : \A m \in T : n <= m
  <1>1. PICK n \in T : \A m \in T : ~ (<<m, n>> \in OpToRel(<, Nat))
    BY NatLessThanWellFounded, WFMin
  <1>2. \A m \in T : ~ (m < n)
    BY <1>1 DEF OpToRel
  <1> QED BY <1>2

LEMMA Induction ==
    ASSUME NEW S, 0 \in S, \A n \in Nat : n \in S => n + 1 \in S
    PROVE  \A n \in Nat : n \in S
  <1> SUFFICES ASSUME NEW n \in Nat, n \notin S
               PROVE  FALSE
    OBVIOUS
  <1> DEFINE T == {m \in Nat : m \notin S}
  <1>1. PICK m \in T : \A k \in T : m <= k
    BY LeastNumber
  <1>2. m # 0 /\ m - 1 \in Nat /\ m - 1 \notin T
    BY <1>1
  <1> QED BY <1>1, <1>2

(* The same, for the numbers up to N.                                      *)
LEMMA InductionTo ==
    ASSUME NEW N \in Nat, NEW S, 0 \in S, \A n \in Nat : n < N /\ n \in S => n + 1 \in S
    PROVE  \A n \in 0..N : n \in S
  <1> DEFINE T == {n \in Nat : n <= N => n \in S}
  <1>1. 0 \in T /\ \A n \in Nat : n \in T => n + 1 \in T
    OBVIOUS
  <1> HIDE DEF T
  <1>2. \A n \in Nat : n \in T
    BY <1>1, Induction
  <1> QED BY <1>2 DEF T

(* What each of N rounds of a loop makes of what there is before it.       *)
Steps(N, T) == [1..N -> [T -> T]]

(* g[n] is what there is after n rounds.                                   *)
Looped(g, N, T, base, step) ==
    /\ g \in [0..N -> T]
    /\ g[0] = base
    /\ \A n \in 1..N : g[n] = step[n][g[n - 1]]

(* Every loop has a result.                                                *)
LEMMA Recursion ==
    ASSUME NEW N \in Nat, NEW T, NEW base \in T, NEW step \in Steps(N, T)
    PROVE  \E g : Looped(g, N, T, base, step)
  <1> DEFINE Loops(m) == {g \in [0..m -> T] : /\ g[0] = base
                                              /\ \A n \in 1..m : g[n] = step[n][g[n - 1]]}
             S == {m \in 0..N : Loops(m) # {}}
  <1>1. 0 \in S
    <2>1. [n \in 0..0 |-> base] \in Loops(0)
      OBVIOUS
    <2> QED BY <2>1
  <1>2. ASSUME NEW m \in Nat, m < N, m \in S
        PROVE  m + 1 \in S
    <2>1. PICK g \in Loops(m) : TRUE
      BY <1>2
    <2> DEFINE next == step[m + 1][g[m]]
               h == [n \in 0..(m + 1) |-> IF n = m + 1 THEN next ELSE g[n]]
    <2>2. next \in T
      <3>1. g[m] \in T /\ m + 1 \in 1..N
        BY <1>2, <2>1
      <3> QED BY <3>1 DEF Steps
    <2> HIDE DEF next
    <2>3. h \in [0..(m + 1) -> T] /\ h[0] = base
      BY <1>2, <2>1, <2>2
    <2>4. ASSUME NEW n \in 1..(m + 1)
          PROVE  h[n] = step[n][h[n - 1]]
      <3>1. CASE n = m + 1
        BY <1>2, <3>1 DEF next
      <3>2. CASE n \in 1..m
        <4>1. h[n] = g[n] /\ h[n - 1] = g[n - 1]
          BY <1>2, <3>2
        <4> QED BY <2>1, <3>2, <4>1
      <3> QED BY <1>2, <3>1, <3>2
    <2>5. h \in Loops(m + 1)
      BY <2>3, <2>4
    <2> HIDE DEF Loops, h
    <2> QED BY <1>2, <2>5
  <1> HIDE DEF S
  <1>3. \A m \in 0..N : m \in S
    BY <1>1, <1>2, InductionTo
  <1>4. N \in S
    BY <1>3
  <1> QED BY <1>4 DEF S, Looped

(* FlattenSeq, a loop.                                                     *)
Flatten(seqs) ==
    LET flatten[i \in 1..Len(seqs)] == IF i = 1 THEN seqs[i] ELSE flatten[i - 1] \o seqs[i]
    IN flatten

LEMMA FlattenType ==
    ASSUME NEW S, NEW seqs \in Seq(Seq(S))
    PROVE  FlattenSeq(seqs) \in Seq(S) /\ (seqs = <<>> => FlattenSeq(seqs) = <<>>)
  <1> DEFINE N == Len(seqs)
             step == [i \in 1..N |-> [s \in Seq(S) |-> IF i = 1 THEN seqs[i] ELSE s \o seqs[i]]]
  <1>1. CASE N = 0
    <2>1. FlattenSeq(seqs) = seqs /\ seqs = <<>>
      BY <1>1 DEF FlattenSeq
    <2> QED BY <2>1
  <1>2. CASE N # 0
    <2>1. /\ N \in Nat /\ step \in Steps(N, Seq(S)) /\ <<>> \in Seq(S)
          /\ \A i \in 1..N : seqs[i] \in Seq(S)
          /\ N = Len(seqs) /\ seqs # <<>>
      BY <1>2 DEF Steps
    <2> HIDE DEF step, N
    <2>2. PICK g : Looped(g, N, Seq(S), <<>>, step)
      <3>1. N \in Nat /\ step \in Steps(N, Seq(S)) /\ <<>> \in Seq(S)
        BY <2>1
      <3> QED BY <3>1, Recursion, Zenon
    <2>3. g \in [0..N -> Seq(S)] /\ \A i \in 1..N : g[i] = step[i][g[i - 1]]
      BY <2>2 DEF Looped
    <2> DEFINE f == [i \in 1..N |-> g[i]]
    <2>4. f = [i \in 1..N |-> IF i = 1 THEN seqs[i] ELSE f[i - 1] \o seqs[i]]
      <3>1. ASSUME NEW i \in 1..N
            PROVE  g[i] = IF i = 1 THEN seqs[i] ELSE f[i - 1] \o seqs[i]
        <4>1. g[i - 1] \in Seq(S) /\ i - 1 \in 0..N /\ (i # 1 => i - 1 \in 1..N)
          <5>1. i - 1 \in 0..N /\ (i # 1 => i - 1 \in 1..N)
            BY <2>1
          <5> QED BY <2>3, <5>1
        <4>2. g[i] = IF i = 1 THEN seqs[i] ELSE g[i - 1] \o seqs[i]
          BY <2>3, <4>1 DEF step
        <4> QED BY <4>1, <4>2
      <3> QED BY <3>1
    <2> HIDE DEF f
    <2>5. Flatten(seqs) = [i \in 1..N |-> IF i = 1 THEN seqs[i] ELSE Flatten(seqs)[i - 1] \o seqs[i]]
      BY <2>1, <2>4 DEF Flatten
    <2> DEFINE D == {n \in 0..N : n # 0 => Flatten(seqs)[n] \in Seq(S)}
    <2>6. 0 \in D /\ \A n \in Nat : n < N /\ n \in D => n + 1 \in D
      <3>1. ASSUME NEW n \in Nat, n < N, n \in D
            PROVE  Flatten(seqs)[n + 1] \in Seq(S)
        <4>1. n + 1 \in 1..N /\ (n + 1) - 1 = n /\ seqs[n + 1] \in Seq(S)
          BY <2>1, <3>1
        <4>2. Flatten(seqs)[n + 1] = IF n + 1 = 1 THEN seqs[n + 1] ELSE Flatten(seqs)[n] \o seqs[n + 1]
          BY <2>5, <4>1
        <4>3. CASE n = 0
          BY <4>1, <4>2, <4>3
        <4>4. CASE n # 0
          <5>1. Flatten(seqs)[n] \in Seq(S)
            BY <3>1, <4>4
          <5> QED BY <4>1, <4>2, <4>4, <5>1
        <4> QED BY <4>3, <4>4
      <3> QED BY <2>1, <3>1
    <2> HIDE DEF D
    <2>7. \A n \in 0..N : n \in D
      BY <2>1, <2>6, InductionTo
    <2>8. FlattenSeq(seqs) = Flatten(seqs)[N]
      BY <1>2, <2>1 DEF FlattenSeq, Flatten
    <2>9. N \in D /\ N # 0
      BY <1>2, <2>1, <2>7
    <2> QED BY <2>1, <2>8, <2>9 DEF D
  <1> QED BY <1>1, <1>2

-----------------------------------------------------------------------------
Positions(s, x) == {k \in DOMAIN s : s[k] = x}

(* Times of module Intersections.                                          *)
Times(s, x) == Cardinality(Positions(s, x))

LEMMA PositionsFinite ==
    ASSUME NEW S, NEW s \in Seq(S), NEW x
    PROVE  IsFiniteSet(Positions(s, x)) /\ Cardinality(Positions(s, x)) \in Nat
  <1>1. IsFiniteSet(1..Len(s))
    BY FS_Interval
  <1>2. IsFiniteSet(Positions(s, x))
    BY <1>1, FS_Subset DEF Positions
  <1> QED BY <1>2, FS_CardinalityType

LEMMA TimesType ==
    ASSUME NEW S, NEW s \in Seq(S), NEW x
    PROVE  /\ Times(s, x) \in Nat
           /\ Contains(s, x) <=> Times(s, x) # 0
  <1>1. Times(s, x) \in Nat
    BY PositionsFinite DEF Times
  <1>2. Times(s, x) = 0 <=> Positions(s, x) = {}
    BY PositionsFinite, FS_EmptySet DEF Times
  <1>3. Contains(s, x) <=> Positions(s, x) # {}
    BY DEF Contains, Positions
  <1> QED BY <1>1, <1>2, <1>3

LEMMA TimesEmpty ==
    ASSUME NEW x
    PROVE  Times(<<>>, x) = 0
  <1>1. Positions(<<>>, x) = {}
    BY DEF Positions
  <1> QED BY <1>1, FS_EmptySet DEF Times

LEMMA TimesAppend ==
    ASSUME NEW S, NEW s \in Seq(S), NEW e \in S, NEW x
    PROVE  Times(Append(s, e), x) = IF e = x THEN Times(s, x) + 1 ELSE Times(s, x)
  <1> DEFINE n == Len(s) + 1
  <1>1. /\ DOMAIN s = 1..Len(s) /\ Len(s) \in Nat
        /\ DOMAIN Append(s, e) = 1..n
        /\ \A k \in 1..Len(s) : Append(s, e)[k] = s[k]
        /\ Append(s, e)[n] = e
    OBVIOUS
  <1>2. CASE e = x
    <2>1. Positions(Append(s, e), x) = Positions(s, x) \cup {n} /\ n \notin Positions(s, x)
      BY <1>1, <1>2 DEF Positions
    <2> QED BY <1>2, <2>1, PositionsFinite, FS_AddElement DEF Times
  <1>3. CASE e # x
    <2>1. Positions(Append(s, e), x) = Positions(s, x)
      BY <1>1, <1>3 DEF Positions
    <2> QED BY <1>3, <2>1 DEF Times
  <1> QED BY <1>2, <1>3

-----------------------------------------------------------------------------
LEMMA Joined ==
    ASSUME NEW S, NEW s \in Seq(S), NEW t \in Seq(S)
    PROVE  /\ s \o t \in Seq(S) /\ Len(s \o t) = Len(s) + Len(t)
           /\ \A k \in 1..(Len(s) + Len(t)) :
                 (s \o t)[k] = IF k <= Len(s) THEN s[k] ELSE t[k - Len(s)]
  OBVIOUS

(* Lists that are equal end on end are equal, if their ends are as long.   *)
LEMMA JoinedApart ==
    ASSUME NEW S, NEW s \in Seq(S), NEW t \in Seq(S), NEW u \in Seq(S), NEW v \in Seq(S),
           s \o u = t \o v, Len(u) = Len(v)
    PROVE  s = t /\ u = v
  <1>1. /\ Len(s) \in Nat /\ Len(t) \in Nat /\ Len(u) \in Nat
        /\ Len(s \o u) = Len(s) + Len(u) /\ Len(t \o v) = Len(t) + Len(v)
    <2>1. Len(s \o u) = Len(s) + Len(u)
      BY Joined
    <2>2. Len(t \o v) = Len(t) + Len(v)
      BY Joined
    <2> QED BY <2>1, <2>2
  <1>2. Len(s) = Len(t)
    BY <1>1
  <1>3. ASSUME NEW k \in 1..Len(s)
        PROVE  s[k] = t[k]
    <2>1. (s \o u)[k] = s[k] /\ (t \o v)[k] = t[k]
      BY <1>1, <1>2, Joined
    <2> QED BY <2>1
  <1>4. ASSUME NEW k \in 1..Len(u)
        PROVE  u[k] = v[k]
    <2>1. /\ Len(s) + k \in 1..(Len(s) + Len(u)) /\ ~ (Len(s) + k <= Len(s))
          /\ (Len(s) + k) - Len(s) = k
      BY <1>1
    <2>2. (s \o u)[Len(s) + k] = u[k] /\ (t \o v)[Len(s) + k] = v[k]
      BY <1>1, <1>2, <2>1, Joined
    <2> QED BY <2>2
  <1>5. s = t
    BY <1>2, <1>3
  <1>6. u = v
    BY <1>4
  <1> QED BY <1>5, <1>6

(* A list without its i-th element.                                        *)
LEMMA RemoveAtFacts ==
    ASSUME NEW S, NEW s \in Seq(S), NEW i \in 1..Len(s)
    PROVE  /\ RemoveAt(s, i) \in Seq(S)
           /\ Len(RemoveAt(s, i)) = Len(s) - 1
           /\ \A k \in 1..(Len(s) - 1) : RemoveAt(s, i)[k] = IF k < i THEN s[k] ELSE s[k + 1]
  <1> DEFINE t == SubSeq(s, 1, i - 1)
             u == SubSeq(s, i + 1, Len(s))
  <1>1. /\ t \in Seq(S) /\ Len(t) = i - 1
        /\ \A k \in 1..(i - 1) : t[k] = s[k]
    OBVIOUS
  <1>2. /\ u \in Seq(S) /\ Len(u) = Len(s) - i
        /\ \A k \in 1..(Len(s) - i) : u[k] = s[i + k]
    OBVIOUS
  <1> HIDE DEF t, u
  <1>3. /\ t \o u \in Seq(S) /\ Len(t \o u) = Len(s) - 1
        /\ \A k \in 1..(Len(s) - 1) : (t \o u)[k] = IF k < i THEN t[k] ELSE u[k - (i - 1)]
    <2>1. Len(t) + Len(u) = Len(s) - 1
      BY <1>1, <1>2
    <2>2. /\ t \o u \in Seq(S) /\ Len(t \o u) = Len(s) - 1
          /\ \A k \in 1..(Len(s) - 1) : (t \o u)[k] = IF k <= Len(t) THEN t[k] ELSE u[k - Len(t)]
      <3>1. t \in Seq(S) /\ u \in Seq(S)
        BY <1>1, <1>2
      <3>2. /\ t \o u \in Seq(S) /\ Len(t \o u) = Len(t) + Len(u)
            /\ \A k \in 1..(Len(t) + Len(u)) :
                  (t \o u)[k] = IF k <= Len(t) THEN t[k] ELSE u[k - Len(t)]
        BY <3>1, Joined
      <3> QED BY <2>1, <3>2
    <2>3. \A k \in 1..(Len(s) - 1) : k <= i - 1 <=> k < i
      OBVIOUS
    <2> QED BY <1>1, <2>2, <2>3
  <1>4. ASSUME NEW k \in 1..(Len(s) - 1)
        PROVE  (t \o u)[k] = IF k < i THEN s[k] ELSE s[k + 1]
    <2>1. CASE k < i
      BY <1>1, <1>3, <2>1
    <2>2. CASE ~ (k < i)
      <3>1. k - (i - 1) \in 1..(Len(s) - i) /\ i + (k - (i - 1)) = k + 1
        BY <2>2
      <3>2. u[k - (i - 1)] = s[k + 1]
        BY <1>2, <3>1
      <3> QED BY <1>3, <2>2, <3>2
    <2> QED BY <2>1, <2>2
  <1>5. RemoveAt(s, i) = t \o u
    BY DEF RemoveAt, t, u
  <1> QED BY <1>3, <1>4, <1>5

LEMMA TimesRemoveAt ==
    ASSUME NEW S, NEW s \in Seq(S), NEW i \in 1..Len(s), NEW x
    PROVE  Times(RemoveAt(s, i), x) = IF s[i] = x THEN Times(s, x) - 1 ELSE Times(s, x)
  <1> DEFINE r == RemoveAt(s, i)
             P == Positions(s, x) \ {i}
             Q == Positions(r, x)
             f == [k \in Q |-> IF k < i THEN k ELSE k + 1]
  <1>1. /\ r \in Seq(S) /\ Len(r) = Len(s) - 1 /\ DOMAIN r = 1..(Len(s) - 1)
        /\ \A k \in 1..(Len(s) - 1) : r[k] = IF k < i THEN s[k] ELSE s[k + 1]
    BY RemoveAtFacts
  <1> HIDE DEF r
  <1>2. f \in [Q -> P]
    <2>1. ASSUME NEW k \in Q
          PROVE  f[k] \in P
      BY <1>1 DEF Positions
    <2> QED BY <2>1
  <1>3. ASSUME NEW k \in Q, NEW l \in Q, f[k] = f[l]
        PROVE  k = l
    BY <1>1, <1>3 DEF Positions
  <1>4. ASSUME NEW m \in P
        PROVE  \E k \in Q : f[k] = m
    <2>1. m \in 1..Len(s) /\ m # i /\ s[m] = x
      BY DEF Positions
    <2>2. CASE m < i
      <3>1. m \in Q
        BY <1>1, <2>1, <2>2 DEF Positions
      <3> QED BY <2>1, <2>2, <3>1
    <2>3. CASE m > i
      <3>1. m - 1 \in Q /\ ~ (m - 1 < i) /\ (m - 1) + 1 = m
        BY <1>1, <2>1, <2>3 DEF Positions
      <3>2. f[m - 1] = m
        BY <2>1, <3>1
      <3> QED BY <3>1, <3>2
    <2> QED BY <2>1, <2>2, <2>3
  <1>5. ExistsBijection(Q, P)
    <2>1. f \in Injection(Q, P)
      BY <1>2, <1>3 DEF Injection, IsInjective
    <2>2. f \in Surjection(Q, P)
      BY <1>2, <1>4 DEF Surjection
    <2> QED BY <2>1, <2>2 DEF ExistsBijection, Bijection
  <1>6. IsFiniteSet(Q) /\ Cardinality(P) = Cardinality(Q)
    BY <1>1, <1>5, PositionsFinite, FS_Bijection
  <1>7. Times(r, x) = Cardinality(P)
    BY <1>6 DEF Times
  <1>8. IsFiniteSet(Positions(s, x)) /\ Cardinality(Positions(s, x)) \in Nat
    BY PositionsFinite
  <1>9. CASE s[i] = x
    <2>1. i \in Positions(s, x)
      BY <1>9 DEF Positions
    <2>2. Cardinality(P) = Cardinality(Positions(s, x)) - 1
      BY <1>8, <2>1, FS_RemoveElement
    <2> QED BY <1>7, <1>9, <2>2 DEF Times, r
  <1>10. CASE s[i] # x
    <2>1. P = Positions(s, x)
      BY <1>10 DEF Positions
    <2> QED BY <1>7, <1>10, <2>1 DEF Times, r
  <1> QED BY <1>9, <1>10

(* RemoveFirst removes an occurrence if there is one.                      *)
LEMMA RemoveFirstRemoves ==
    ASSUME NEW S, NEW s \in Seq(S), NEW e, Contains(s, e)
    PROVE  \E i \in 1..Len(s) : s[i] = e /\ RemoveFirst(s, e) = RemoveAt(s, i)
  <1> DEFINE I == {i \in 1..Len(s) : s[i] = e}
  <1>1. I # {} /\ I \in SUBSET Nat
    BY DEF Contains
  <1>2. \E n \in I : \A m \in I : n <= m
    BY <1>1, LeastNumber
  <1>3. Min(I) \in I
    BY <1>2 DEF Min
  <1>4. SelectInSeq(s, LAMBDA v : v = e) = Min(I)
    BY <1>1 DEF SelectInSeq
  <1>5. RemoveFirst(s, e) = RemoveAt(s, Min(I))
    BY <1>1, <1>4 DEF RemoveFirst
  <1> QED BY <1>3, <1>5

LEMMA RemoveFirstFacts ==
    ASSUME NEW S, NEW s \in Seq(S), NEW e
    PROVE  /\ RemoveFirst(s, e) \in Seq(S)
           /\ Len(RemoveFirst(s, e)) <= Len(s)
           /\ \A x : Times(RemoveFirst(s, e), x) =
                        IF x = e /\ Times(s, x) # 0 THEN Times(s, x) - 1 ELSE Times(s, x)
  <1>1. CASE Contains(s, e)
    <2>1. PICK i \in 1..Len(s) : s[i] = e /\ RemoveFirst(s, e) = RemoveAt(s, i)
      BY <1>1, RemoveFirstRemoves
    <2>2. \A x : Times(RemoveAt(s, i), x) = IF x = e THEN Times(s, x) - 1 ELSE Times(s, x)
      BY <2>1, TimesRemoveAt
    <2>3. Times(s, e) # 0
      BY <1>1, TimesType
    <2> QED BY <2>1, <2>2, <2>3, RemoveAtFacts
  <1>2. CASE ~ Contains(s, e)
    <2>1. RemoveFirst(s, e) = s
      BY <1>2 DEF RemoveFirst, Contains
    <2>2. Times(s, e) = 0
      BY <1>2, TimesType
    <2> QED BY <2>1, <2>2
  <1> QED BY <1>1, <1>2
-----------------------------------------------------------------------------
(* R holds of any two elements of S in one direction.                      *)
Linear(S, R) ==
    /\ \A x \in S : <<x, x>> \notin R
    /\ \A x, y, z \in S : <<x, y>> \in R /\ <<y, z>> \in R => <<x, z>> \in R
    /\ \A x, y \in S : x # y => <<x, y>> \in R \/ <<y, x>> \in R

(* s is S in the order of R.                                               *)
Sorts(s, S, R) ==
    /\ s \in [1..Cardinality(S) -> S]
    /\ \A j, k \in 1..Cardinality(S) : j < k => <<s[j], s[k]>> \in R

(* x is the greatest element of T.                                         *)
Greatest(x, T, R) == x \in T /\ \A y \in T \ {x} : <<y, x>> \in R

LEMMA GreatestElement ==
    ASSUME NEW S, NEW R, Linear(S, R), IsFiniteSet(S), S # {}
    PROVE  \E x : Greatest(x, S, R)
  <1> DEFINE D == {n \in Nat : \A T \in SUBSET S : Cardinality(T) = n + 1 => \E x : Greatest(x, T, R)}
  <1>1. \A T \in SUBSET S : IsFiniteSet(T) /\ Cardinality(T) \in Nat
    BY FS_Subset, FS_CardinalityType
  <1>2. 0 \in D
    <2>1. ASSUME NEW T \in SUBSET S, Cardinality(T) = 0 + 1
          PROVE  \E x : Greatest(x, T, R)
      <3>1. PICK x : T = {x}
        <4>1. IsFiniteSet(T) /\ Cardinality(T) = 1
          BY <1>1, <2>1
        <4> QED BY <4>1, FS_Singleton
      <3> QED BY <3>1 DEF Greatest
    <2> QED BY <2>1
  <1>3. ASSUME NEW n \in Nat, n \in D
        PROVE  n + 1 \in D
    <2>1. ASSUME NEW T \in SUBSET S, Cardinality(T) = (n + 1) + 1
          PROVE  \E x : Greatest(x, T, R)
      <3>1. T # {}
        BY <1>3, <2>1, FS_EmptySet
      <3>2. PICK y \in T : TRUE
        BY <3>1
      <3>3. T \ {y} \in SUBSET S /\ Cardinality(T \ {y}) = n + 1
        BY <1>1, <1>3, <2>1, FS_RemoveElement
      <3>4. PICK x : Greatest(x, T \ {y}, R)
        BY <1>3, <3>3
      <3>5. x \in S /\ y \in S /\ x # y /\ T \subseteq S
        BY <3>2, <3>4 DEF Greatest
      <3>6. CASE <<x, y>> \in R
        <4>1. \A z \in T \ {y} : <<z, y>> \in R
          BY <3>4, <3>5, <3>6 DEF Greatest, Linear
        <4> QED BY <3>2, <4>1 DEF Greatest
      <3>7. CASE <<y, x>> \in R
        BY <3>4, <3>5, <3>7 DEF Greatest
      <3> QED BY <3>5, <3>6, <3>7 DEF Linear
    <2> QED BY <1>3, <2>1
  <1> HIDE DEF D
  <1>4. \A n \in Nat : n \in D
    BY <1>2, <1>3, Induction
  <1>5. Cardinality(S) - 1 \in Nat /\ (Cardinality(S) - 1) + 1 = Cardinality(S)
    BY <1>1, FS_EmptySet
  <1> QED BY <1>4, <1>5 DEF D

(* A finite set can be sorted.                                             *)
LEMMA Sorting ==
    ASSUME NEW S, NEW R, Linear(S, R), IsFiniteSet(S)
    PROVE  \E s : Sorts(s, S, R)
  <1> DEFINE D == {n \in Nat : \A T \in SUBSET S : Cardinality(T) = n => \E s : Sorts(s, T, R)}
  <1>1. \A T \in SUBSET S : IsFiniteSet(T) /\ Cardinality(T) \in Nat /\ Linear(T, R)
    BY FS_Subset, FS_CardinalityType DEF Linear
  <1>2. 0 \in D
    <2>1. ASSUME NEW T \in SUBSET S, Cardinality(T) = 0
          PROVE  Sorts(<<>>, T, R)
      BY <2>1 DEF Sorts
    <2> QED BY <2>1
  <1>3. ASSUME NEW n \in Nat, n \in D
        PROVE  n + 1 \in D
    <2>1. ASSUME NEW T \in SUBSET S, Cardinality(T) = n + 1
          PROVE  \E s : Sorts(s, T, R)
      <3>1. T # {}
        BY <1>3, <2>1, FS_EmptySet
      <3>2. PICK x : Greatest(x, T, R)
        BY <1>1, <3>1, GreatestElement
      <3>3. /\ T \ {x} \in SUBSET S /\ Cardinality(T \ {x}) = n
            /\ x \in T /\ \A y \in T \ {x} : <<y, x>> \in R
        <4>1. x \in T /\ \A y \in T \ {x} : <<y, x>> \in R
          BY <3>2 DEF Greatest
        <4>2. Cardinality(T \ {x}) = Cardinality(T) - 1
          BY <1>1, <4>1, FS_RemoveElement
        <4> QED BY <1>3, <2>1, <4>1, <4>2
      <3>4. PICK t : Sorts(t, T \ {x}, R)
        BY <1>3, <3>3
      <3>5. t \in [1..n -> T \ {x}] /\ \A j, k \in 1..n : j < k => <<t[j], t[k]>> \in R
        BY <3>3, <3>4 DEF Sorts
      <3> DEFINE s == [k \in 1..(n + 1) |-> IF k = n + 1 THEN x ELSE t[k]]
      <3>6. s \in [1..(n + 1) -> T]
        BY <1>3, <3>3, <3>5
      <3>7. ASSUME NEW j \in 1..(n + 1), NEW k \in 1..(n + 1), j < k
            PROVE  <<s[j], s[k]>> \in R
        <4>1. j \in 1..n /\ s[j] = t[j] /\ t[j] \in T \ {x}
          BY <1>3, <3>5, <3>7
        <4>2. CASE k = n + 1
          BY <3>3, <4>1, <4>2
        <4>3. CASE k \in 1..n
          BY <1>3, <3>5, <3>7, <4>1, <4>3
        <4> QED BY <1>3, <4>2, <4>3
      <3> HIDE DEF s
      <3>8. Sorts(s, T, R)
        BY <2>1, <3>6, <3>7 DEF Sorts
      <3> QED BY <3>8
    <2> QED BY <1>3, <2>1
  <1> HIDE DEF D
  <1>4. \A n \in Nat : n \in D
    BY <1>2, <1>3, Induction
  <1> QED BY <1>1, <1>4 DEF D

(* It then has every element at one place.                                 *)
LEMMA SortsOnce ==
    ASSUME NEW S, NEW R, Linear(S, R), IsFiniteSet(S), NEW s, Sorts(s, S, R)
    PROVE  /\ \A j, k \in 1..Cardinality(S) : s[j] = s[k] => j = k
           /\ \A x \in S : \E k \in 1..Cardinality(S) : s[k] = x
  <1> DEFINE N == Cardinality(S)
  <1>1. N \in Nat
    BY FS_CardinalityType
  <1>2. ASSUME NEW j \in 1..N, NEW k \in 1..N, s[j] = s[k]
        PROVE  j = k
    <2>1. s[j] \in S /\ s[k] \in S /\ <<s[j], s[k]>> \notin R /\ <<s[k], s[j]>> \notin R
      BY <1>2 DEF Sorts, Linear
    <2>2. ~ (j < k) /\ ~ (k < j)
      BY <2>1 DEF Sorts
    <2> QED BY <1>1, <2>2
  <1>3. s \in Injection(1..N, S)
    BY <1>2 DEF Sorts, Injection, IsInjective
  <1>4. IsFiniteSet(1..N) /\ Cardinality(1..N) = N
    BY <1>1, FS_Interval
  <1>5. s \in Surjection(1..N, S)
    BY <1>3, <1>4, FS_Injection
  <1> QED BY <1>2, <1>5 DEF Surjection
=============================================================================
