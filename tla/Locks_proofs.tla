----------------------------- MODULE Locks_proofs -----------------------------
(***************************************************************************)
(* The locks, for any number of threads of the application: shared memory  *)
(* is used under its lock but in the places RacesKnown names, and threads  *)
(* never wait for each other in a circle.                                  *)
(*                                                                         *)
(* What a thread has yet to do says which locks it has: Runs(p, h, g) says *)
(* that the path p, begun with the locks h, uses all memory as it should   *)
(* and ends with the locks g.  Every path of every method ends with the    *)
(* locks it began with, so a call may be replaced by any path of the       *)
(* method.                                                                 *)
(***************************************************************************)
EXTENDS Locks, TLAPS

(* How often a thread has each lock, for writing and for reading.          *)
Holdings == [w : [Locks -> Nat], r : [Locks -> 0..2]]
Free == [w |-> [l \in Locks |-> 0], r |-> [l \in Locks |-> 0]]
Holding(t) == [w |-> [l \in Locks |-> IF writer[l] = t THEN 1 ELSE 0],
               r |-> [l \in Locks |-> readers[l][t]]]

WithLock(h, l) == [w |-> [h.w EXCEPT ![l] = @ + 1], r |-> h.r]
WithRLock(h, l) == [w |-> h.w, r |-> [h.r EXCEPT ![l] = @ + 1]]
Has(h, l) == h.w[l] > 0 \/ h.r[l] > 0

(* The lock that guards a memory; two memories have none.                  *)
Guards == [data |-> "cache", documents |-> "cache", numbering |-> "cache",
           inverse |-> "inverse", unique |-> "unique", items |-> "sortedIndex",
           postings |-> "tree", listeners |-> "stream"]
Open == {"ids", "lists"}

(* Locks under which no other is taken: `cache' once more, to read.        *)
Last == {"cache", "sorted", "tree"}

Takes(h, l) == \A k \in Locks : Has(h, k) => k \notin Last /\ l \in Last
TakesAgain(h) ==
    \A k \in Locks : /\ h.r[k] <= 1
                     /\ Has(h, k) => k \notin Last \/ (k = "cache" /\ h.w[k] = 0)

(* Methods that are called by threads that have locks.                     *)
Inner == {"GetIDByIndex", "GetIndexByID", "Get"}

Fits(method, h) == h = Free \/ (method \in Inner /\ TakesAgain(h))

(* A step and the locks before and after it.                               *)
Effect(step, h, g) ==
    /\ step.do = "call" => step.on \in DOMAIN Paths /\ Fits(step.on, h) /\ g = h
    /\ step.do = "read" =>
          g = h /\ (step.on \in Open \/ (step.on \in DOMAIN Guards /\ Has(h, Guards[step.on])))
    /\ step.do = "write" =>
          g = h /\ \/ step.on \in Open
                   \/ step.on \in DOMAIN Guards /\ h.w[Guards[step.on]] > 0
                   \/ step.on = "numbering" /\ h.r["cache"] > 0
    /\ step.do = "lock" => step.on \in Locks /\ Takes(h, step.on) /\ g = WithLock(h, step.on)
    /\ step.do = "unlock" => step.on \in Locks /\ h = WithLock(g, step.on)
    /\ step.do = "rlock" =>
          /\ step.on \in Locks /\ g = WithRLock(h, step.on)
          /\ Takes(h, step.on) \/ (step.on = "cache" /\ TakesAgain(h))
    /\ step.do = "runlock" => step.on \in Locks /\ h = WithRLock(g, step.on)

Kinds == {"call", "read", "write", "lock", "unlock", "rlock", "runlock"}
Steps == [do : Kinds, on : DOMAIN Paths \cup DOMAIN Guards \cup Open \cup Locks]

Along(p, at) == \A k \in 1..Len(p) : Effect(p[k], at[k], at[k + 1])

Runs(p, h, g) ==
    /\ p \in Seq(Steps)
    /\ \E at \in [1..(Len(p) + 1) -> Holdings] : at[1] = h /\ at[Len(p) + 1] = g /\ Along(p, at)

-----------------------------------------------------------------------------
(* Paths: none, one step, one after the other, and what is left after the  *)
(* first step.                                                             *)
LEMMA RunsNothing ==
    ASSUME NEW h \in Holdings
    PROVE  Runs(<<>>, h, h)
  <1> DEFINE at == [k \in 1..(Len(<<>>) + 1) |-> h]
  <1>1. at \in [1..(Len(<<>>) + 1) -> Holdings] /\ at[1] = h /\ at[Len(<<>>) + 1] = h
    OBVIOUS
  <1>2. Along(<<>>, at)
    BY DEF Along
  <1> HIDE DEF at
  <1> QED BY <1>1, <1>2 DEF Runs

LEMMA RunsStep ==
    ASSUME NEW step \in Steps, NEW h \in Holdings, NEW g \in Holdings, Effect(step, h, g)
    PROVE  Runs(<<step>>, h, g)
  <1> DEFINE at == [k \in 1..2 |-> IF k = 1 THEN h ELSE g]
             p == <<step>>
  <1>1. p \in Seq(Steps) /\ Len(p) = 1 /\ p[1] = step
    OBVIOUS
  <1>2. at \in [1..2 -> Holdings] /\ at[1] = h /\ at[2] = g
    OBVIOUS
  <1> HIDE DEF at, p
  <1>3. Along(p, at)
    BY <1>1, <1>2 DEF Along
  <1>4. Runs(p, h, g)
    BY <1>1, <1>2, <1>3 DEF Runs
  <1> QED BY <1>4 DEF p

LEMMA RunsBoth ==
    ASSUME NEW p, NEW q, NEW a, NEW b, NEW c, Runs(p, a, b), Runs(q, b, c)
    PROVE  Runs(p \o q, a, c)
  <1> DEFINE m == Len(p)
             n == Len(q)
  <1>1. p \in Seq(Steps) /\ q \in Seq(Steps) /\ m \in Nat /\ n \in Nat
    BY DEF Runs
  <1>2. PICK f \in [1..(m + 1) -> Holdings] : f[1] = a /\ f[m + 1] = b /\ Along(p, f)
    BY DEF Runs
  <1>3. PICK g \in [1..(n + 1) -> Holdings] : g[1] = b /\ g[n + 1] = c /\ Along(q, g)
    BY DEF Runs
  <1> DEFINE at == [k \in 1..(m + n + 1) |-> IF k <= m THEN f[k] ELSE g[k - m]]
  <1>4. /\ p \o q \in Seq(Steps) /\ Len(p \o q) = m + n
        /\ \A k \in 1..m : (p \o q)[k] = p[k]
        /\ \A k \in (m + 1)..(m + n) : (p \o q)[k] = q[k - m]
    BY <1>1
  <1> HIDE DEF m, n
  <1>5. at \in [1..(m + n + 1) -> Holdings]
    BY <1>1, <1>2, <1>3
  <1>6. at[1] = a
    BY <1>1, <1>2, <1>3
  <1>7. at[m + n + 1] = c
    BY <1>1, <1>3
  <1>8. ASSUME NEW k \in 1..(m + n)
        PROVE  Effect((p \o q)[k], at[k], at[k + 1])
    <2>1. CASE k <= m
      <3>1. at[k] = f[k]
        BY <1>1, <2>1
      <3>2. at[k + 1] = f[k + 1]
        BY <1>1, <1>2, <1>3, <2>1
      <3>3. k \in 1..m /\ Effect(p[k], f[k], f[k + 1])
        BY <1>1, <1>2, <2>1 DEF Along, m
      <3> QED BY <1>4, <3>1, <3>2, <3>3
    <2>2. CASE k > m
      <3>1. at[k] = g[k - m] /\ at[k + 1] = g[(k - m) + 1]
        BY <1>1, <2>2
      <3>2. k - m \in 1..n /\ Effect(q[k - m], g[k - m], g[(k - m) + 1])
        BY <1>1, <1>3, <2>2 DEF Along, n
      <3>3. (p \o q)[k] = q[k - m]
        BY <1>1, <1>4, <2>2
      <3> QED BY <3>1, <3>2, <3>3
    <2>3. k <= m \/ k > m
      BY <1>1
    <2> HIDE DEF at
    <2> QED BY <2>1, <2>2, <2>3
  <1>9. Along(p \o q, at)
    BY <1>4, <1>8 DEF Along
  <1> HIDE DEF at
  <1> QED BY <1>4, <1>5, <1>6, <1>7, <1>9 DEF Runs

LEMMA RunsEnds ==
    ASSUME NEW h, NEW g, Runs(<<>>, h, g)
    PROVE  h = g
  BY DEF Runs

LEMMA RunsOn ==
    ASSUME NEW p, NEW h, NEW g, Runs(p, h, g), p # <<>>
    PROVE  /\ Head(p) \in Steps
           /\ \E b \in Holdings : Effect(Head(p), h, b) /\ Runs(Tail(p), b, g)
  <1> DEFINE n == Len(p)
  <1>1. p \in Seq(Steps) /\ n \in Nat /\ n # 0
    BY DEF Runs
  <1>2. PICK f \in [1..(n + 1) -> Holdings] : f[1] = h /\ f[n + 1] = g /\ Along(p, f)
    BY DEF Runs
  <1>3. /\ Tail(p) \in Seq(Steps) /\ Len(Tail(p)) = n - 1
        /\ \A k \in 1..(n - 1) : Tail(p)[k] = p[k + 1]
        /\ Head(p) = p[1] /\ p[1] \in Steps
    BY <1>1
  <1>4. Effect(p[1], f[1], f[2]) /\ f[2] \in Holdings
    BY <1>1, <1>2 DEF Along
  <1> DEFINE at == [k \in 1..n |-> f[k + 1]]
  <1> HIDE DEF n
  <1>5. at \in [1..((n - 1) + 1) -> Holdings] /\ at[1] = f[2] /\ at[(n - 1) + 1] = g
    BY <1>1, <1>2
  <1>6. ASSUME NEW k \in 1..(n - 1)
        PROVE  Effect(Tail(p)[k], at[k], at[k + 1])
    <2>1. at[k] = f[k + 1] /\ at[k + 1] = f[(k + 1) + 1]
      BY <1>1
    <2>2. k + 1 \in 1..n /\ Effect(p[k + 1], f[k + 1], f[(k + 1) + 1])
      BY <1>1, <1>2 DEF Along, n
    <2> QED BY <1>3, <2>1, <2>2
  <1>7. Along(Tail(p), at)
    BY <1>3, <1>6 DEF Along
  <1> HIDE DEF at
  <1>8. Runs(Tail(p), f[2], g)
    BY <1>3, <1>5, <1>7 DEF Runs
  <1> QED BY <1>2, <1>3, <1>4, <1>8

-----------------------------------------------------------------------------
(* The pieces paths are made of.                                           *)
LEMMA WithLocks ==
    ASSUME NEW h \in Holdings, NEW l \in Locks
    PROVE  /\ WithLock(h, l) \in Holdings /\ WithLock(h, l).w[l] > 0
           /\ WithLock(h, l).r = h.r /\ \A k \in Locks \ {l} : WithLock(h, l).w[k] = h.w[k]
           /\ h.r[l] <= 1 => /\ WithRLock(h, l) \in Holdings /\ WithRLock(h, l).r[l] > 0
                             /\ WithRLock(h, l).r[l] = h.r[l] + 1 /\ WithRLock(h, l).w = h.w
                             /\ \A k \in Locks \ {l} : WithRLock(h, l).r[k] = h.r[k]
  BY DEF WithLock, WithRLock, Holdings

LEMMA FreeFacts ==
    /\ Free \in Holdings /\ \A l \in Locks : ~ Has(Free, l)
    /\ \A l \in Locks : Takes(Free, l)
    /\ \A method : Fits(method, Free)
  BY DEF Free, Holdings, Has, Takes, Fits

LEMMA CallRuns ==
    ASSUME NEW h \in Holdings, NEW method \in DOMAIN Paths, Fits(method, h)
    PROVE  Runs(Call(method), h, h)
  <1> DEFINE step == [do |-> "call", on |-> method]
  <1>1. step \in Steps /\ Effect(step, h, h)
    BY DEF Steps, Kinds, Effect
  <1> QED BY <1>1, RunsStep DEF Call, Do

LEMMA ReadRuns ==
    ASSUME NEW h \in Holdings, NEW memory \in DOMAIN Guards \cup Open,
           memory \in DOMAIN Guards => Has(h, Guards[memory])
    PROVE  Runs(Reads(memory), h, h)
  <1> DEFINE step == [do |-> "read", on |-> memory]
  <1>1. step \in Steps /\ Effect(step, h, h)
    BY DEF Steps, Kinds, Effect, Open
  <1> QED BY <1>1, RunsStep DEF Reads, Do

LEMMA WriteRuns ==
    ASSUME NEW h \in Holdings, NEW memory \in DOMAIN Guards \cup Open,
           \/ memory \in Open
           \/ memory \in DOMAIN Guards /\ h.w[Guards[memory]] > 0
           \/ memory = "numbering" /\ h.r["cache"] > 0
    PROVE  Runs(Writes(memory), h, h)
  <1> DEFINE step == [do |-> "write", on |-> memory]
  <1>1. step \in Steps /\ Effect(step, h, h)
    BY DEF Steps, Kinds, Effect, Open
  <1> QED BY <1>1, RunsStep DEF Writes, Do

LEMMA LockedRuns ==
    ASSUME NEW h \in Holdings, NEW l \in Locks, NEW body, Takes(h, l),
           Runs(body, WithLock(h, l), WithLock(h, l))
    PROVE  Runs(Locked(l, body), h, h)
  <1> DEFINE g == WithLock(h, l)
             in == [do |-> "lock", on |-> l]
             out == [do |-> "unlock", on |-> l]
  <1>1. g \in Holdings
    BY WithLocks
  <1>2. in \in Steps /\ out \in Steps
    BY DEF Steps, Kinds
  <1>3. Effect(in, h, g) /\ Effect(out, g, h)
    BY DEF Effect
  <1> HIDE DEF in, out
  <1>4. Runs(<<in>>, h, g) /\ Runs(<<out>>, g, h)
    BY <1>1, <1>2, <1>3, RunsStep
  <1>5. Runs(<<in>> \o body, h, g)
    BY <1>4, RunsBoth
  <1>6. Runs((<<in>> \o body) \o <<out>>, h, h)
    BY <1>4, <1>5, RunsBoth
  <1> QED BY <1>6 DEF Locked, Do, in, out

LEMMA RLockedRuns ==
    ASSUME NEW h \in Holdings, NEW l \in Locks, NEW body, h.r[l] <= 1,
           Takes(h, l) \/ (l = "cache" /\ TakesAgain(h)),
           Runs(body, WithRLock(h, l), WithRLock(h, l))
    PROVE  Runs(RLocked(l, body), h, h)
  <1> DEFINE g == WithRLock(h, l)
             in == [do |-> "rlock", on |-> l]
             out == [do |-> "runlock", on |-> l]
  <1>1. g \in Holdings
    BY WithLocks
  <1>2. in \in Steps /\ out \in Steps
    BY DEF Steps, Kinds
  <1>3. Effect(in, h, g) /\ Effect(out, g, h)
    BY DEF Effect
  <1> HIDE DEF in, out
  <1>4. Runs(<<in>>, h, g) /\ Runs(<<out>>, g, h)
    BY <1>1, <1>2, <1>3, RunsStep
  <1>5. Runs(<<in>> \o body, h, g)
    BY <1>4, RunsBoth
  <1>6. Runs((<<in>> \o body) \o <<out>>, h, h)
    BY <1>4, <1>5, RunsBoth
  <1> QED BY <1>6 DEF RLocked, Do, in, out

(* Contexts in which the methods take further locks.                       *)
Writing(l) == WithLock(Free, l)
Reading(l) == WithRLock(Free, l)

LEMMA Contexts ==
    ASSUME NEW l \in Locks
    PROVE  /\ Writing(l) \in Holdings /\ Reading(l) \in Holdings
           /\ Writing(l).w[l] > 0 /\ Has(Writing(l), l)
           /\ Reading(l).r[l] > 0 /\ Has(Reading(l), l)
           /\ Free.r[l] <= 1 /\ \A k \in Locks : Writing(l).r[k] <= 1 /\ Reading(l).r[k] <= 1
           /\ l \notin Last =>
                 /\ TakesAgain(Writing(l)) /\ TakesAgain(Reading(l))
                 /\ \A k \in Last : Takes(Writing(l), k) /\ Takes(Reading(l), k)
           /\ l = "cache" => TakesAgain(Reading(l))
           /\ \A k \in Locks : (Has(Writing(l), k) \/ Has(Reading(l), k)) => k = l
  <1>1. /\ Writing(l) \in Holdings /\ Reading(l) \in Holdings
        /\ Writing(l).w[l] > 0 /\ Reading(l).r[l] = 1 /\ Free.r[l] = 0
        /\ Writing(l).r = Free.r /\ Reading(l).w = Free.w
        /\ \A k \in Locks \ {l} : Writing(l).w[k] = 0 /\ Reading(l).r[k] = 0
        /\ \A k \in Locks : Free.w[k] = 0 /\ Free.r[k] = 0
    <2>1. \A k \in Locks : Free.w[k] = 0 /\ Free.r[k] = 0
      BY DEF Free
    <2>2. Free \in Holdings /\ Free.r[l] <= 1 /\ 0 + 1 = 1
      BY <2>1, FreeFacts
    <2>3. /\ WithLock(Free, l) \in Holdings /\ WithLock(Free, l).w[l] > 0
          /\ WithLock(Free, l).r = Free.r
          /\ \A k \in Locks \ {l} : WithLock(Free, l).w[k] = Free.w[k]
      BY <2>2, WithLocks
    <2>4. /\ WithRLock(Free, l) \in Holdings /\ WithRLock(Free, l).r[l] = Free.r[l] + 1
          /\ WithRLock(Free, l).w = Free.w
          /\ \A k \in Locks \ {l} : WithRLock(Free, l).r[k] = Free.r[k]
      BY <2>2, WithLocks
    <2>5. \A k \in Locks \ {l} : Writing(l).w[k] = 0 /\ Reading(l).r[k] = 0
      BY <2>1, <2>3, <2>4 DEF Writing, Reading
    <2>6. Reading(l).r[l] = 1 /\ Free.r[l] = 0
      BY <2>1, <2>4 DEF Reading
    <2> QED BY <2>1, <2>3, <2>4, <2>5, <2>6 DEF Writing, Reading
  <1>2. \A k \in Locks : (Has(Writing(l), k) \/ Has(Reading(l), k)) => k = l
    BY <1>1 DEF Has
  <1>3. \A k \in Locks : Writing(l).r[k] <= 1 /\ Reading(l).r[k] <= 1
    BY <1>1
  <1>4. l \notin Last => /\ TakesAgain(Writing(l)) /\ TakesAgain(Reading(l))
                         /\ \A k \in Last : Takes(Writing(l), k) /\ Takes(Reading(l), k)
    BY <1>2, <1>3 DEF TakesAgain, Takes
  <1>5. l = "cache" => TakesAgain(Reading(l))
    BY <1>1, <1>2, <1>3 DEF TakesAgain
  <1> QED BY <1>1, <1>2, <1>3, <1>4, <1>5 DEF Has

-----------------------------------------------------------------------------
(* The methods.                                                            *)
Safe(paths, h) == \A p \in paths : Runs(p, h, h)

LEMMA MethodNames ==
    DOMAIN Paths =
       {"GetIDByIndex", "GetIndexByID", "Get", "All", "GetByIndex", "CacheAdd", "CacheUpdate",
        "CacheDelete", "InverseGet", "InverseAdd", "InverseUpdate", "InverseDelete", "UniqueGet",
        "UniqueAdd", "UniqueUpdate", "UniqueDelete", "SortedIntersect", "SortedAdd",
        "SortedUpdate", "SortedDelete", "SuffixSearch", "SuffixFind", "Post", "SuffixAdd",
        "SuffixUpdate", "Listen", "AddListener", "listener"}
  BY DEF Paths

LEMMA GuardFacts ==
    /\ DOMAIN Guards = {"data", "documents", "numbering", "inverse", "unique", "items",
                        "postings", "listeners"}
    /\ Guards["data"] = "cache" /\ Guards["documents"] = "cache"
    /\ Guards["numbering"] = "cache" /\ Guards["inverse"] = "inverse"
    /\ Guards["unique"] = "unique" /\ Guards["items"] = "sortedIndex"
    /\ Guards["postings"] = "tree" /\ Guards["listeners"] = "stream"
  BY DEF Guards

(* Memory used under its lock, and calls made under one.                   *)
LEMMA UnderWriteLock ==
    ASSUME NEW l \in Locks
    PROVE  /\ Writing(l) \in Holdings
           /\ \A memory \in DOMAIN Guards : Guards[memory] = l =>
                 /\ Runs(Reads(memory), Writing(l), Writing(l))
                 /\ Runs(Writes(memory), Writing(l), Writing(l))
           /\ l \notin Last => \A method \in Inner : Runs(Call(method), Writing(l), Writing(l))
           /\ \A body : Runs(body, Writing(l), Writing(l)) => Runs(Locked(l, body), Free, Free)
           /\ Runs(<<>>, Writing(l), Writing(l))
  <1>1. /\ Writing(l) \in Holdings /\ Writing(l).w[l] > 0 /\ Has(Writing(l), l)
        /\ l \notin Last => TakesAgain(Writing(l))
    BY Contexts
  <1>2. ASSUME NEW memory \in DOMAIN Guards, Guards[memory] = l
        PROVE  /\ Runs(Reads(memory), Writing(l), Writing(l))
               /\ Runs(Writes(memory), Writing(l), Writing(l))
    BY <1>1, <1>2, ReadRuns, WriteRuns
  <1>3. ASSUME l \notin Last, NEW method \in Inner
        PROVE  Runs(Call(method), Writing(l), Writing(l))
    <2>1. method \in DOMAIN Paths /\ Fits(method, Writing(l))
      BY <1>1, <1>3, MethodNames DEF Inner, Fits
    <2> QED BY <1>1, <2>1, CallRuns
  <1>4. ASSUME NEW body, Runs(body, Writing(l), Writing(l))
        PROVE  Runs(Locked(l, body), Free, Free)
    BY <1>4, FreeFacts, LockedRuns DEF Writing
  <1> QED BY <1>1, <1>2, <1>3, <1>4, RunsNothing

LEMMA UnderReadLock ==
    ASSUME NEW l \in Locks
    PROVE  /\ Reading(l) \in Holdings
           /\ \A memory \in DOMAIN Guards : Guards[memory] = l =>
                 Runs(Reads(memory), Reading(l), Reading(l))
           /\ l \notin Last \/ l = "cache" =>
                 \A method \in Inner : Runs(Call(method), Reading(l), Reading(l))
           /\ \A body : Runs(body, Reading(l), Reading(l)) => Runs(RLocked(l, body), Free, Free)
           /\ Runs(<<>>, Reading(l), Reading(l))
  <1>1. /\ Reading(l) \in Holdings /\ Has(Reading(l), l) /\ Free.r[l] <= 1
        /\ l \notin Last \/ l = "cache" => TakesAgain(Reading(l))
    BY Contexts
  <1>2. ASSUME NEW memory \in DOMAIN Guards, Guards[memory] = l
        PROVE  Runs(Reads(memory), Reading(l), Reading(l))
    BY <1>1, <1>2, ReadRuns
  <1>3. ASSUME l \notin Last \/ l = "cache", NEW method \in Inner
        PROVE  Runs(Call(method), Reading(l), Reading(l))
    <2>1. method \in DOMAIN Paths /\ Fits(method, Reading(l))
      BY <1>1, <1>3, MethodNames DEF Inner, Fits
    <2> QED BY <1>1, <2>1, CallRuns
  <1>4. ASSUME NEW body, Runs(body, Reading(l), Reading(l))
        PROVE  Runs(RLocked(l, body), Free, Free)
    BY <1>1, <1>4, FreeFacts, RLockedRuns DEF Reading
  <1> QED BY <1>1, <1>2, <1>3, <1>4, RunsNothing

LEMMA CallsRuns ==
    ASSUME NEW methods \in Seq(DOMAIN Paths)
    PROVE  Runs(Calls(methods), Free, Free)
  <1> DEFINE n == Len(methods)
             p == Calls(methods)
             at == [k \in 1..(n + 1) |-> Free]
  <1>1. /\ n \in Nat /\ \A k \in 1..n : methods[k] \in DOMAIN Paths
        /\ DOMAIN methods = 1..n
    OBVIOUS
  <1>2. /\ p \in Seq(Steps) /\ Len(p) = n
        /\ \A k \in 1..n : p[k] = [do |-> "call", on |-> methods[k]]
    BY <1>1 DEF Calls, Steps, Kinds
  <1> HIDE DEF p, n
  <1>3. at \in [1..(n + 1) -> Holdings] /\ at[1] = Free /\ at[n + 1] = Free
    BY <1>1, FreeFacts
  <1>4. ASSUME NEW k \in 1..n
        PROVE  Effect(p[k], at[k], at[k + 1])
    <2>1. at[k] = Free /\ at[k + 1] = Free
      BY <1>1
    <2>2. p[k] = [do |-> "call", on |-> methods[k]] /\ methods[k] \in DOMAIN Paths
      BY <1>1, <1>2
    <2> HIDE DEF at
    <2> QED BY <2>1, <2>2, FreeFacts DEF Effect
  <1> HIDE DEF at
  <1> QED BY <1>2, <1>3, <1>4 DEF Runs, Along, p

(* Methods whose callers may have locks.                                   *)
LEMMA InnerSafe ==
    ASSUME NEW method \in Inner, NEW h \in Holdings, Fits(method, h)
    PROVE  Safe(Paths[method], h)
  <1> DEFINE g == WithRLock(h, "cache")
  <1>1. "cache" \in Locks /\ h.r["cache"] <= 1
    BY DEF Fits, TakesAgain, Free, Locks
  <1>2. Takes(h, "cache") \/ TakesAgain(h)
    BY <1>1, FreeFacts DEF Fits
  <1>3. g \in Holdings /\ Has(g, "cache")
    BY <1>1, WithLocks DEF Has
  <1> HIDE DEF g
  <1>4. \A memory \in {"data", "documents", "numbering"} : Runs(Reads(memory), g, g)
    BY <1>3, GuardFacts, ReadRuns
  <1>5. \A body : Runs(body, g, g) => Runs(RLocked("cache", body), h, h)
    BY <1>1, <1>2, RLockedRuns DEF g
  <1>6. Safe(GetIDByIndex, h) /\ Safe(GetIndexByID, h)
    BY <1>4, <1>5 DEF Safe, GetIDByIndex, GetIndexByID
  <1>7. Safe(Get, h)
    <2>1. Runs(<<>>, g, g)
      BY <1>3, RunsNothing
    <2>2. \A rest \in {<<>>, Reads("documents")} : Runs(Reads("data") \o rest, g, g)
      BY <1>4, <2>1, RunsBoth
    <2> QED BY <1>5, <2>2 DEF Safe, Get
  <1>8. /\ Paths["GetIDByIndex"] = GetIDByIndex /\ Paths["GetIndexByID"] = GetIndexByID
        /\ Paths["Get"] = Get
    BY DEF Paths
  <1> QED BY <1>6, <1>7, <1>8 DEF Inner

(* The cache.                                                              *)
LEMMA CacheSafe ==
    /\ Safe(All, Free) /\ Safe(GetByIndex, Free)
    /\ Safe(CacheAdd, Free) /\ Safe(CacheUpdate, Free) /\ Safe(CacheDelete, Free)
  <1> DEFINE r == Reading("cache")
             w == Writing("cache")
  <1>1. "cache" \in Locks /\ {"data", "documents", "numbering"} \subseteq DOMAIN Guards
        /\ \A memory \in {"data", "documents", "numbering"} : Guards[memory] = "cache"
    BY GuardFacts DEF Locks
  <1>2. /\ r \in Holdings /\ r.r["cache"] > 0 /\ Runs(<<>>, r, r)
        /\ Runs(Reads("data"), r, r) /\ Runs(Reads("documents"), r, r)
        /\ Runs(Call("GetIDByIndex"), r, r) /\ Runs(Call("Get"), r, r)
    BY <1>1, Contexts, UnderReadLock DEF Inner
  <1>3. \A body : Runs(body, r, r) => Runs(RLocked("cache", body), Free, Free)
    BY <1>1, UnderReadLock
  <1>4. /\ w \in Holdings /\ Runs(<<>>, w, w) /\ Runs(Reads("data"), w, w)
        /\ \A memory \in {"data", "documents", "numbering"} : Runs(Writes(memory), w, w)
    BY <1>1, UnderWriteLock
  <1>5. \A body : Runs(body, w, w) => Runs(Locked("cache", body), Free, Free)
    BY <1>1, UnderWriteLock
  <1>6. Runs(Writes("numbering"), r, r)
    BY <1>1, <1>2, WriteRuns
  <1> HIDE DEF r, w
  <1>7. Safe(All, Free)
    BY <1>2, <1>3, RunsBoth DEF Safe, All
  <1>8. Safe(GetByIndex, Free)
    <2>1. Runs(Call("Get") \o Writes("numbering"), r, r)
      BY <1>2, <1>6, RunsBoth
    <2>2. \A rest \in {Writes("numbering"), Call("Get"), Call("Get") \o Writes("numbering")} :
             Runs(Call("GetIDByIndex") \o rest, r, r)
      BY <1>2, <1>6, <2>1, RunsBoth
    <2> QED BY <1>3, <2>2 DEF Safe, GetByIndex
  <1>9. Safe(CacheAdd, Free) /\ Safe(CacheDelete, Free)
    BY <1>4, <1>5, RunsBoth DEF Safe, CacheAdd, CacheDelete
  <1>10. Safe(CacheUpdate, Free)
    <2>1. \A rest \in {<<>>, Writes("documents")} : Runs(Reads("data") \o rest, w, w)
      BY <1>4, RunsBoth
    <2> QED BY <1>5, <2>1 DEF Safe, CacheUpdate
  <1> QED BY <1>7, <1>8, <1>9, <1>10

(* The inverse indexes.                                                    *)
LEMMA InverseSafe ==
    Safe(InverseGet, Free) /\ Safe(InverseAdd, Free) /\ Safe(InverseUpdate, Free)
    /\ Safe(InverseDelete, Free)
  <1> DEFINE r == Reading("inverse")
             w == Writing("inverse")
  <1>1. "inverse" \in Locks /\ "inverse" \notin Last /\ "Get" \in Inner
        /\ "inverse" \in DOMAIN Guards /\ Guards["inverse"] = "inverse"
    BY GuardFacts DEF Locks, Last, Inner
  <1>2. /\ Runs(Reads("inverse"), r, r)
        /\ \A body : Runs(body, r, r) => Runs(RLocked("inverse", body), Free, Free)
    BY <1>1, UnderReadLock
  <1>3. /\ w \in Holdings /\ Runs(<<>>, w, w) /\ Runs(Call("Get"), w, w)
        /\ Runs(Reads("inverse"), w, w) /\ Runs(Writes("inverse"), w, w)
    BY <1>1, UnderWriteLock
  <1>4. \A body : Runs(body, w, w) => Runs(Locked("inverse", body), Free, Free)
    BY <1>1, UnderWriteLock
  <1>5. Runs(Writes("lists"), w, w) /\ Runs(Reads("lists"), Free, Free)
    BY <1>3, FreeFacts, GuardFacts, ReadRuns, WriteRuns DEF Open
  <1> HIDE DEF r, w
  <1>6. Safe(InverseGet, Free)
    BY <1>2, <1>5, RunsBoth DEF Safe, InverseGet
  <1>7. Safe(InverseAdd, Free)
    BY <1>3, <1>4 DEF Safe, InverseAdd
  <1>8. \A rest \in Removed : Runs(Call("Get") \o rest, w, w)
    <2>1. \A rest \in Removed : Runs(rest, w, w)
      BY <1>3, <1>5, RunsBoth DEF Removed
    <2> QED BY <1>3, <2>1, RunsBoth
  <1>9. Safe(InverseUpdate, Free) /\ Safe(InverseDelete, Free)
    BY <1>3, <1>4, <1>8 DEF Safe, InverseUpdate, InverseDelete
  <1> QED BY <1>6, <1>7, <1>9

LEMMA UniqueSafe ==
    Safe(UniqueGet, Free) /\ Safe(UniqueAdd, Free) /\ Safe(UniqueUpdate, Free)
    /\ Safe(UniqueDelete, Free)
  <1> DEFINE w == Writing("unique")
  <1>1. "unique" \in Locks /\ "unique" \notin Last /\ "Get" \in Inner
        /\ "unique" \in DOMAIN Guards /\ Guards["unique"] = "unique"
    BY GuardFacts DEF Locks, Last, Inner
  <1>2. Safe(UniqueGet, Free)
    BY <1>1, UnderReadLock DEF Safe, UniqueGet
  <1>3. Runs(<<>>, w, w) /\ Runs(Call("Get"), w, w) /\ Runs(Writes("unique"), w, w)
    BY <1>1, UnderWriteLock
  <1>4. \A body : Runs(body, w, w) => Runs(Locked("unique", body), Free, Free)
    BY <1>1, UnderWriteLock
  <1> HIDE DEF w
  <1>5. \A rest \in {<<>>, Writes("unique")} : Runs(Call("Get") \o rest, w, w)
    BY <1>3, RunsBoth
  <1>6. Runs(Call("Get") \o Writes("unique"), w, w)
    BY <1>3, RunsBoth
  <1>7. Safe(UniqueAdd, Free) /\ Safe(UniqueUpdate, Free) /\ Safe(UniqueDelete, Free)
    BY <1>3, <1>4, <1>5, <1>6 DEF Safe, UniqueAdd, UniqueUpdate, UniqueDelete
  <1> QED BY <1>2, <1>7

(* A lock without others under it, taken under another.                    *)
LEMMA NestedRuns ==
    ASSUME NEW l \in Locks, l \notin Last, NEW k \in Last, NEW memory \in DOMAIN Guards,
           Guards[memory] \in {k, l}
    PROVE  /\ Runs(Locked(k, Writes(memory)), Writing(l), Writing(l))
           /\ Guards[memory] = k => Runs(RLocked(k, Reads(memory)), Reading(l), Reading(l))
  <1> DEFINE w == WithLock(Writing(l), k)
             r == WithRLock(Reading(l), k)
  <1>1. /\ k \in Locks /\ k # l /\ Writing(l) \in Holdings /\ Reading(l) \in Holdings
        /\ Writing(l).w[l] > 0 /\ Reading(l).r[k] <= 1
        /\ Takes(Writing(l), k) /\ Takes(Reading(l), k)
    BY Contexts DEF Last, Locks
  <1>2. w \in Holdings /\ w.w[k] > 0 /\ w.w[l] > 0
    BY <1>1, WithLocks
  <1>3. r \in Holdings /\ Has(r, k)
    BY <1>1, WithLocks DEF Has
  <1> HIDE DEF w, r
  <1>4. Runs(Writes(memory), w, w)
    BY <1>2, WriteRuns
  <1>5. Guards[memory] = k => Runs(Reads(memory), r, r)
    BY <1>3, ReadRuns
  <1>6. Runs(Locked(k, Writes(memory)), Writing(l), Writing(l))
    BY <1>1, <1>4, LockedRuns DEF w
  <1>7. Guards[memory] = k => Runs(RLocked(k, Reads(memory)), Reading(l), Reading(l))
    BY <1>1, <1>5, RLockedRuns DEF r
  <1> QED BY <1>6, <1>7

(* The sorted index.                                                       *)
LEMMA SortedSafe ==
    Safe(SortedIntersect, Free) /\ Safe(SortedAdd, Free) /\ Safe(SortedUpdate, Free)
    /\ Safe(SortedDelete, Free)
  <1> DEFINE w == Writing("sortedIndex")
  <1>1. "sortedIndex" \in Locks /\ "sortedIndex" \notin Last /\ "Get" \in Inner
        /\ "sorted" \in Last /\ "items" \in DOMAIN Guards /\ Guards["items"] = "sortedIndex"
    BY GuardFacts DEF Locks, Last, Inner
  <1>2. /\ w \in Holdings /\ Runs(<<>>, w, w) /\ Runs(Call("Get"), w, w)
        /\ Runs(Reads("items"), w, w)
    BY <1>1, UnderWriteLock
  <1>3. \A body : Runs(body, w, w) => Runs(Locked("sortedIndex", body), Free, Free)
    BY <1>1, UnderWriteLock
  <1>4. Runs(Writes("ids"), w, w) /\ Runs(Reads("ids"), Free, Free)
    BY <1>2, FreeFacts, GuardFacts, ReadRuns, WriteRuns DEF Open
  <1>5. Runs(Locked("sorted", Writes("items")), w, w)
    BY <1>1, NestedRuns
  <1> HIDE DEF w
  <1>6. Runs(Sorted, w, w)
    BY <1>2, <1>4, <1>5, RunsBoth DEF Sorted
  <1>7. Runs(Call("Get") \o Sorted, w, w) /\ Runs(Call("Get") \o <<>>, w, w)
    BY <1>2, <1>6, RunsBoth
  <1>8. Safe(SortedIntersect, Free)
    BY <1>4 DEF Safe, SortedIntersect
  <1>9. Safe(SortedAdd, Free) /\ Safe(SortedUpdate, Free) /\ Safe(SortedDelete, Free)
    BY <1>2, <1>3, <1>6, <1>7 DEF Safe, SortedAdd, SortedUpdate, SortedDelete
  <1> QED BY <1>8, <1>9

(* The suffix index.                                                       *)
LEMMA SuffixSafe ==
    /\ Safe(SuffixSearch, Free) /\ Safe(SuffixFind, Free) /\ Safe(Post, Free)
    /\ Safe(SuffixAdd, Free) /\ Safe(SuffixUpdate, Free)
  <1> DEFINE r == Reading("m")
             w == Writing("m")
  <1>1. "m" \in Locks /\ "m" \notin Last /\ "tree" \in Last /\ "postings" \in DOMAIN Guards
        /\ Guards["postings"] = "tree" /\ {"GetIndexByID", "GetIDByIndex"} \subseteq Inner
        /\ {"Get", "Post"} \subseteq DOMAIN Paths
    BY GuardFacts, MethodNames DEF Locks, Last, Inner
  <1>2. Runs(<<>>, r, r) /\ Runs(Call("GetIDByIndex"), r, r)
    BY <1>1, UnderReadLock
  <1>3. \A body : Runs(body, r, r) => Runs(RLocked("m", body), Free, Free)
    BY <1>1, UnderReadLock
  <1>4. Runs(<<>>, w, w) /\ Runs(Call("GetIndexByID"), w, w)
    BY <1>1, UnderWriteLock
  <1>5. \A body : Runs(body, w, w) => Runs(Locked("m", body), Free, Free)
    BY <1>1, UnderWriteLock
  <1>6. Runs(Search, r, r) /\ Runs(Locked("tree", Writes("postings")), w, w)
    BY <1>1, NestedRuns DEF Search
  <1>7. Runs(<<>>, Free, Free) /\ Runs(Call("Get"), Free, Free) /\ Runs(Call("Post"), Free, Free)
    BY <1>1, FreeFacts, CallRuns, RunsNothing
  <1> HIDE DEF r, w
  <1>8. ASSUME NEW searches, Runs(searches, r, r)
        PROVE  Safe(Find(searches), Free)
    <2>1. \A rest \in {<<>>, Call("GetIDByIndex")} : Runs(searches \o rest, r, r)
      BY <1>2, <1>8, RunsBoth
    <2> QED BY <1>3, <2>1 DEF Safe, Find
  <1>9. Safe(SuffixSearch, Free) /\ Safe(SuffixFind, Free)
    <2>1. Runs(Search \o Search, r, r)
      BY <1>6, RunsBoth
    <2> QED BY <1>6, <1>8, <2>1 DEF SuffixSearch, SuffixFind
  <1>10. Safe(Post, Free)
    <2>1. \A rest \in {<<>>, Locked("tree", Writes("postings"))} :
             Runs(Call("GetIndexByID") \o rest, w, w)
      BY <1>4, <1>6, RunsBoth
    <2> QED BY <1>5, <2>1 DEF Safe, Post
  <1>11. Safe(SuffixAdd, Free) /\ Safe(SuffixUpdate, Free)
    <2>1. \A rest \in {<<>>, Call("Post")} : Runs(Call("Get") \o rest, Free, Free)
      BY <1>7, RunsBoth
    <2> QED BY <1>7, <2>1 DEF Safe, SuffixAdd, SuffixUpdate
  <1> QED BY <1>9, <1>10, <1>11

(* The stream and the listeners of the application.                        *)
LEMMA StreamSafe ==
    Safe(Listen, Free) /\ Safe(AddListener, Free) /\ Safe(Paths["listener"], Free)
  <1>1. "stream" \in Locks /\ "listeners" \in DOMAIN Guards /\ Guards["listeners"] = "stream"
    BY GuardFacts DEF Locks
  <1>2. Safe(AddListener, Free)
    BY <1>1, UnderWriteLock DEF Safe, AddListener
  <1>3. Runs(RLocked("stream", Reads("listeners")), Free, Free)
    BY <1>1, UnderReadLock
  <1>4. Runs(<<>>, Free, Free)
    BY FreeFacts, RunsNothing
  <1>5. \A methods \in Seq(DOMAIN Paths) :
           Runs(RLocked("stream", Reads("listeners")) \o Calls(methods), Free, Free)
    BY <1>3, CallsRuns, RunsBoth
  <1>6. /\ <<"listener", "InverseAdd", "UniqueAdd", "SortedAdd", "SuffixAdd", "CacheAdd",
             "listener", "SuffixAdd">> \in Seq(DOMAIN Paths)
        /\ <<"listener", "InverseUpdate", "UniqueUpdate", "SortedUpdate", "SuffixUpdate",
             "CacheUpdate", "listener", "SuffixUpdate">> \in Seq(DOMAIN Paths)
        /\ <<"listener", "InverseDelete", "UniqueDelete", "SortedDelete", "SuffixUpdate",
             "CacheDelete", "listener", "SuffixUpdate">> \in Seq(DOMAIN Paths)
    BY MethodNames
  <1>7. Safe(Listen, Free)
    <2>1. Runs(RLocked("stream", Reads("listeners")) \o <<>>, Free, Free)
      BY <1>3, <1>4, RunsBoth
    <2> QED BY <1>5, <1>6, <2>1 DEF Safe, Listen, Handled
  <1>8. Safe(Paths["listener"], Free)
    <2>1. \A lookup \in Lookups : Runs(Call(lookup), Free, Free)
      BY MethodNames, FreeFacts, CallRuns DEF Lookups
    <2>2. Paths["listener"] = {<<>>} \cup {Call(lookup) : lookup \in Lookups}
      BY DEF Paths
    <2> QED BY <1>4, <2>1, <2>2 DEF Safe
  <1> QED BY <1>2, <1>7, <1>8

(* A call may be replaced by any path of the method.                       *)
LEMMA MethodsSafe ==
    ASSUME NEW method \in DOMAIN Paths, NEW h \in Holdings, Fits(method, h)
    PROVE  Safe(Paths[method], h)
  <1>1. CASE method \in Inner
    BY <1>1, InnerSafe
  <1>2. CASE method \notin Inner
    <2>1. h = Free
      BY <1>2 DEF Fits
    <2>2. /\ Paths["All"] = All /\ Paths["GetByIndex"] = GetByIndex
          /\ Paths["CacheAdd"] = CacheAdd /\ Paths["CacheUpdate"] = CacheUpdate
          /\ Paths["CacheDelete"] = CacheDelete /\ Paths["InverseGet"] = InverseGet
          /\ Paths["InverseAdd"] = InverseAdd /\ Paths["InverseUpdate"] = InverseUpdate
          /\ Paths["InverseDelete"] = InverseDelete /\ Paths["UniqueGet"] = UniqueGet
          /\ Paths["UniqueAdd"] = UniqueAdd /\ Paths["UniqueUpdate"] = UniqueUpdate
          /\ Paths["UniqueDelete"] = UniqueDelete
      BY DEF Paths
    <2>3. /\ Paths["SortedIntersect"] = SortedIntersect /\ Paths["SortedAdd"] = SortedAdd
          /\ Paths["SortedUpdate"] = SortedUpdate /\ Paths["SortedDelete"] = SortedDelete
          /\ Paths["SuffixSearch"] = SuffixSearch /\ Paths["SuffixFind"] = SuffixFind
          /\ Paths["Post"] = Post /\ Paths["SuffixAdd"] = SuffixAdd
          /\ Paths["SuffixUpdate"] = SuffixUpdate /\ Paths["Listen"] = Listen
          /\ Paths["AddListener"] = AddListener
      BY DEF Paths
    <2>4. method \in {"All", "GetByIndex", "CacheAdd", "CacheUpdate", "CacheDelete"} =>
             Safe(Paths[method], Free)
      BY <2>2, CacheSafe
    <2>5. method \in {"InverseGet", "InverseAdd", "InverseUpdate", "InverseDelete", "UniqueGet",
                      "UniqueAdd", "UniqueUpdate", "UniqueDelete"} => Safe(Paths[method], Free)
      BY <2>2, InverseSafe, UniqueSafe
    <2>6. method \in {"SortedIntersect", "SortedAdd", "SortedUpdate", "SortedDelete",
                      "SuffixSearch", "SuffixFind", "Post", "SuffixAdd", "SuffixUpdate",
                      "Listen", "AddListener", "listener"} => Safe(Paths[method], Free)
      BY <2>3, SortedSafe, SuffixSafe, StreamSafe
    <2> QED BY <1>2, <2>1, <2>4, <2>5, <2>6, MethodNames DEF Inner
  <1> QED BY <1>1, <1>2

-----------------------------------------------------------------------------
(* What a thread of the application does: it locks nothing for writing but *)
(* the stream, when it registers a collection, and calls only methods that *)
(* do not either.                                                          *)
AppMethods == Lookups \cup {"AddListener", "GetIDByIndex"}
AppSteps == {step \in Steps : /\ step.do = "call" => step.on \in AppMethods
                              /\ step.do = "lock" => step.on = "stream"}

(***************************************************************************)
(* The inductive invariant: who has a lock, who waits for it, that every   *)
(* thread has the locks its work assumes, that who waits to write is about *)
(* to, and that only the stream goroutine writes the cache.                *)
(***************************************************************************)
Types ==
    /\ work \in [Threads -> Seq(Steps)]
    /\ wanted \in [Locks -> Threads \cup {None}]
    /\ writer \in [Locks -> Threads \cup {None}]
    /\ readers \in [Locks -> [Threads -> 0..2]]
Exclusive ==
    \A l \in Locks : /\ writer[l] \in {None, wanted[l]}
                     /\ writer[l] # None => \A t \in Threads : readers[l][t] = 0
Held == \A t \in Threads : Runs(work[t], Holding(t), Free)
Waits ==
    \A l \in Locks : \A t \in Threads :
       wanted[l] = t /\ writer[l] = None => At(t, "lock") /\ On(t) = l
OneWriter ==
    /\ \A t \in App : work[t] \in Seq(AppSteps)
    /\ wanted["cache"] \in {None, Stream}

LocksInv == Types /\ Exclusive /\ Held /\ Waits /\ OneWriter

LEMMA HoldingType ==
    ASSUME Types, NEW t \in Threads
    PROVE  Holding(t) \in Holdings
  BY DEF Types, Holding, Holdings

LEMMA AppPaths ==
    ASSUME NEW method \in AppMethods, NEW p \in Paths[method], p \in Seq(Steps)
    PROVE  p \in Seq(AppSteps)
  <1> DEFINE S == Seq(AppSteps)
  <1>1. <<>> \in S /\ \A a, b : a \in S /\ b \in S => a \o b \in S
    OBVIOUS
  <1>2. \A m \in DOMAIN Guards \cup Open : Reads(m) \in S /\ Writes(m) \in S
    BY DEF AppSteps, Steps, Kinds, Reads, Writes, Do
  <1>3. \A m \in AppMethods : Call(m) \in S
    BY MethodNames DEF AppMethods, Lookups, AppSteps, Steps, Kinds, Call, Do
  <1>4. \A l \in Locks : Do("rlock", l) \in S /\ Do("runlock", l) \in S
    BY DEF AppSteps, Steps, Kinds, Do
  <1>5. Do("lock", "stream") \in S /\ Do("unlock", "stream") \in S
    BY DEF AppSteps, Steps, Kinds, Do, Locks
  <1> HIDE DEF S
  <1>6. \A l \in Locks, body \in S : RLocked(l, body) \in S
    BY <1>1, <1>4 DEF RLocked
  <1>7. \A body \in S : Locked("stream", body) \in S
    BY <1>1, <1>5 DEF Locked
  <1>8. /\ {"data", "documents", "numbering", "inverse", "unique", "postings", "listeners",
            "ids", "lists"} \subseteq DOMAIN Guards \cup Open
        /\ {"cache", "inverse", "unique", "m", "tree"} \subseteq Locks
        /\ {"GetIDByIndex", "Get"} \subseteq AppMethods
    BY GuardFacts DEF Open, Locks, AppMethods, Lookups
  <1>9. Get \subseteq S /\ All \subseteq S /\ GetIDByIndex \subseteq S
    BY <1>1, <1>2, <1>6, <1>8 DEF Get, All, GetIDByIndex
  <1>10. GetByIndex \subseteq S
    <2>1. /\ Call("Get") \in S /\ Call("GetIDByIndex") \in S /\ Writes("numbering") \in S
          /\ Call("Get") \o Writes("numbering") \in S
      BY <1>1, <1>2, <1>3, <1>8
    <2> QED BY <1>1, <1>6, <1>8, <2>1 DEF GetByIndex
  <1>11. InverseGet \subseteq S /\ UniqueGet \subseteq S /\ SortedIntersect \subseteq S
    BY <1>1, <1>2, <1>6, <1>8 DEF InverseGet, UniqueGet, SortedIntersect
  <1>12. SuffixSearch \subseteq S /\ SuffixFind \subseteq S
    <2>1. Search \in S /\ Search \o Search \in S /\ Call("GetIDByIndex") \in S
      BY <1>1, <1>2, <1>3, <1>6, <1>8 DEF Search
    <2>2. \A searches \in S : Find(searches) \subseteq S
      BY <1>1, <1>6, <1>8, <2>1 DEF Find
    <2> QED BY <2>1, <2>2 DEF SuffixSearch, SuffixFind
  <1>13. AddListener \subseteq S
    BY <1>2, <1>7, <1>8 DEF AddListener
  <1>14. /\ Paths["Get"] = Get /\ Paths["All"] = All /\ Paths["GetIDByIndex"] = GetIDByIndex
         /\ Paths["GetByIndex"] = GetByIndex /\ Paths["InverseGet"] = InverseGet
         /\ Paths["UniqueGet"] = UniqueGet /\ Paths["SortedIntersect"] = SortedIntersect
         /\ Paths["SuffixSearch"] = SuffixSearch /\ Paths["SuffixFind"] = SuffixFind
         /\ Paths["AddListener"] = AddListener
    BY DEF Paths
  <1>15. p \in S
    BY <1>9, <1>10, <1>11, <1>12, <1>13, <1>14 DEF AppMethods, Lookups
  <1> QED BY <1>15 DEF S

LEMMA LocksInit ==
    Init => LocksInv
  <1> SUFFICES ASSUME Init PROVE LocksInv
    OBVIOUS
  <1>1. Types
    BY DEF Init, Types
  <1>2. Exclusive
    BY LocksAssumption DEF Init, Exclusive, Threads
  <1>3. \A t \in Threads : Holding(t) = Free
    BY LocksAssumption DEF Init, Holding, Free
  <1>4. Held
    BY <1>3, FreeFacts, RunsNothing DEF Init, Held
  <1>5. Waits
    BY LocksAssumption DEF Init, Waits
  <1>6. OneWriter
    BY DEF Init, OneWriter, Locks, Threads
  <1> QED BY <1>1, <1>2, <1>4, <1>5, <1>6 DEF LocksInv

(* The next step of a thread's work, and the locks after it.               *)
LEMMA NextStep ==
    ASSUME LocksInv, NEW t \in Threads, work[t] # <<>>
    PROVE  /\ Head(work[t]) \in Steps
           /\ \E b \in Holdings : /\ Effect(Head(work[t]), Holding(t), b)
                                  /\ Runs(Tail(work[t]), b, Free)
  BY RunsOn DEF LocksInv, Held

LEMMA DoneTypes ==
    ASSUME LocksInv, NEW t \in Threads, work[t] # <<>>, Done(t)
    PROVE  /\ work' \in [Threads -> Seq(Steps)]
           /\ work'[t] = Tail(work[t]) /\ \A u \in Threads \ {t} : work'[u] = work[u]
           /\ \A u \in App : work'[u] \in Seq(AppSteps)
  <1>1. work \in [Threads -> Seq(Steps)] /\ App \subseteq Threads
    BY DEF LocksInv, Types, Threads
  <1>2. work'[t] = Tail(work[t]) /\ \A u \in Threads \ {t} : work'[u] = work[u]
    BY <1>1 DEF Done
  <1>3. Tail(work[t]) \in Seq(Steps)
    BY <1>1
  <1>4. work' \in [Threads -> Seq(Steps)]
    BY <1>1, <1>3 DEF Done
  <1>5. ASSUME NEW u \in App
        PROVE  work'[u] \in Seq(AppSteps)
    <2>1. work[u] \in Seq(AppSteps) /\ u \in Threads
      BY <1>1 DEF LocksInv, OneWriter
    <2>2. u = t => Tail(work[u]) \in Seq(AppSteps)
      BY <2>1
    <2> QED BY <1>2, <2>1, <2>2
  <1> QED BY <1>2, <1>4, <1>5

LEMMA DoneHeld ==
    ASSUME LocksInv, NEW t \in Threads, work[t] # <<>>, Done(t),
           NEW b, Runs(Tail(work[t]), b, Free), Holding(t)' = b,
           \A u \in Threads \ {t} : Holding(u)' = Holding(u)
    PROVE  Held'
  BY DoneTypes DEF LocksInv, Held

-----------------------------------------------------------------------------
(* Every step keeps the invariant.                                         *)
LEMMA BeginKeeps ==
    ASSUME LocksInv, NEW t \in Threads, Begin(t)
    PROVE  LocksInv'
  <1>1. PICK method \in IF t = Stream THEN {"Listen"} ELSE Lookups \cup {"AddListener"} :
           work' = [work EXCEPT ![t] = Call(method)]
    BY DEF Begin
  <1>2. /\ work \in [Threads -> Seq(Steps)] /\ work[t] = <<>>
        /\ UNCHANGED <<wanted, writer, readers>> /\ App \subseteq Threads
    BY DEF Begin, LocksInv, Types, Threads
  <1>3. method \in DOMAIN Paths
    BY <1>1, MethodNames DEF Lookups
  <1>4. Call(method) \in Seq(Steps) /\ (t \in App => Call(method) \in Seq(AppSteps))
    BY <1>1, <1>3, LocksAssumption DEF Call, Do, Steps, Kinds, AppSteps, AppMethods
  <1>5. /\ work' \in [Threads -> Seq(Steps)] /\ work'[t] = Call(method)
        /\ \A u \in Threads \ {t} : work'[u] = work[u]
    BY <1>1, <1>2, <1>4
  <1>6. \A u \in Threads : Holding(u)' = Holding(u)
    BY <1>2 DEF Holding
  <1>7. Types' /\ Exclusive'
    BY <1>2, <1>5 DEF LocksInv, Types, Exclusive
  <1>8. Held'
    <2>1. Holding(t) = Free
      BY <1>2, RunsEnds DEF LocksInv, Held
    <2>2. Runs(Call(method), Holding(t), Free)
      BY <1>3, <2>1, FreeFacts, CallRuns
    <2> QED BY <1>5, <1>6, <2>2 DEF LocksInv, Held
  <1>9. Waits'
    <2>1. \A l \in Locks : ~ (wanted[l] = t /\ writer[l] = None)
      BY <1>2 DEF LocksInv, Waits, At
    <2>2. \A u \in Threads \ {t} : At(u, "lock")' = At(u, "lock") /\ On(u)' = On(u)
      BY <1>5 DEF At, On
    <2> QED BY <1>2, <2>1, <2>2 DEF LocksInv, Waits
  <1>10. OneWriter'
    BY <1>2, <1>4, <1>5 DEF LocksInv, OneWriter
  <1> QED BY <1>7, <1>8, <1>9, <1>10 DEF LocksInv

LEMMA EnterKeeps ==
    ASSUME LocksInv, NEW t \in Threads, Enter(t)
    PROVE  LocksInv'
  <1> DEFINE method == On(t)
             h == Holding(t)
  <1>1. /\ work \in [Threads -> Seq(Steps)] /\ work[t] # <<>> /\ Head(work[t]).do = "call"
        /\ UNCHANGED <<wanted, writer, readers>> /\ App \subseteq Threads
    BY DEF Enter, At, LocksInv, Types, Threads
  <1>2. PICK p \in Paths[method] : work' = [work EXCEPT ![t] = p \o Tail(@)]
    BY DEF Enter
  <1>3. /\ h \in Holdings /\ method \in DOMAIN Paths /\ Fits(method, h)
        /\ Runs(Tail(work[t]), h, Free)
    BY <1>1, NextStep, HoldingType DEF Effect, On, LocksInv
  <1>4. Runs(p, h, h)
    BY <1>2, <1>3, MethodsSafe DEF Safe
  <1>5. p \in Seq(Steps) /\ p \o Tail(work[t]) \in Seq(Steps)
    BY <1>1, <1>4 DEF Runs
  <1>6. /\ work' \in [Threads -> Seq(Steps)] /\ work'[t] = p \o Tail(work[t])
        /\ \A u \in Threads \ {t} : work'[u] = work[u]
    BY <1>1, <1>2, <1>5
  <1>7. \A u \in Threads : Holding(u)' = Holding(u)
    BY <1>1 DEF Holding
  <1>8. Types' /\ Exclusive'
    BY <1>1, <1>6 DEF LocksInv, Types, Exclusive
  <1>9. Held'
    <2>1. Runs(p \o Tail(work[t]), h, Free)
      BY <1>3, <1>4, RunsBoth
    <2> QED BY <1>6, <1>7, <2>1 DEF LocksInv, Held
  <1>10. Waits'
    <2>1. \A l \in Locks : ~ (wanted[l] = t /\ writer[l] = None)
      BY <1>1 DEF LocksInv, Waits, At
    <2>2. \A u \in Threads \ {t} : At(u, "lock")' = At(u, "lock") /\ On(u)' = On(u)
      BY <1>6 DEF At, On
    <2> QED BY <1>1, <2>1, <2>2 DEF LocksInv, Waits
  <1>11. OneWriter'
    <2>1. ASSUME t \in App
          PROVE  p \o Tail(work[t]) \in Seq(AppSteps)
      <3>1. work[t] \in Seq(AppSteps)
        BY <2>1 DEF LocksInv, OneWriter
      <3>2. Head(work[t]) \in AppSteps /\ Tail(work[t]) \in Seq(AppSteps)
        BY <1>1, <3>1
      <3>3. method \in AppMethods
        BY <1>1, <3>2 DEF AppSteps, On
      <3>4. p \in Seq(AppSteps)
        BY <1>2, <1>5, <3>3, AppPaths
      <3> QED BY <3>2, <3>4
    <2> QED BY <1>1, <1>6, <2>1 DEF LocksInv, OneWriter
  <1> QED BY <1>8, <1>9, <1>10, <1>11 DEF LocksInv

(* Waits is kept by a step of a thread that does not wait to write, or that*)
(* writes now.                                                             *)
LEMMA WaitsKept ==
    ASSUME LocksInv, NEW t \in Threads,
           \A u \in Threads \ {t} : work'[u] = work[u],
           \A l \in Locks : wanted'[l] # None /\ writer'[l] = None =>
                               wanted'[l] = wanted[l] /\ writer[l] = None /\ wanted[l] # t
    PROVE  Waits'
  <1> SUFFICES ASSUME NEW l \in Locks, NEW u \in Threads, wanted'[l] = u, writer'[l] = None
               PROVE  At(u, "lock")' /\ On(u)' = l
    BY DEF Waits
  <1>1. u # None
    BY LocksAssumption
  <1>2. wanted[l] = u /\ writer[l] = None /\ u # t
    BY <1>1
  <1>3. At(u, "lock") /\ On(u) = l
    BY <1>2 DEF LocksInv, Waits
  <1> QED BY <1>2, <1>3 DEF At, On

LEMMA AccessKeeps ==
    ASSUME LocksInv, NEW t \in Threads, Access(t)
    PROVE  LocksInv'
  <1>1. /\ work[t] # <<>> /\ Head(work[t]).do \in {"read", "write"} /\ Done(t)
        /\ UNCHANGED <<wanted, writer, readers>>
    BY DEF Access, At
  <1>2. \A u \in Threads : Holding(u)' = Holding(u)
    BY <1>1 DEF Holding
  <1>3. Runs(Tail(work[t]), Holding(t), Free)
    BY <1>1, NextStep DEF Effect
  <1>4. Held'
    BY <1>1, <1>2, <1>3, DoneHeld
  <1>5. Types' /\ Exclusive' /\ OneWriter'
    BY <1>1, DoneTypes DEF LocksInv, Types, Exclusive, OneWriter
  <1>6. Waits'
    <2>1. \A l \in Locks : ~ (wanted[l] = t /\ writer[l] = None)
      BY <1>1 DEF LocksInv, Waits, At
    <2>2. \A u \in Threads \ {t} : work'[u] = work[u]
      BY <1>1, DoneTypes
    <2> QED BY <1>1, <2>1, <2>2, WaitsKept
  <1> QED BY <1>4, <1>5, <1>6 DEF LocksInv

LEMMA RLockKeeps ==
    ASSUME LocksInv, NEW t \in Threads, RLock(t)
    PROVE  LocksInv'
  <1> DEFINE l == On(t)
             h == Holding(t)
  <1>1. /\ work[t] # <<>> /\ Head(work[t]).do = "rlock" /\ Done(t) /\ wanted[l] = None
        /\ readers' = [readers EXCEPT ![l][t] = @ + 1] /\ UNCHANGED <<wanted, writer>>
    BY DEF RLock, At
  <1>2. PICK b \in Holdings : Effect(Head(work[t]), h, b) /\ Runs(Tail(work[t]), b, Free)
    BY <1>1, NextStep
  <1>3. l \in Locks /\ b = WithRLock(h, l)
    BY <1>1, <1>2 DEF Effect, On
  <1>4. readers \in [Locks -> [Threads -> 0..2]] /\ h \in Holdings
    BY HoldingType DEF LocksInv, Types
  <1> HIDE DEF l
  <1>5. readers[l][t] \in Nat /\ b.r[l] = readers[l][t] + 1 /\ b.r[l] \in 0..2
    BY <1>2, <1>3, <1>4 DEF WithRLock, Holdings, Holding
  <1>6. /\ readers' \in [Locks -> [Threads -> 0..2]] /\ readers'[l][t] = readers[l][t] + 1
        /\ \A k \in Locks, u \in Threads : k # l \/ u # t => readers'[k][u] = readers[k][u]
    BY <1>1, <1>3, <1>4, <1>5
  <1>7. \A u \in Threads \ {t} : Holding(u)' = Holding(u)
    BY <1>1, <1>6 DEF Holding
  <1>8. Holding(t)' = b
    <2>1. Holding(t)'.w = h.w /\ Holding(t)'.r = [k \in Locks |-> readers'[k][t]]
      BY <1>1 DEF Holding
    <2>2. [k \in Locks |-> readers'[k][t]] = [h.r EXCEPT ![l] = @ + 1]
      BY <1>3, <1>6 DEF Holding
    <2>3. Holding(t)' = [w |-> h.w, r |-> [h.r EXCEPT ![l] = @ + 1]]
      BY <1>1, <2>2 DEF Holding
    <2> QED BY <1>3, <2>3 DEF WithRLock
  <1>9. Held'
    BY <1>1, <1>2, <1>7, <1>8, DoneHeld
  <1>10. Types' /\ OneWriter'
    BY <1>1, <1>6, DoneTypes DEF LocksInv, Types, OneWriter
  <1>11. Exclusive'
    <2>1. writer[l] = None
      BY <1>1, <1>3 DEF LocksInv, Exclusive
    <2> QED BY <1>1, <1>6, <2>1 DEF LocksInv, Exclusive
  <1>12. Waits'
    <2>1. \A k \in Locks : ~ (wanted[k] = t /\ writer[k] = None)
      BY <1>1 DEF LocksInv, Waits, At
    <2>2. \A u \in Threads \ {t} : work'[u] = work[u]
      BY <1>1, DoneTypes
    <2> QED BY <1>1, <2>1, <2>2, WaitsKept
  <1> QED BY <1>9, <1>10, <1>11, <1>12 DEF LocksInv

LEMMA RUnlockKeeps ==
    ASSUME LocksInv, NEW t \in Threads, RUnlock(t)
    PROVE  LocksInv'
  <1> DEFINE l == On(t)
             h == Holding(t)
  <1>1. /\ work[t] # <<>> /\ Head(work[t]).do = "runlock" /\ Done(t)
        /\ readers' = [readers EXCEPT ![l][t] = @ - 1] /\ UNCHANGED <<wanted, writer>>
    BY DEF RUnlock, At
  <1>2. PICK b \in Holdings : Effect(Head(work[t]), h, b) /\ Runs(Tail(work[t]), b, Free)
    BY <1>1, NextStep
  <1>3. l \in Locks /\ h = WithRLock(b, l)
    BY <1>1, <1>2 DEF Effect, On
  <1>4. readers \in [Locks -> [Threads -> 0..2]] /\ h \in Holdings
    BY HoldingType DEF LocksInv, Types
  <1> HIDE DEF l
  <1>5. readers[l][t] = b.r[l] + 1 /\ b.r[l] \in 0..2 /\ b.w = h.w
        /\ \A k \in Locks \ {l} : b.r[k] = readers[k][t]
    BY <1>2, <1>3, <1>4 DEF WithRLock, Holdings, Holding
  <1>6. /\ readers' \in [Locks -> [Threads -> 0..2]] /\ readers'[l][t] = b.r[l]
        /\ \A k \in Locks, u \in Threads : k # l \/ u # t => readers'[k][u] = readers[k][u]
    BY <1>1, <1>3, <1>4, <1>5
  <1>7. \A u \in Threads \ {t} : Holding(u)' = Holding(u)
    BY <1>1, <1>6 DEF Holding
  <1>8. Holding(t)' = b
    <2>1. [k \in Locks |-> readers'[k][t]] = b.r
      BY <1>2, <1>3, <1>5, <1>6 DEF Holdings
    <2>2. Holding(t)' = [w |-> h.w, r |-> b.r]
      BY <1>1, <2>1 DEF Holding
    <2> QED BY <1>2, <1>5, <2>2 DEF Holdings
  <1>9. Held'
    BY <1>1, <1>2, <1>7, <1>8, DoneHeld
  <1>10. Types' /\ OneWriter'
    BY <1>1, <1>6, DoneTypes DEF LocksInv, Types, OneWriter
  <1>11. Exclusive'
    <2>1. writer[l] = None
      BY <1>3, <1>5 DEF LocksInv, Exclusive
    <2> QED BY <1>1, <1>6, <2>1 DEF LocksInv, Exclusive
  <1>12. Waits'
    <2>1. \A k \in Locks : ~ (wanted[k] = t /\ writer[k] = None)
      BY <1>1 DEF LocksInv, Waits, At
    <2>2. \A u \in Threads \ {t} : work'[u] = work[u]
      BY <1>1, DoneTypes
    <2> QED BY <1>1, <2>1, <2>2, WaitsKept
  <1> QED BY <1>9, <1>10, <1>11, <1>12 DEF LocksInv

LEMMA WantKeeps ==
    ASSUME LocksInv, NEW t \in Threads, Want(t)
    PROVE  LocksInv'
  <1> DEFINE l == On(t)
  <1>1. /\ work[t] # <<>> /\ Head(work[t]).do = "lock" /\ wanted[l] = None
        /\ wanted' = [wanted EXCEPT ![l] = t] /\ UNCHANGED <<work, writer, readers>>
    BY DEF Want, At
  <1>2. l \in Locks
    BY <1>1, NextStep DEF Effect, On
  <1>3. wanted \in [Locks -> Threads \cup {None}] /\ App \subseteq Threads
    BY DEF LocksInv, Types, Threads
  <1>4. t \in App => l = "stream"
    <2>1. ASSUME t \in App
          PROVE  Head(work[t]) \in AppSteps
      BY <1>1, <2>1 DEF LocksInv, OneWriter
    <2> QED BY <1>1, <2>1 DEF AppSteps, On
  <1>5. \A u \in Threads : /\ At(u, "lock")' = At(u, "lock") /\ On(u)' = On(u)
                           /\ Holding(u)' = Holding(u)
    BY <1>1 DEF At, On, Holding
  <1> HIDE DEF l
  <1>6. wanted' \in [Locks -> Threads \cup {None}] /\ wanted'[l] = t
        /\ \A k \in Locks \ {l} : wanted'[k] = wanted[k]
    BY <1>1, <1>2, <1>3
  <1>7. writer[l] = None
    BY <1>1, <1>2 DEF LocksInv, Exclusive
  <1>8. Types' /\ Exclusive'
    BY <1>1, <1>6, <1>7 DEF LocksInv, Types, Exclusive
  <1>9. Held'
    BY <1>1, <1>5 DEF LocksInv, Held
  <1>10. Waits'
    <2>1. At(t, "lock") /\ On(t) = l
      BY <1>1 DEF At, l
    <2> QED BY <1>1, <1>5, <1>6, <2>1 DEF LocksInv, Waits
  <1>11. OneWriter'
    <2>1. t \notin App => t = Stream
      BY DEF Threads
    <2>2. "cache" \in Locks
      BY DEF Locks
    <2> QED BY <1>1, <1>4, <1>6, <2>1, <2>2 DEF LocksInv, OneWriter
  <1> QED BY <1>8, <1>9, <1>10, <1>11 DEF LocksInv

LEMMA LockKeeps ==
    ASSUME LocksInv, NEW t \in Threads, Lock(t)
    PROVE  LocksInv'
  <1> DEFINE l == On(t)
             h == Holding(t)
  <1>1. /\ work[t] # <<>> /\ Head(work[t]).do = "lock" /\ Done(t)
        /\ wanted[l] = t /\ writer[l] = None /\ \A u \in Threads : readers[l][u] = 0
        /\ writer' = [writer EXCEPT ![l] = t] /\ UNCHANGED <<wanted, readers>>
    BY DEF Lock, At
  <1>2. PICK b \in Holdings : Effect(Head(work[t]), h, b) /\ Runs(Tail(work[t]), b, Free)
    BY <1>1, NextStep
  <1>3. l \in Locks /\ b = WithLock(h, l)
    BY <1>1, <1>2 DEF Effect, On
  <1>4. writer \in [Locks -> Threads \cup {None}] /\ t # None
    BY LocksAssumption DEF LocksInv, Types
  <1>5. At(t, "lock")
    BY <1>1 DEF At
  <1>6. \A k \in Locks \ {l} : ~ (wanted[k] = t /\ writer[k] = None)
    BY DEF LocksInv, Waits
  <1> HIDE DEF l
  <1>7. /\ writer' \in [Locks -> Threads \cup {None}] /\ writer'[l] = t
        /\ \A k \in Locks \ {l} : writer'[k] = writer[k]
    BY <1>1, <1>3, <1>4
  <1>8. \A u \in Threads \ {t} : Holding(u)' = Holding(u)
    <2> SUFFICES ASSUME NEW u \in Threads \ {t} PROVE Holding(u)' = Holding(u)
      OBVIOUS
    <2>1. \A k \in Locks : (writer'[k] = u) = (writer[k] = u)
      BY <1>1, <1>3, <1>7, LocksAssumption
    <2> QED BY <1>1, <2>1 DEF Holding
  <1>9. Holding(t)' = b
    <2>1. h.w = [k \in Locks |-> IF writer[k] = t THEN 1 ELSE 0] /\ h.r = [k \in Locks |-> readers[k][t]]
      BY DEF Holding
    <2>2. [k \in Locks |-> IF writer'[k] = t THEN 1 ELSE 0] = [h.w EXCEPT ![l] = @ + 1]
      BY <1>1, <1>3, <1>4, <1>7, <2>1
    <2>3. Holding(t)' = [w |-> [h.w EXCEPT ![l] = @ + 1], r |-> h.r]
      BY <1>1, <2>1, <2>2 DEF Holding
    <2> QED BY <1>3, <2>3 DEF WithLock
  <1>10. Held'
    BY <1>1, <1>2, <1>8, <1>9, DoneHeld
  <1>11. Types' /\ OneWriter'
    BY <1>1, <1>7, DoneTypes DEF LocksInv, Types, OneWriter
  <1>12. Exclusive'
    BY <1>1, <1>7 DEF LocksInv, Exclusive
  <1>13. Waits'
    <2>1. \A u \in Threads \ {t} : work'[u] = work[u]
      BY <1>1, DoneTypes
    <2>2. \A k \in Locks : wanted'[k] # None /\ writer'[k] = None =>
             wanted'[k] = wanted[k] /\ writer[k] = None /\ wanted[k] # t
      BY <1>1, <1>4, <1>6, <1>7
    <2> QED BY <2>1, <2>2, WaitsKept
  <1> QED BY <1>10, <1>11, <1>12, <1>13 DEF LocksInv

LEMMA UnlockKeeps ==
    ASSUME LocksInv, NEW t \in Threads, Unlock(t)
    PROVE  LocksInv'
  <1> DEFINE l == On(t)
             h == Holding(t)
  <1>1. /\ work[t] # <<>> /\ Head(work[t]).do = "unlock" /\ Done(t)
        /\ writer' = [writer EXCEPT ![l] = None] /\ wanted' = [wanted EXCEPT ![l] = None]
        /\ UNCHANGED readers
    BY DEF Unlock, At
  <1>2. PICK b \in Holdings : Effect(Head(work[t]), h, b) /\ Runs(Tail(work[t]), b, Free)
    BY <1>1, NextStep
  <1>3. l \in Locks /\ h = WithLock(b, l)
    BY <1>1, <1>2 DEF Effect, On
  <1>4. /\ writer \in [Locks -> Threads \cup {None}] /\ t # None
        /\ wanted \in [Locks -> Threads \cup {None}]
    BY LocksAssumption DEF LocksInv, Types
  <1> HIDE DEF l
  <1>5. /\ writer' \in [Locks -> Threads \cup {None}] /\ writer'[l] = None
        /\ wanted' \in [Locks -> Threads \cup {None}] /\ wanted'[l] = None
        /\ \A k \in Locks \ {l} : writer'[k] = writer[k] /\ wanted'[k] = wanted[k]
    BY <1>1, <1>3, <1>4
  <1>6. /\ writer[l] = t /\ b.w[l] = 0 /\ b.r = h.r
        /\ \A k \in Locks \ {l} : b.w[k] = h.w[k]
    BY <1>2, <1>3 DEF WithLock, Holdings, Holding
  <1>7. \A u \in Threads \ {t} : Holding(u)' = Holding(u)
    <2> SUFFICES ASSUME NEW u \in Threads \ {t} PROVE Holding(u)' = Holding(u)
      OBVIOUS
    <2>1. \A k \in Locks : (writer'[k] = u) = (writer[k] = u)
      BY <1>5, <1>6, LocksAssumption
    <2> QED BY <1>1, <2>1 DEF Holding
  <1>8. Holding(t)' = b
    <2>1. h.w = [k \in Locks |-> IF writer[k] = t THEN 1 ELSE 0] /\ h.r = [k \in Locks |-> readers[k][t]]
      BY DEF Holding
    <2>2. [k \in Locks |-> IF writer'[k] = t THEN 1 ELSE 0] = b.w
      BY <1>2, <1>4, <1>5, <1>6, <2>1 DEF Holdings
    <2>3. Holding(t)' = [w |-> b.w, r |-> b.r]
      BY <1>1, <1>6, <2>1, <2>2 DEF Holding
    <2> QED BY <1>2, <2>3 DEF Holdings
  <1>9. Held'
    BY <1>1, <1>2, <1>7, <1>8, DoneHeld
  <1>10. Types'
    BY <1>1, <1>5, DoneTypes DEF LocksInv, Types
  <1>11. Exclusive'
    BY <1>1, <1>5 DEF LocksInv, Exclusive
  <1>12. Waits'
    <2>1. \A u \in Threads \ {t} : work'[u] = work[u]
      BY <1>1, DoneTypes
    <2>2. ASSUME NEW k \in Locks, wanted'[k] # None, writer'[k] = None
          PROVE  wanted'[k] = wanted[k] /\ writer[k] = None /\ wanted[k] # t
      <3>1. k # l /\ wanted'[k] = wanted[k] /\ writer[k] = None
        BY <1>5, <2>2
      <3>2. ~ (wanted[k] = t /\ writer[k] = None)
        BY <1>1 DEF LocksInv, Waits, At
      <3> QED BY <3>1, <3>2
    <2> QED BY <2>1, <2>2, WaitsKept
  <1>13. OneWriter'
    <2>1. "cache" \in Locks /\ \A u \in App : work'[u] \in Seq(AppSteps)
      BY <1>1, DoneTypes DEF Locks
    <2> QED BY <1>5, <2>1 DEF LocksInv, OneWriter
  <1> QED BY <1>9, <1>10, <1>11, <1>12, <1>13 DEF LocksInv

LEMMA LocksInductive ==
    LocksInv /\ [Next]_vars => LocksInv'
  <1> SUFFICES ASSUME LocksInv, [Next]_vars PROVE LocksInv'
    OBVIOUS
  <1>1. CASE UNCHANGED vars
    <2>1. UNCHANGED <<work, wanted, writer, readers>>
      BY <1>1 DEF vars
    <2>2. \A t \in Threads : Holding(t)' = Holding(t)
      BY <2>1 DEF Holding
    <2>3. Types' /\ Exclusive' /\ OneWriter'
      BY <2>1 DEF LocksInv, Types, Exclusive, OneWriter
    <2>4. Held'
      BY <2>1, <2>2 DEF LocksInv, Held
    <2>5. Waits'
      BY <2>1 DEF LocksInv, Waits, At, On
    <2> QED BY <2>3, <2>4, <2>5 DEF LocksInv
  <1>2. CASE Next
    BY <1>2, BeginKeeps, EnterKeeps, AccessKeeps, RLockKeeps, RUnlockKeeps, WantKeeps, LockKeeps,
       UnlockKeeps DEF Next, Step
  <1> QED BY <1>1, <1>2

LEMMA LocksAlways ==
    Spec => []LocksInv
  BY LocksInit, LocksInductive, PTL DEF Spec

-----------------------------------------------------------------------------
(***************************************************************************)
(* Locks are had by one writer or by readers, by no reader more than twice,*)
(* and whoever writes under one has said so to the readers: for any number *)
(* of threads.                                                             *)
(***************************************************************************)
THEOREM LocksAreExclusive ==
    Spec => []TypeOK
  <1>1. LocksInv => TypeOK
    <2> SUFFICES ASSUME LocksInv PROVE TypeOK
      OBVIOUS
    <2>1. ASSUME NEW t \in Threads, NEW k \in DOMAIN work[t]
          PROVE  /\ work[t][k].do = "call" => work[t][k].on \in DOMAIN Paths
                 /\ work[t][k].do \in {"lock", "unlock", "rlock", "runlock"} => work[t][k].on \in Locks
      <3>1. Runs(work[t], Holding(t), Free)
        BY DEF LocksInv, Held
      <3>2. PICK at : Along(work[t], at)
        BY <3>1 DEF Runs
      <3>3. k \in 1..Len(work[t])
        BY <3>1 DEF Runs
      <3>4. Effect(work[t][k], at[k], at[k + 1])
        BY <3>2, <3>3 DEF Along
      <3> QED BY <3>4 DEF Effect
    <2>2. \A l \in Locks : \A t \in Threads : readers[l][t] \in 0..2
      BY DEF LocksInv, Types
    <2> QED BY <2>1, <2>2 DEF TypeOK, LocksInv, Types, Exclusive
  <1> QED BY <1>1, LocksAlways, PTL

(***************************************************************************)
(* However many threads look things up, shared memory is written under its *)
(* lock, but for the list that Sorted.Intersect reads, the lists that      *)
(* InverseIndex.Get has handed out and the numbering, which GetByIndex     *)
(* changes under a lock for reading.                                       *)
(***************************************************************************)
THEOREM RacesAreKnown ==
    Spec => []RacesKnown
  <1>1. ASSUME LocksInv, NEW t \in Threads, NEW u \in Threads, Race(t, u)
        PROVE  On(t) \in {"ids", "lists"} \/ (On(t) = "numbering" /\ readers["cache"][t] > 0)
    <2> DEFINE memory == On(t)
    <2>1. /\ t # u /\ On(u) = memory /\ work[t] # <<>> /\ work[u] # <<>>
          /\ Head(work[t]).do = "write" /\ Head(work[u]).do \in {"read", "write"}
      BY <1>1 DEF Race, At
    <2>2. \/ memory \in Open
          \/ memory \in DOMAIN Guards /\ Holding(t).w[Guards[memory]] > 0
          \/ memory = "numbering" /\ Holding(t).r["cache"] > 0
      BY <1>1, <2>1, NextStep DEF Effect, On
    <2>3. \/ memory \in Open
          \/ memory \in DOMAIN Guards /\ Has(Holding(u), Guards[memory])
          \/ memory = "numbering" /\ Holding(u).r["cache"] > 0
      BY <1>1, <2>1, NextStep DEF Effect, On, Has
    <2> HIDE DEF memory
    <2>4. CASE memory \in Open
      BY <2>4 DEF Open, memory
    <2>5. CASE memory = "numbering" /\ Holding(t).r["cache"] > 0
      BY <2>5 DEF Holding, Locks, memory
    <2>6. CASE /\ memory \notin Open /\ memory \in DOMAIN Guards
               /\ Holding(t).w[Guards[memory]] > 0
      <3> DEFINE l == Guards[memory]
      <3>1. l \in Locks /\ Has(Holding(u), l)
        BY <2>3, <2>6, GuardFacts DEF Locks, Has
      <3>2. Holding(t).w[l] > 0
        BY <2>6
      <3> HIDE DEF l
      <3>3. writer[l] = t
        BY <3>1, <3>2 DEF Holding
      <3>4. writer[l] # u /\ writer[l] # None
        BY <2>1, <3>3, LocksAssumption
      <3>5. readers[l][u] = 0
        BY <1>1, <3>1, <3>4 DEF LocksInv, Exclusive
      <3> QED BY <3>1, <3>4, <3>5 DEF Has, Holding
    <2> QED BY <2>2, <2>4, <2>5, <2>6
  <1>2. LocksInv => RacesKnown
    BY <1>1 DEF RacesKnown
  <1> QED BY <1>2, LocksAlways, PTL

(***************************************************************************)
(* No circle: if any thread has work, some thread can go on, unless a      *)
(* thread of the application waits for a lock it has itself, in GetByIndex *)
(* (idx.go), with the stream goroutine in between.  Locks come in two      *)
(* ranks: whoever has one of rank Last waits for none, but for the cache's *)
(* lock, taken again to read.                                              *)
(***************************************************************************)
Blocked(t) ==
    \/ At(t, "rlock") /\ wanted[On(t)] # None
    \/ At(t, "lock") /\ wanted[On(t)] \notin {None, t}
    \/ /\ At(t, "lock") /\ wanted[On(t)] = t
       /\ writer[On(t)] # None \/ \E u \in Threads : readers[On(t)][u] # 0

Goes(t) == work[t] # <<>> /\ ~ Blocked(t)

NeverStuck ==
    (\E t \in Threads : work[t] # <<>>) =>
       (\E t \in Threads : Goes(t)) \/ \E u \in App : SelfBlocked(u)

(* A thread that waits and may go on as soon as others do.                 *)
LEMMA WhatBlocked ==
    ASSUME LocksInv, NEW t \in Threads, Blocked(t)
    PROVE  /\ On(t) \in Locks
           /\ \/ At(t, "lock") /\ Takes(Holding(t), On(t))
              \/ At(t, "rlock") /\ Takes(Holding(t), On(t))
              \/ At(t, "rlock") /\ On(t) = "cache" /\ TakesAgain(Holding(t))
  BY NextStep DEF Blocked, At, On, Effect

(* Somebody has the lock it waits for, or goes on.                         *)
LEMMA SomebodyHas ==
    ASSUME LocksInv, NEW t \in Threads, Blocked(t)
    PROVE  (\E u \in Threads : Goes(u)) \/ \E u \in Threads : Has(Holding(u), On(t))
  <1> DEFINE l == On(t)
  <1>1. l \in Locks
    BY WhatBlocked
  <1>2. /\ writer[l] \in {None, wanted[l]} /\ wanted[l] \in Threads \cup {None}
        /\ readers[l] \in [Threads -> 0..2]
    BY <1>1 DEF LocksInv, Exclusive, Types
  <1> HIDE DEF l
  <1>3. ASSUME NEW u \in Threads, writer[l] = u \/ readers[l][u] # 0
        PROVE  Has(Holding(u), l)
    BY <1>1, <1>2, <1>3 DEF Has, Holding
  <1>4. wanted[l] # None
    BY LocksAssumption DEF Blocked, l
  <1>5. PICK v \in Threads : wanted[l] = v
    BY <1>2, <1>4
  <1>6. writer[l] # None => Has(Holding(v), l)
    BY <1>2, <1>3, <1>5
  <1>7. ASSUME writer[l] = None, \A u \in Threads : readers[l][u] = 0
        PROVE  Goes(v)
    <2>1. At(v, "lock") /\ On(v) = l
      BY <1>1, <1>5, <1>7 DEF LocksInv, Waits
    <2>2. ~ Blocked(v)
      BY <1>5, <1>7, <2>1 DEF Blocked, At
    <2> QED BY <2>1, <2>2 DEF Goes, At
  <1>8. \A u \in Threads : readers[l][u] # 0 => Has(Holding(u), l)
    BY <1>3
  <1> QED BY <1>6, <1>7, <1>8 DEF l

(* Who has a lock has work.                                                *)
LEMMA HoldersWork ==
    ASSUME LocksInv, NEW t \in Threads, NEW l \in Locks, Has(Holding(t), l)
    PROVE  work[t] # <<>>
  <1>1. Runs(work[t], Holding(t), Free) /\ ~ Has(Free, l)
    BY FreeFacts DEF LocksInv, Held
  <1> QED BY <1>1, RunsEnds

(* Only the application reads the cache under a lock it has already, and   *)
(* only the stream goroutine can come in between.                          *)
LEMMA AgainIsSelfBlocked ==
    ASSUME LocksInv, NEW t \in Threads, Blocked(t), At(t, "rlock"), On(t) = "cache",
           TakesAgain(Holding(t)), Has(Holding(t), "cache")
    PROVE  \E u \in App : SelfBlocked(u)
  <1>1. "cache" \in Locks
    BY DEF Locks
  <1>2. Holding(t).w["cache"] = 0 /\ Holding(t).r["cache"] # 0
    BY <1>1 DEF TakesAgain, Has, Last, LocksInv, Types, Holding
  <1>3. readers["cache"][t] # 0 /\ readers["cache"][t] \in 0..2
    BY <1>1, <1>2 DEF Holding, LocksInv, Types
  <1>4. wanted["cache"] = Stream
    BY DEF Blocked, At, LocksInv, OneWriter
  <1>5. writer["cache"] = None
    BY <1>1, <1>3 DEF LocksInv, Exclusive
  <1>6. t # Stream
    BY <1>1, <1>4, <1>5 DEF LocksInv, Waits, At
  <1>7. t \in App /\ wanted["cache"] # None
    BY <1>4, <1>6, LocksAssumption DEF Threads
  <1> QED BY <1>3, <1>7 DEF SelfBlocked

THEOREM LocksNeverStuck ==
    Spec => []NeverStuck
  <1>1. LocksInv => NeverStuck
    <2> SUFFICES ASSUME LocksInv, NEW t \in Threads, work[t] # <<>>,
                        ~ \E u \in Threads : Goes(u), ~ \E u \in App : SelfBlocked(u)
                 PROVE  FALSE
      BY DEF NeverStuck
    <2>1. \A u \in Threads : work[u] # <<>> => Blocked(u)
      BY DEF Goes
    <2>2. ASSUME NEW u \in Threads, NEW l \in Locks, Has(Holding(u), l)
          PROVE  /\ On(u) \in Last /\ l \notin Last
                 /\ Blocked(u) /\ On(u) \in Locks
      <3>1. Blocked(u)
        BY <2>1, <2>2, HoldersWork
      <3>2. ~ (At(u, "rlock") /\ On(u) = "cache" /\ TakesAgain(Holding(u)) /\ Has(Holding(u), "cache"))
        BY <3>1, AgainIsSelfBlocked
      <3>3. CASE Takes(Holding(u), On(u))
        BY <2>2, <3>1, <3>3, WhatBlocked DEF Takes
      <3>4. CASE At(u, "rlock") /\ On(u) = "cache" /\ TakesAgain(Holding(u))
        <4>1. l \notin Last
          BY <2>2, <3>2, <3>4 DEF TakesAgain
        <4> QED BY <3>1, <3>4, <4>1 DEF Last, Locks
      <3> QED BY <3>1, <3>3, <3>4, WhatBlocked
    <2>3. Blocked(t)
      BY <2>1
    <2>4. PICK u \in Threads : Has(Holding(u), On(t))
      BY <2>3, SomebodyHas
    <2>5. On(t) \in Locks
      BY <2>3, WhatBlocked
    <2>6. On(u) \in Last /\ On(u) \in Locks /\ Blocked(u)
      BY <2>2, <2>4, <2>5
    <2>7. PICK x \in Threads : Has(Holding(x), On(u))
      BY <2>6, SomebodyHas
    <2> QED BY <2>2, <2>6, <2>7
  <1> QED BY <1>1, LocksAlways, PTL
=============================================================================
