---------------------------- MODULE Await_proofs ----------------------------
(***************************************************************************)
(* Proofs about Await, for any callers, documents, assignment of writes to *)
(* callers, faults and bound.                                              *)
(***************************************************************************)
EXTENDS Await, TLAPS

(* What an Append leaves and adds.                                         *)
LEMMA AppendFacts ==
    ASSUME NEW S, NEW s \in Seq(S), NEW e \in S
    PROVE  /\ Append(s, e) \in Seq(S)
           /\ Len(Append(s, e)) = Len(s) + 1
           /\ \A k \in 1..Len(s) : Append(s, e)[k] = s[k]
           /\ Append(s, e)[Len(s) + 1] = e
  OBVIOUS

LEMMA ElementFacts ==
    ASSUME NEW S, NEW s \in Seq(S), NEW k \in 1..Len(s)
    PROVE  s[k] \in S
  OBVIOUS

(* What a commit does to the oplog and the history.                        *)
LEMMA CommitFacts ==
    ASSUME TypeOK, HistoryOK, NEW op \in Ops, NEW i \in Ids, Commit(op, i)
    PROVE  /\ oplog' \in Seq([op : Ops, id : Ids])
           /\ history' \in Seq([Ids -> Nat])
           /\ Len(oplog') = Len(oplog) + 1
           /\ Len(history') = Len(history) + 1
           /\ \A k \in 1..Len(oplog) : oplog'[k] = oplog[k]
           /\ oplog'[Len(oplog) + 1] = [op |-> op, id |-> i]
           /\ \A k \in 1..Len(history) : history'[k] = history[k]
           /\ history'[Len(history) + 1] =
                 [db EXCEPT ![i] = IF op = "delete" THEN NoDoc ELSE Len(oplog) + 1]
  <1> DEFINE entry == [op |-> op, id |-> i]
             state == [db EXCEPT ![i] = IF op = "delete" THEN NoDoc ELSE Len(oplog) + 1]
  <1>1. oplog \in Seq([op : Ops, id : Ids]) /\ history \in Seq([Ids -> Nat])
    BY DEF TypeOK
  <1>2. entry \in [op : Ops, id : Ids]
    OBVIOUS
  <1>3. Len(oplog) \in Nat /\ Len(history) = Len(oplog) + 1
    BY <1>1 DEF HistoryOK
  <1>4. db \in [Ids -> Nat]
    BY <1>1, <1>3 DEF db
  <1>5. state \in [Ids -> Nat]
    BY <1>3, <1>4 DEF NoDoc
  <1>6. oplog' = Append(oplog, entry) /\ history' = Append(history, state)
    BY DEF Commit
  <1> HIDE DEF entry, state
  <1>7. /\ oplog' \in Seq([op : Ops, id : Ids])
        /\ Len(oplog') = Len(oplog) + 1
        /\ \A k \in 1..Len(oplog) : oplog'[k] = oplog[k]
        /\ oplog'[Len(oplog) + 1] = entry
    BY <1>1, <1>2, <1>6, AppendFacts
  <1>8. /\ history' \in Seq([Ids -> Nat])
        /\ Len(history') = Len(history) + 1
        /\ \A k \in 1..Len(history) : history'[k] = history[k]
        /\ history'[Len(history) + 1] = state
    BY <1>1, <1>5, <1>6, AppendFacts
  <1> QED BY <1>7, <1>8 DEF entry, state

(* The key of a call, and of the event being dispatched, is in the         *)
(* Notifier's maps.                                                        *)
LEMMA Keys ==
    ASSUME TypeOK
    PROVE  /\ \A c \in Clients : KeyOf(c) \in Ops \X Ids /\ OpOf(call[c].kind) \in Ops
           /\ applied # 0 => Dispatched \in Ops \X Ids
  <1>1. ASSUME NEW c \in Clients
        PROVE  KeyOf(c) \in Ops \X Ids /\ OpOf(call[c].kind) \in Ops
    <2>1. call[c] \in [kind : Kinds, id : Ids, base : Nat]
      BY DEF TypeOK
    <2>2. call[c].kind \in Kinds /\ call[c].id \in Ids
      BY <2>1
    <2>3. OpOf(call[c].kind) \in Ops
      BY <2>2 DEF OpOf, Kinds, Ops
    <2> QED BY <2>2, <2>3 DEF KeyOf
  <1>2. ASSUME applied # 0
        PROVE  Dispatched \in Ops \X Ids
    <2>1. oplog \in Seq([op : Ops, id : Ids]) /\ applied \in 1..Len(oplog)
      BY <1>2 DEF TypeOK
    <2>2. oplog[applied] \in [op : Ops, id : Ids]
      BY <2>1, ElementFacts
    <2> QED BY <2>2 DEF Dispatched
  <1> QED BY <1>1, <1>2

-----------------------------------------------------------------------------
(* Type correctness.                                                       *)

LEMMA TypeInit == ASSUME Init PROVE TypeOK
  <1>1. [i \in Ids |-> NoDoc] \in [Ids -> Nat]
    BY DEF NoDoc
  <1>2. history \in Seq([Ids -> Nat]) /\ cache \in [Ids -> Nat]
    BY <1>1 DEF Init
  <1>3. oplog \in Seq([op : Ops, id : Ids]) /\ applied \in 0..Len(oplog)
    BY DEF Init
  <1>4. call \in [Clients -> [kind : Kinds, id : Ids, base : Nat]]
    BY DEF Init, Kinds, Ops, NoDoc
  <1> QED BY <1>2, <1>3, <1>4 DEF Init, TypeOK

LEMMA TypeStep ==
    ASSUME ConstantsAssumption, TypeOK, HistoryOK, StreamOK, [Next]_vars
    PROVE  TypeOK'
  <1> USE DEF TypeOK
  <1>1. ASSUME NEW c \in Clients, Begin(c)
        PROVE  TypeOK'
    <2>1. PICK kind \in Kinds, i \in Writes[c] :
             \E base \in Bases(kind, i) :
                call' = [call EXCEPT ![c] = [kind |-> kind, id |-> i, base |-> base]]
      BY <1>1 DEF Begin
    <2>2. i \in Ids
      BY DEF ConstantsAssumption
    <2>3. Bases(kind, i) \subseteq Nat
      BY <2>2 DEF Bases, AnyVersion
    <2>4. call' \in [Clients -> [kind : Kinds, id : Ids, base : Nat]]
      BY <2>1, <2>2, <2>3
    <2> QED BY <1>1, <2>4 DEF Begin, mongoVars, streamVars
  <1>2. ASSUME NEW c \in Clients, Subscribe(c)
        PROVE  TypeOK'
    <2>1. KeyOf(c) \in Ops \X Ids
      BY Keys
    <2>2. listeners' \in [Ops \X Ids -> SUBSET Clients]
      BY <1>2, <2>1 DEF Subscribe
    <2> QED BY <1>2, <2>2 DEF Subscribe, mongoVars, streamVars
  <1>3. ASSUME NEW c \in Clients, Prepare(c)
        PROVE  TypeOK'
    BY <1>3 DEF Prepare, GiveUp, mongoVars, streamVars
  <1>4. ASSUME NEW c \in Clients, WriteHit(c)
        PROVE  TypeOK'
    <2>1. OpOf(call[c].kind) \in Ops /\ call[c].id \in Ids
      BY Keys
    <2>2. /\ oplog' \in Seq([op : Ops, id : Ids])
          /\ history' \in Seq([Ids -> Nat])
          /\ Len(oplog') = Len(oplog) + 1
      BY <1>4, <2>1, CommitFacts DEF WriteHit
    <2>3. applied' \in 0..Len(oplog')
      BY <1>4, <2>2 DEF WriteHit, streamVars
    <2>4. own' \in [Clients -> Nat]
      BY <1>4 DEF WriteHit
    <2>5. pc' \in [Clients -> {"idle", "subscribe", "prepare", "write", "receive", "unsubscribe"}]
          /\ reply' \in [Clients -> {"none", "ok", "unmatched", "error", "noop"}]
          /\ call' = call
      <3>1. CASE Await(c, "ok")
        BY <3>1 DEF Await
      <3>2. CASE GiveUp(c, "error")
        BY <3>2 DEF GiveUp
      <3> QED BY <1>4, <3>1, <3>2 DEF WriteHit
    <2> QED BY <1>4, <2>2, <2>3, <2>4, <2>5 DEF WriteHit, streamVars
  <1>5. ASSUME NEW c \in Clients, WriteMiss(c) \/ WriteNothing(c) \/ WriteFails(c)
        PROVE  TypeOK'
    BY <1>5 DEF WriteMiss, WriteNothing, WriteFails, Await, GiveUp, mongoVars, streamVars
  <1>6. ASSUME NEW c \in Clients, Unsubscribe(c)
        PROVE  TypeOK'
    <2>1. KeyOf(c) \in Ops \X Ids
      BY Keys
    <2>2. listeners' \in [Ops \X Ids -> SUBSET Clients]
      BY <1>6, <2>1 DEF Unsubscribe
    <2> QED BY <1>6, <2>2 DEF Unsubscribe, mongoVars, streamVars
  <1>7. CASE TryNext
    <2>1. applied' \in 0..Len(oplog) /\ applied' \in Nat /\ oplog' = oplog
      BY <1>7 DEF TryNext, mongoVars
    <2>2. cache' \in [Ids -> Nat]
      <3> DEFINE event == oplog[applied + 1]
      <3>1. event \in [op : Ops, id : Ids] /\ applied + 1 \in Nat
        <4>1. applied + 1 \in 1..Len(oplog)
          BY <1>7 DEF TryNext
        <4>2. oplog[applied + 1] \in [op : Ops, id : Ids]
          BY <4>1, ElementFacts
        <4> QED BY <4>2
      <3>2. cache' = [cache EXCEPT ![event.id] =
                   CASE event.op = "create" -> applied + 1
                     [] event.op = "delete" -> NoDoc
                     [] event.op = "update" -> IF @ = NoDoc THEN @ ELSE applied + 1]
        BY <1>7 DEF TryNext
      <3> HIDE DEF event
      <3> QED BY <3>1, <3>2 DEF Ops, NoDoc
    <2> QED BY <1>7, <2>1, <2>2 DEF TryNext, mongoVars, callVars
  <1>8. CASE StreamEnds
    BY <1>8 DEF StreamEnds, mongoVars, callVars
  <1>9. CASE NotifyLock
    <2>1. Dispatched \in Ops \X Ids
      BY <1>9, Keys DEF NotifyLock, StreamOK
    <2>2. pending' \subseteq Clients
      BY <1>9, <2>1 DEF NotifyLock
    <2> QED BY <1>9, <2>2 DEF NotifyLock, mongoVars, callVars
  <1>10. CASE CallNext
    BY <1>10 DEF CallNext, mongoVars, callVars
  <1>11. ASSUME NEW c \in Clients, Handoff(c)
         PROVE  TypeOK'
    BY <1>11 DEF Handoff, mongoVars
  <1>12. CASE NotifyDone
    <2>1. listeners' \in [Ops \X Ids -> SUBSET Clients]
      BY <1>12 DEF NotifyDone
    <2> QED BY <1>12, <2>1 DEF NotifyDone, mongoVars, callVars
  <1>13. CASE ForeignWrite
    <2>1. PICK op \in Ops, i \in Foreign : Commit(op, i)
      BY <1>13 DEF ForeignWrite
    <2>2. /\ oplog' \in Seq([op : Ops, id : Ids])
          /\ history' \in Seq([Ids -> Nat])
          /\ Len(oplog') = Len(oplog) + 1
      BY <2>1, CommitFacts DEF ConstantsAssumption
    <2>3. applied' \in 0..Len(oplog')
      BY <1>13, <2>2 DEF ForeignWrite, streamVars
    <2> QED BY <1>13, <2>2, <2>3 DEF ForeignWrite, streamVars, callVars
  <1>14. CASE UNCHANGED vars
    BY <1>14 DEF vars, mongoVars, streamVars, callVars
  <1> QED BY <1>1, <1>2, <1>3, <1>4, <1>5, <1>6, <1>7, <1>8, <1>9, <1>10, <1>11, <1>12,
             <1>13, <1>14 DEF Next, CallStep, Deliver

(* Next, by what its actions do to the oplog and the cache: a commit, the  *)
(* application of an event, or nothing.                                    *)
LEMMA StepKinds ==
    ASSUME ConstantsAssumption, TypeOK, [Next]_vars
    PROVE  \/ /\ \E op \in Ops, i \in Ids : Commit(op, i) /\ Matches(op, i, AnyVersion)
              /\ UNCHANGED <<applied, cache>>
           \/ TryNext
           \/ UNCHANGED <<history, oplog, applied, cache>>
  <1>1. ASSUME NEW c \in Clients, WriteHit(c)
        PROVE  /\ \E op \in Ops, i \in Ids : Commit(op, i) /\ Matches(op, i, AnyVersion)
               /\ UNCHANGED <<applied, cache>>
    <2>1. OpOf(call[c].kind) \in Ops /\ call[c].id \in Ids
      BY Keys DEF TypeOK
    <2>2. call[c].kind \in Kinds
      BY DEF TypeOK
    <2>3. Matches(OpOf(call[c].kind), call[c].id, AnyVersion)
      BY <1>1, <2>2 DEF WriteHit, Matches, OpOf, Kinds, Ops
    <2> QED BY <1>1, <2>1, <2>3 DEF WriteHit, streamVars
  <1>2. ASSUME ForeignWrite
        PROVE  /\ \E op \in Ops, i \in Ids : Commit(op, i) /\ Matches(op, i, AnyVersion)
               /\ UNCHANGED <<applied, cache>>
    BY <1>2 DEF ForeignWrite, ConstantsAssumption, streamVars
  <1>3. ASSUME NEW c \in Clients,
               \/ Begin(c) \/ Subscribe(c) \/ Prepare(c) \/ WriteMiss(c)
               \/ WriteNothing(c) \/ WriteFails(c) \/ Unsubscribe(c) \/ Handoff(c)
        PROVE  UNCHANGED <<history, oplog, applied, cache>>
    BY <1>3 DEF Begin, Subscribe, Prepare, WriteMiss, WriteNothing, WriteFails, Unsubscribe,
                Handoff, mongoVars, streamVars
  <1>4. ASSUME StreamEnds \/ NotifyLock \/ CallNext \/ NotifyDone \/ UNCHANGED vars
        PROVE  UNCHANGED <<history, oplog, applied, cache>>
    BY <1>4 DEF StreamEnds, NotifyLock, CallNext, NotifyDone, vars, mongoVars, streamVars
  <1> QED BY <1>1, <1>2, <1>3, <1>4 DEF Next, CallStep, Deliver

(* A commit extends the history by what its oplog entry says.              *)
LEMMA HistoryCommit ==
    ASSUME TypeOK, HistoryOK, NEW op \in Ops, NEW i \in Ids,
           Commit(op, i), Matches(op, i, AnyVersion), UNCHANGED <<applied, cache>>
    PROVE  HistoryOK'
  <1>1. /\ Len(oplog) \in Nat /\ Len(history) = Len(oplog) + 1
        /\ applied \in 0..Len(oplog)
    BY DEF TypeOK, HistoryOK
  <1>2. /\ Len(oplog') = Len(oplog) + 1
        /\ Len(history') = Len(history) + 1
        /\ \A k \in 1..Len(oplog) : oplog'[k] = oplog[k]
        /\ oplog'[Len(oplog) + 1] = [op |-> op, id |-> i]
        /\ \A k \in 1..Len(history) : history'[k] = history[k]
        /\ history'[Len(history) + 1] =
              [db EXCEPT ![i] = IF op = "delete" THEN NoDoc ELSE Len(oplog) + 1]
    BY CommitFacts
  <1>3. cache' = history'[applied' + 1]
    BY <1>1, <1>2 DEF HistoryOK
  <1>4. ASSUME NEW k \in 1..Len(oplog')
        PROVE  /\ history'[k + 1] =
                     [history'[k] EXCEPT ![oplog'[k].id] =
                        IF oplog'[k].op = "delete" THEN NoDoc ELSE k]
               /\ oplog'[k].op = "update" => history'[k][oplog'[k].id] # NoDoc
    <2>1. CASE k \in 1..Len(oplog)
      <3>1. k \in 1..Len(history) /\ k + 1 \in 1..Len(history)
        BY <1>1, <2>1
      <3>2. history'[k] = history[k] /\ history'[k + 1] = history[k + 1] /\ oplog'[k] = oplog[k]
        BY <1>2, <2>1, <3>1
      <3> QED BY <2>1, <3>2 DEF HistoryOK
    <2>2. CASE k = Len(oplog) + 1
      <3>1. k = Len(history) /\ k \in 1..Len(history)
        BY <1>1, <2>2
      <3>2. history'[k] = db /\ oplog'[k].id = i /\ oplog'[k].op = op
        BY <1>2, <2>2, <3>1 DEF db
      <3>3. history'[k + 1] = [db EXCEPT ![i] = IF op = "delete" THEN NoDoc ELSE k]
        BY <1>2, <2>2, <3>1
      <3>4. op = "update" => db[i] # NoDoc
        BY DEF Matches
      <3> QED BY <3>2, <3>3, <3>4
    <2> QED BY <1>1, <1>2, <2>1, <2>2
  <1> QED BY <1>1, <1>2, <1>3, <1>4 DEF HistoryOK

(* The event the stream applies takes the cache to the next state of the   *)
(* history.                                                                *)
LEMMA TryNextFacts ==
    ASSUME TypeOK, HistoryOK, TryNext
    PROVE  /\ applied' = applied + 1 /\ applied + 1 \in 1..Len(oplog)
           /\ cache' = history[applied + 2]
           /\ UNCHANGED <<history, oplog>>
  <1> DEFINE k == applied + 1
             event == oplog[k]
  <1>1. /\ k \in 1..Len(oplog) /\ applied' = k /\ UNCHANGED <<history, oplog>>
    BY DEF TryNext, TypeOK, mongoVars
  <1>2. event \in [op : Ops, id : Ids]
    BY <1>1, ElementFacts DEF TypeOK
  <1>3. cache' = [cache EXCEPT ![event.id] =
                   CASE event.op = "create" -> k
                     [] event.op = "delete" -> NoDoc
                     [] event.op = "update" -> IF @ = NoDoc THEN @ ELSE k]
    BY DEF TryNext
  <1>4. cache = history[k]
    BY DEF HistoryOK
  <1>5. /\ history[k + 1] = [cache EXCEPT ![event.id] = IF event.op = "delete" THEN NoDoc ELSE k]
        /\ event.op = "update" => cache[event.id] # NoDoc
    BY <1>1, <1>4 DEF HistoryOK
  <1>6. k + 1 = applied + 2
    BY DEF TypeOK
  <1> HIDE DEF k, event
  <1>7. event.op \in {"create", "update", "delete"}
    BY <1>2 DEF Ops
  <1>8. cache' = history[k + 1]
    BY <1>3, <1>5, <1>7
  <1> QED BY <1>1, <1>6, <1>8 DEF k

LEMMA HistoryStep ==
    ASSUME ConstantsAssumption, TypeOK, HistoryOK, [Next]_vars
    PROVE  HistoryOK'
  <1>1. ASSUME NEW op \in Ops, NEW i \in Ids,
               Commit(op, i), Matches(op, i, AnyVersion), UNCHANGED <<applied, cache>>
        PROVE  HistoryOK'
    BY <1>1, HistoryCommit
  <1>2. CASE TryNext
    <2>1. applied \in Nat
      BY DEF TypeOK
    <2>2. cache' = history'[applied' + 1]
      BY <1>2, <2>1, TryNextFacts
    <2> QED BY <1>2, <2>2, TryNextFacts DEF HistoryOK
  <1>3. CASE UNCHANGED <<history, oplog, applied, cache>>
    BY <1>3 DEF HistoryOK
  <1> QED BY <1>1, <1>2, <1>3, StepKinds

-----------------------------------------------------------------------------
(* The Notifier.                                                           *)

LEMMA ListenersInit == ASSUME Init PROVE ListenersOK
  BY DEF Init, ListenersOK, Subscribed

LEMMA StreamInit == ASSUME Init PROVE StreamOK
  BY DEF Init, StreamOK

(* Steps of a subscribed call that leave it subscribed, under its key.     *)
LEMMA CallGoesOn ==
    ASSUME TypeOK, NEW c \in Clients,
           Prepare(c) \/ WriteHit(c) \/ WriteMiss(c) \/ WriteNothing(c) \/ WriteFails(c)
    PROVE  /\ Subscribed(c) /\ Subscribed(c)'
           /\ \A d \in Clients : d # c => pc'[d] = pc[d] /\ reply'[d] = reply[d]
           /\ UNCHANGED <<call, listeners, streamPc, applied, pending, calling>>
  <1>1. ASSUME NEW outcome, Await(c, outcome) \/ GiveUp(c, outcome)
        PROVE  /\ pc'[c] \in {"receive", "unsubscribe"} /\ UNCHANGED call
               /\ \A d \in Clients : d # c => pc'[d] = pc[d] /\ reply'[d] = reply[d]
    BY <1>1 DEF Await, GiveUp, TypeOK
  <1>2. CASE Prepare(c)
    BY <1>1, <1>2 DEF Prepare, Subscribed, streamVars, TypeOK
  <1>3. CASE WriteHit(c)
    BY <1>1, <1>3 DEF WriteHit, Subscribed, streamVars
  <1>4. CASE WriteMiss(c) \/ WriteNothing(c) \/ WriteFails(c)
    BY <1>1, <1>4 DEF WriteMiss, WriteNothing, WriteFails, Subscribed, streamVars
  <1> QED BY <1>2, <1>3, <1>4

(* The event being dispatched does not change under the stream's feet.     *)
LEMMA DispatchedStays ==
    ASSUME ConstantsAssumption, TypeOK, HistoryOK, [Next]_vars, applied' = applied, applied # 0
    PROVE  Dispatched' = Dispatched
  <1>1. applied \in 1..Len(oplog)
    BY DEF TypeOK
  <1>2. oplog'[applied] = oplog[applied]
    <2>1. ASSUME NEW op \in Ops, NEW i \in Ids, Commit(op, i)
          PROVE  oplog'[applied] = oplog[applied]
      BY <1>1, <2>1, CommitFacts
    <2>2. ~ TryNext
      BY <1>1 DEF TryNext
    <2> QED BY <2>1, <2>2, StepKinds
  <1> QED BY <1>2 DEF Dispatched

LEMMA NotifierStep ==
    ASSUME ConstantsAssumption, TypeOK, HistoryOK, ListenersOK, StreamOK, [Next]_vars
    PROVE  ListenersOK' /\ StreamOK'
  <1> USE DEF ListenersOK, StreamOK
  <1>0. /\ NoClient \notin Clients
        /\ \A c \in Clients : KeyOf(c) \in Ops \X Ids
        /\ applied # 0 => Dispatched \in Ops \X Ids
        /\ listeners \in [Ops \X Ids -> SUBSET Clients]
        /\ pc \in [Clients -> {"idle", "subscribe", "prepare", "write", "receive", "unsubscribe"}]
        /\ pending \subseteq Clients
    BY Keys DEF ConstantsAssumption, TypeOK
  <1>1. ASSUME NEW c \in Clients, Begin(c)
        PROVE  ListenersOK' /\ StreamOK'
    <2>1. /\ UNCHANGED <<listeners, streamPc, applied, pending, calling>>
          /\ Dispatched' = Dispatched
      BY <1>1 DEF Begin, mongoVars, streamVars, Dispatched
    <2>2. ~ Subscribed(c) /\ ~ Subscribed(c)'
      BY <1>0, <1>1 DEF Begin, Subscribed
    <2>3. \A d \in Clients : d # c => KeyOf(d)' = KeyOf(d) /\ (Subscribed(d)' <=> Subscribed(d))
      <3>1. \A d \in Clients : d # c => call'[d] = call[d]
        BY <1>1 DEF Begin, TypeOK
      <3>2. \A d \in Clients : d # c => pc'[d] = pc[d]
        BY <1>0, <1>1 DEF Begin
      <3> QED BY <3>1, <3>2 DEF KeyOf, Subscribed
    <2> QED BY <1>0, <2>1, <2>2, <2>3
  <1>2. ASSUME NEW c \in Clients, Subscribe(c)
        PROVE  ListenersOK' /\ StreamOK'
    <2>1. /\ UNCHANGED <<streamPc, applied, pending, calling>> /\ Dispatched' = Dispatched
          /\ streamPc # "deliver"
          /\ listeners' = [listeners EXCEPT ![KeyOf(c)] = @ \cup {c}]
      BY <1>2 DEF Subscribe, mongoVars, streamVars, Dispatched, LockFree
    <2>2. ~ Subscribed(c)
      BY <1>2 DEF Subscribe, Subscribed
    <2>3. \A d \in Clients : KeyOf(d)' = KeyOf(d) /\ (Subscribed(d)' <=> Subscribed(d) \/ d = c)
      BY <1>0, <1>2 DEF Subscribe, KeyOf, Subscribed
    <2>4. \A key \in Ops \X Ids : \A d \in listeners[key] : Subscribed(d) /\ key = KeyOf(d)
      BY <2>1
    <2>5. \A key \in Ops \X Ids :
             listeners'[key] = IF key = KeyOf(c) THEN listeners[key] \cup {c} ELSE listeners[key]
      BY <1>0, <2>1
    <2>6. ASSUME NEW d \in Clients, Subscribed(d) \/ d = c
          PROVE  d \in listeners'[KeyOf(d)]
      <3>1. listeners'[KeyOf(d)] =
               IF KeyOf(d) = KeyOf(c) THEN listeners[KeyOf(d)] \cup {c} ELSE listeners[KeyOf(d)]
        BY <1>0, <2>5
      <3> QED BY <2>6, <3>1
    <2>7. ASSUME NEW key \in Ops \X Ids, NEW d \in listeners'[key]
          PROVE  d \in Clients /\ (Subscribed(d) \/ d = c) /\ key = KeyOf(d)
      <3>1. listeners'[key] = IF key = KeyOf(c) THEN listeners[key] \cup {c} ELSE listeners[key]
        BY <2>5
      <3>2. ASSUME d \in listeners[key]
            PROVE  d \in Clients /\ Subscribed(d) /\ key = KeyOf(d)
        <4>1. d \in Clients
          BY <1>0, <3>2
        <4> QED BY <2>4, <3>2, <4>1
      <3> QED BY <2>7, <3>1, <3>2
    <2>8. ListenersOK'
      BY <2>3, <2>6, <2>7
    <2>9. StreamOK'
      BY <2>1
    <2> QED BY <2>8, <2>9
  <1>3. ASSUME NEW c \in Clients,
               Prepare(c) \/ WriteHit(c) \/ WriteMiss(c) \/ WriteNothing(c) \/ WriteFails(c)
        PROVE  ListenersOK' /\ StreamOK'
    <2>1. /\ UNCHANGED <<call, listeners, streamPc, applied, pending, calling>>
          /\ \A d \in Clients : Subscribed(d)' <=> Subscribed(d)
      BY <1>3, CallGoesOn DEF Subscribed
    <2>2. \A d \in Clients : KeyOf(d)' = KeyOf(d)
      BY <2>1 DEF KeyOf
    <2>3. applied # 0 => Dispatched' = Dispatched
      BY <2>1, DispatchedStays
    <2> QED BY <1>0, <2>1, <2>2, <2>3
  <1>4. ASSUME NEW c \in Clients, Unsubscribe(c)
        PROVE  ListenersOK' /\ StreamOK'
    <2>1. /\ UNCHANGED <<streamPc, applied, pending, calling>>
          /\ streamPc # "deliver"
          /\ listeners' = [listeners EXCEPT ![KeyOf(c)] = @ \ {c}]
      BY <1>4 DEF Unsubscribe, streamVars, LockFree
    <2>2. Subscribed(c)
      BY <1>4 DEF Unsubscribe, Subscribed
    <2>3. \A d \in Clients : KeyOf(d)' = KeyOf(d) /\ (Subscribed(d)' <=> Subscribed(d) /\ d # c)
      BY <1>0, <1>4 DEF Unsubscribe, KeyOf, Subscribed
    <2>4. \A key \in Ops \X Ids : \A d \in listeners[key] : Subscribed(d) /\ key = KeyOf(d)
      BY <2>1
    <2>5. \A key \in Ops \X Ids :
             listeners'[key] = IF key = KeyOf(c) THEN listeners[key] \ {c} ELSE listeners[key]
      BY <1>0, <2>1
    <2>6. ASSUME NEW d \in Clients, Subscribed(d), d # c
          PROVE  d \in listeners'[KeyOf(d)]
      <3>1. listeners'[KeyOf(d)] =
               IF KeyOf(d) = KeyOf(c) THEN listeners[KeyOf(d)] \ {c} ELSE listeners[KeyOf(d)]
        BY <1>0, <2>5
      <3> QED BY <2>6, <3>1
    <2>7. ASSUME NEW key \in Ops \X Ids, NEW d \in listeners'[key]
          PROVE  d \in Clients /\ Subscribed(d) /\ d # c /\ key = KeyOf(d)
      <3>1. listeners'[key] = IF key = KeyOf(c) THEN listeners[key] \ {c} ELSE listeners[key]
        BY <2>5
      <3>2. ASSUME d \in listeners[key]
            PROVE  d \in Clients /\ Subscribed(d) /\ key = KeyOf(d)
        <4>1. d \in Clients
          BY <1>0, <3>2
        <4> QED BY <2>4, <3>2, <4>1
      <3> QED BY <2>7, <3>1, <3>2
    <2>8. ListenersOK'
      BY <2>3, <2>6, <2>7
    <2>9. StreamOK'
      BY <2>1
    <2> QED BY <2>8, <2>9
  <1>5. CASE TryNext \/ StreamEnds
    <2>1. /\ UNCHANGED <<listeners, pending, calling, pc, call>>
          /\ streamPc = "tryNext" /\ streamPc' \in {"notify", "returned"}
          /\ streamPc' = "notify" => applied' # 0
      <3>1. CASE TryNext
        BY <3>1 DEF TryNext, callVars, TypeOK
      <3>2. CASE StreamEnds
        BY <3>2 DEF StreamEnds, callVars
      <3> QED BY <1>5, <3>1, <3>2
    <2>2. \A d \in Clients : KeyOf(d)' = KeyOf(d) /\ (Subscribed(d)' <=> Subscribed(d))
      BY <2>1 DEF KeyOf, Subscribed
    <2>3. \A key \in Ops \X Ids : \A d \in listeners[key] : Subscribed(d) /\ key = KeyOf(d)
      BY <2>1
    <2> QED BY <1>0, <2>1, <2>2, <2>3
  <1>6. CASE NotifyLock
    <2>1. /\ UNCHANGED <<listeners, calling, pc, call, applied>> /\ Dispatched' = Dispatched
          /\ streamPc = "notify" /\ streamPc' = "deliver" /\ pending' = listeners[Dispatched]
      BY <1>6 DEF NotifyLock, mongoVars, callVars, Dispatched
    <2>2. \A d \in Clients : KeyOf(d)' = KeyOf(d) /\ (Subscribed(d)' <=> Subscribed(d))
      BY <2>1 DEF KeyOf, Subscribed
    <2>3. \A key \in Ops \X Ids : \A d \in listeners[key] : Subscribed(d) /\ key = KeyOf(d)
      BY <2>1
    <2>4. Dispatched \in Ops \X Ids /\ calling = NoClient
      BY <1>0, <2>1
    <2> QED BY <1>0, <2>1, <2>2, <2>3, <2>4
  <1>7. CASE CallNext
    <2>1. /\ UNCHANGED <<listeners, pc, call, applied, streamPc, pending>>
          /\ streamPc = "deliver" /\ calling' \in pending /\ Dispatched' = Dispatched
      BY <1>7 DEF CallNext, mongoVars, callVars, Dispatched
    <2>2. \A d \in Clients : KeyOf(d)' = KeyOf(d) /\ (Subscribed(d)' <=> Subscribed(d))
      BY <2>1 DEF KeyOf, Subscribed
    <2> QED BY <1>0, <2>1, <2>2
  <1>8. ASSUME NEW c \in Clients, Handoff(c)
        PROVE  ListenersOK' /\ StreamOK'
    <2>1. /\ UNCHANGED <<listeners, call, applied, streamPc>> /\ Dispatched' = Dispatched
          /\ pending' = pending \ {c} /\ calling' = NoClient /\ calling = c
      BY <1>8 DEF Handoff, mongoVars, Dispatched
    <2>2. ~ Subscribed(c)'
      BY <1>0, <1>8 DEF Handoff, Subscribed
    <2>3. /\ \A d \in Clients : KeyOf(d)' = KeyOf(d)
          /\ \A d \in Clients : d # c => (Subscribed(d)' <=> Subscribed(d))
      BY <1>0, <1>8 DEF Handoff, KeyOf, Subscribed
    <2>4. streamPc = "deliver" /\ Subscribed(c) /\ KeyOf(c) = Dispatched
      BY <1>0, <2>1
    <2> QED BY <1>0, <2>1, <2>2, <2>3, <2>4
  <1>9. CASE NotifyDone
    <2>1. /\ UNCHANGED <<pc, call, applied, pending, calling>>
          /\ pending = {} /\ streamPc = "deliver" /\ streamPc' = "tryNext"
          /\ listeners' = [listeners EXCEPT ![Dispatched] = {}]
      BY <1>9 DEF NotifyDone, mongoVars, callVars
    <2>2. \A d \in Clients : KeyOf(d)' = KeyOf(d) /\ (Subscribed(d)' <=> Subscribed(d))
      BY <2>1 DEF KeyOf, Subscribed
    <2>3. \A d \in Clients : Subscribed(d) => KeyOf(d) # Dispatched
      BY <2>1
    <2>4. \A key \in Ops \X Ids :
             listeners'[key] = IF key = Dispatched THEN {} ELSE listeners[key]
      BY <1>0, <2>1
    <2>5. ListenersOK'
      BY <1>0, <2>1, <2>2, <2>3, <2>4
    <2>6. StreamOK'
      BY <2>1
    <2> QED BY <2>5, <2>6
  <1>10. CASE ForeignWrite \/ UNCHANGED vars
    <2>1. UNCHANGED <<pc, call, listeners, streamPc, applied, pending, calling>>
      BY <1>10 DEF ForeignWrite, vars, streamVars, callVars
    <2>2. \A d \in Clients : KeyOf(d)' = KeyOf(d) /\ (Subscribed(d)' <=> Subscribed(d))
      BY <2>1 DEF KeyOf, Subscribed
    <2>3. applied # 0 => Dispatched' = Dispatched
      BY <2>1, DispatchedStays
    <2> QED BY <1>0, <2>1, <2>2, <2>3
  <1> QED BY <1>1, <1>2, <1>3, <1>4, <1>5, <1>6, <1>7, <1>8, <1>9, <1>10 DEF Next, CallStep, Deliver

-----------------------------------------------------------------------------
(* The awaited events.                                                     *)

(* A step that leaves a caller waiting with a committed write is that      *)
(* write, or found it so.                                                  *)
LEMMA WaitingFrame ==
    ASSUME TypeOK, [Next]_vars, NEW c \in Clients, pc'[c] = "receive", reply'[c] = "ok"
    PROVE  \/ WriteHit(c) /\ Await(c, "ok")
           \/ /\ pc[c] = "receive" /\ reply[c] = "ok"
              /\ call'[c] = call[c] /\ own'[c] = own[c]
  <1> USE DEF TypeOK
  <1>1. ASSUME NEW d \in Clients, Begin(d)
        PROVE  pc[c] = "receive" /\ reply[c] = "ok" /\ call'[c] = call[c] /\ own'[c] = own[c]
    <2>1. c # d
      BY <1>1 DEF Begin
    <2> QED BY <1>1, <2>1 DEF Begin
  <1>2. ASSUME NEW d \in Clients, Subscribe(d) \/ Unsubscribe(d) \/ Handoff(d)
        PROVE  pc[c] = "receive" /\ reply[c] = "ok" /\ call'[c] = call[c] /\ own'[c] = own[c]
    BY <1>2 DEF Subscribe, Unsubscribe, Handoff
  <1>3. ASSUME NEW d \in Clients, Prepare(d) \/ WriteMiss(d) \/ WriteNothing(d) \/ WriteFails(d)
        PROVE  pc[c] = "receive" /\ reply[c] = "ok" /\ call'[c] = call[c] /\ own'[c] = own[c]
    <2>1. UNCHANGED <<call, own>>
      BY <1>3 DEF Prepare, WriteMiss, WriteNothing, WriteFails, Await, GiveUp
    <2>2. \A e \in Clients : e # d => pc'[e] = pc[e] /\ reply'[e] = reply[e]
      BY <1>3, CallGoesOn
    <2>3. c # d
      BY <1>3 DEF Prepare, WriteMiss, WriteNothing, WriteFails, Await, GiveUp
    <2> QED BY <2>1, <2>2, <2>3
  <1>4. ASSUME NEW d \in Clients, WriteHit(d), ~ (c = d /\ Await(c, "ok"))
        PROVE  pc[c] = "receive" /\ reply[c] = "ok" /\ call'[c] = call[c] /\ own'[c] = own[c]
    <2>1. c # d
      BY <1>4 DEF WriteHit, GiveUp
    <2>2. pc'[c] = pc[c] /\ reply'[c] = reply[c] /\ call' = call
      BY <1>4, <2>1, CallGoesOn
    <2>3. own'[c] = own[c]
      BY <1>4, <2>1 DEF WriteHit
    <2> QED BY <2>2, <2>3
  <1>5. ASSUME UNCHANGED callVars
        PROVE  pc[c] = "receive" /\ reply[c] = "ok" /\ call'[c] = call[c] /\ own'[c] = own[c]
    BY <1>5 DEF callVars
  <1>6. \/ UNCHANGED callVars
        \/ \E d \in Clients : Begin(d) \/ CallStep(d) \/ Handoff(d)
    BY DEF Next, Deliver, TryNext, NotifyLock, CallNext, NotifyDone, StreamEnds, ForeignWrite, vars
  <1> QED BY <1>1, <1>2, <1>3, <1>4, <1>5, <1>6 DEF CallStep

(* The stream goroutine's position and its place in the loop.              *)
LEMMA StreamFrame ==
    ASSUME TypeOK, [Next]_vars
    PROVE  \/ TryNext
           \/ NotifyDone
           \/ /\ applied' = applied
              /\ streamPc' = streamPc \/ StreamEnds \/ NotifyLock
  <1>1. ASSUME NEW c \in Clients, Begin(c) \/ CallStep(c) \/ Handoff(c)
        PROVE  applied' = applied /\ streamPc' = streamPc
    BY <1>1 DEF CallStep, Begin, Subscribe, Prepare, WriteHit, WriteMiss, WriteNothing, WriteFails,
                Unsubscribe, Handoff, streamVars
  <1>2. ASSUME ForeignWrite \/ CallNext \/ UNCHANGED vars
        PROVE  applied' = applied /\ streamPc' = streamPc
    BY <1>2 DEF ForeignWrite, CallNext, vars, streamVars
  <1>3. ASSUME StreamEnds \/ NotifyLock
        PROVE  applied' = applied
    BY <1>3 DEF StreamEnds, NotifyLock
  <1> QED BY <1>1, <1>2, <1>3 DEF Next, Deliver

(* Oplog entries stay.                                                     *)
LEMMA OplogGrows ==
    ASSUME ConstantsAssumption, TypeOK, HistoryOK, [Next]_vars
    PROVE  /\ Len(oplog) \in Nat /\ Len(oplog') \in Nat /\ Len(oplog) <= Len(oplog')
           /\ \A k \in 1..Len(oplog) : oplog'[k] = oplog[k]
  <1>1. Len(oplog) \in Nat
    BY DEF TypeOK
  <1>2. ASSUME NEW op \in Ops, NEW i \in Ids, Commit(op, i)
        PROVE  /\ Len(oplog') \in Nat /\ Len(oplog) <= Len(oplog')
               /\ \A k \in 1..Len(oplog) : oplog'[k] = oplog[k]
    <2>1. Len(oplog') = Len(oplog) + 1 /\ \A k \in 1..Len(oplog) : oplog'[k] = oplog[k]
      BY <1>2, CommitFacts
    <2> QED BY <1>1, <2>1
  <1>3. ASSUME oplog' = oplog
        PROVE  /\ Len(oplog') \in Nat /\ Len(oplog) <= Len(oplog')
               /\ \A k \in 1..Len(oplog) : oplog'[k] = oplog[k]
    BY <1>1, <1>3
  <1>4. \/ oplog' = oplog
        \/ \E op \in Ops, i \in Ids : Commit(op, i)
    BY StepKinds, TryNextFacts
  <1> QED BY <1>1, <1>2, <1>3, <1>4

LEMMA AwaitedStep ==
    ASSUME ConstantsAssumption, Inv, [Next]_vars
    PROVE  AwaitedOK'
  <1> SUFFICES ASSUME NEW c \in Clients, pc'[c] = "receive", reply'[c] = "ok"
               PROVE  /\ own'[c] \in 1..Len(oplog')
                      /\ <<oplog'[own'[c]].op, oplog'[own'[c]].id>> =
                            <<OpOf(call'[c].kind), call'[c].id>>
                      /\ applied' <= own'[c]
                      /\ applied' = own'[c] => streamPc' \in {"notify", "deliver"}
    BY DEF AwaitedOK, KeyOf
  <1> USE DEF Inv
  <1>0. applied \in Nat /\ applied <= Len(oplog) /\ Len(oplog) \in Nat
    BY DEF TypeOK
  <1>1. CASE WriteHit(c) /\ Await(c, "ok")
    <2>1. /\ own' = [own EXCEPT ![c] = Len(oplog) + 1] /\ applied' = applied /\ call' = call
          /\ Commit(OpOf(call[c].kind), call[c].id)
      BY <1>1 DEF WriteHit, Await, streamVars
    <2>2. OpOf(call[c].kind) \in Ops /\ call[c].id \in Ids
      BY Keys DEF TypeOK
    <2>3. /\ Len(oplog') = Len(oplog) + 1
          /\ oplog'[Len(oplog) + 1] = [op |-> OpOf(call[c].kind), id |-> call[c].id]
      BY <2>1, <2>2, CommitFacts
    <2>4. own'[c] = Len(oplog) + 1
      BY <2>1 DEF TypeOK
    <2> QED BY <1>0, <2>1, <2>3, <2>4
  <1>2. CASE /\ pc[c] = "receive" /\ reply[c] = "ok"
             /\ call'[c] = call[c] /\ own'[c] = own[c]
    <2>1. /\ own[c] \in 1..Len(oplog)
          /\ <<oplog[own[c]].op, oplog[own[c]].id>> = KeyOf(c)
          /\ applied <= own[c]
          /\ applied = own[c] => streamPc \in {"notify", "deliver"}
      BY <1>2 DEF AwaitedOK
    <2>2. /\ own'[c] \in 1..Len(oplog')
          /\ <<oplog'[own'[c]].op, oplog'[own'[c]].id>> = <<OpOf(call'[c].kind), call'[c].id>>
      BY <1>2, <2>1, OplogGrows DEF KeyOf
    <2>3. CASE TryNext
      <3>1. applied # own[c] /\ applied' = applied + 1 /\ streamPc' = "notify"
        BY <2>1, <2>3 DEF TryNext
      <3> QED BY <1>0, <1>2, <2>1, <2>2, <3>1
    <2>4. CASE NotifyDone
      <3>1. applied' = applied /\ pending = {} /\ streamPc = "deliver"
        BY <2>4 DEF NotifyDone
      <3>2. Subscribed(c)
        BY <1>2 DEF Subscribed
      <3>3. KeyOf(c) # Dispatched
        BY <3>1, <3>2 DEF StreamOK
      <3>4. applied # own[c]
        BY <2>1, <3>3 DEF Dispatched
      <3> QED BY <1>2, <2>1, <2>2, <3>1, <3>4
    <2>5. CASE applied' = applied /\ (streamPc' = streamPc \/ StreamEnds \/ NotifyLock)
      BY <1>2, <2>1, <2>2, <2>5 DEF StreamEnds, NotifyLock
    <2> QED BY <2>3, <2>4, <2>5, StreamFrame
  <1> QED BY <1>1, <1>2, WaitingFrame

-----------------------------------------------------------------------------
LEMMA InvInit == ASSUME Init PROVE Inv
  <1>1. HistoryOK
    BY DEF Init, HistoryOK
  <1>2. AwaitedOK
    BY DEF Init, AwaitedOK
  <1> QED BY <1>1, <1>2, TypeInit, ListenersInit, StreamInit DEF Inv

LEMMA InvStep == ASSUME ConstantsAssumption, Inv, [Next]_vars PROVE Inv'
  BY TypeStep, HistoryStep, NotifierStep, AwaitedStep DEF Inv

(* The inductive invariant: what the oplog, the Notifier's maps, the       *)
(* stream goroutine and the waiting callers know about each other.         *)
THEOREM Invariance == Spec => []Inv
  <1>1. Init => Inv
    BY InvInit
  <1>2. Inv /\ [Next]_vars => Inv'
    BY InvStep, ConstantsAssumption
  <1> QED BY <1>1, <1>2, PTL DEF Spec

(* Type correctness of the protocol.                                       *)
THEOREM TypeCorrect == Spec => []TypeOK
  <1>1. Inv => TypeOK
    BY DEF Inv
  <1> QED BY <1>1, Invariance, PTL

(* The stream goroutine never sends on the channel of a call that has      *)
(* returned (which would panic it), whatever fails and whoever shares ids. *)
THEOREM ChannelsOpen == Spec => []NoSendOnClosed
  <1>1. Inv => NoSendOnClosed
    <2>1. ASSUME Inv, NEW c \in pending
          PROVE  pc[c] \notin {"idle", "subscribe"} /\ KeyOf(c) = Dispatched
      <3>1. c \in Clients /\ streamPc = "deliver"
        BY <2>1 DEF Inv, TypeOK, StreamOK
      <3> QED BY <2>1, <3>1 DEF Inv, StreamOK, Subscribed
    <2> QED BY <2>1 DEF NoSendOnClosed, Inv, StreamOK
  <1> QED BY <1>1, Invariance, PTL

(* No lost wake-up: the stream has not passed the event a caller waits for *)
(* without having called, or being about to call, its callback.            *)
THEOREM NothingMissed == Spec => []NoMissedNotification
  <1>1. Inv => NoMissedNotification
    <2> SUFFICES ASSUME Inv, NEW c \in Clients, pc[c] = "receive", reply[c] = "ok"
                 PROVE  \/ applied < own[c]
                        \/ applied = own[c] /\ streamPc = "notify" /\ c \in listeners[Dispatched]
                        \/ applied = own[c] /\ streamPc = "deliver" /\ c \in pending
      BY DEF NoMissedNotification
    <2>1. /\ applied <= own[c] /\ own[c] \in Nat /\ applied \in Nat
          /\ applied = own[c] => streamPc \in {"notify", "deliver"} /\ KeyOf(c) = Dispatched
      BY DEF Inv, AwaitedOK, Dispatched, TypeOK
    <2>2. Subscribed(c)
      BY DEF Subscribed
    <2>3. c \in listeners[KeyOf(c)]
      BY <2>2 DEF Inv, ListenersOK
    <2>4. streamPc = "deliver" /\ KeyOf(c) = Dispatched => c \in pending
      BY <2>2 DEF Inv, StreamOK
    <2> QED BY <2>1, <2>3, <2>4
  <1> QED BY <1>1, Invariance, PTL

-----------------------------------------------------------------------------
(* Await implements Projection.                                            *)

LEMMA ProjectionInit == ASSUME Init PROVE Projected!Init
  BY DEF Init, Projected!Init

LEMMA ProjectionStep ==
    ASSUME ConstantsAssumption, Inv, [Next]_vars
    PROVE  [Projected!Next]_(Projected!vars)
  <1> USE DEF Inv
  <1>1. ASSUME NEW op \in Ops, NEW i \in Ids, Commit(op, i), UNCHANGED <<applied, cache>>
        PROVE  Projected!Commit
    <2> DEFINE now == history'[Len(history')]
    <2>1. /\ history' = Append(history, [db EXCEPT ![i] = IF op = "delete" THEN NoDoc ELSE Len(oplog) + 1])
          /\ history \in Seq([Ids -> Nat]) /\ Len(history) \in 1..Len(history)
      BY <1>1 DEF Commit, TypeOK, HistoryOK
    <2>2. /\ Len(history') = Len(history) + 1
          /\ now = [db EXCEPT ![i] = IF op = "delete" THEN NoDoc ELSE Len(oplog) + 1]
          /\ history' \in Seq([Ids -> Nat])
      BY <1>1, CommitFacts
    <2>3. history' = Append(history, now)
      BY <2>1, <2>2
    <2>4. db \in [Ids -> Nat]
      BY <2>1, ElementFacts DEF db
    <2>5. now \in [Ids -> Nat \cup {NoDoc}]
      BY <2>2, <2>4 DEF NoDoc, TypeOK
    <2>6. \A j \in Ids \ {i} : now[j] = history[Len(history)][j]
      BY <2>2, <2>4 DEF db
    <2> QED BY <1>1, <2>3, <2>5, <2>6 DEF Projected!Commit
  <1>2. CASE TryNext
    <2>1. /\ applied' = applied + 1 /\ applied + 1 \in 1..Len(oplog)
          /\ cache' = history[applied + 2] /\ history' = history
      BY <1>2, TryNextFacts
    <2>2. applied \in Nat /\ Len(oplog) \in Nat /\ Len(history) = Len(oplog) + 1
      BY DEF TypeOK, HistoryOK
    <2>3. /\ applied + 1 < Len(history) /\ (applied + 1) + 1 = applied + 2
          /\ applied' + 1 = (applied + 1) + 1
      BY <2>1, <2>2
    <2> QED BY <2>1, <2>3 DEF Projected!Next, Projected!Apply
  <1>3. CASE UNCHANGED <<history, oplog, applied, cache>>
    BY <1>3 DEF Projected!vars
  <1> QED BY <1>1, <1>2, <1>3, StepKinds DEF Projected!Next

(* The cache is a projection of the collection: it goes through the states *)
(* the collection has gone through, one committed write at a time.         *)
THEOREM CacheIsProjection == Spec => ProjectionSafety
  <1>1. Init => Projected!Init
    BY ProjectionInit
  <1>2. Inv /\ [Next]_vars => [Projected!Next]_(Projected!vars)
    BY ProjectionStep, ConstantsAssumption
  <1> QED BY <1>1, <1>2, Invariance, PTL DEF Spec, ProjectionSafety, Projected!Safety

-----------------------------------------------------------------------------
(* Callers that share no id.                                               *)

(* Who writes the commits of a step, and to which id.                      *)
LEMMA CommitOwner ==
    ASSUME ConstantsAssumption, Exclusive, Inv, ExclusiveInv, [Next]_vars,
           NEW c \in Clients, NEW k \in 1..Len(oplog'), oplog'[k].id \in Writes[c]
    PROVE  \/ k \in 1..Len(oplog) /\ oplog[k].id \in Writes[c]
           \/ WriteHit(c) /\ InFlight(c, k)'
  <1>1. CASE k \in 1..Len(oplog)
    BY <1>1, OplogGrows DEF Inv
  <1>2. CASE k \notin 1..Len(oplog)
    <2>1. ASSUME NEW op \in Ops, NEW i \in Ids, Commit(op, i)
          PROVE  k = Len(oplog) + 1 /\ oplog'[k].id = i
      <3>1. /\ Len(oplog') = Len(oplog) + 1 /\ Len(oplog) \in Nat
            /\ oplog'[Len(oplog) + 1] = [op |-> op, id |-> i]
        <4>1. TypeOK /\ HistoryOK /\ Len(oplog) \in Nat
          BY DEF Inv, TypeOK
        <4> QED BY <2>1, <4>1, CommitFacts
      <3> QED BY <1>2, <3>1
    <2>2. ASSUME NEW d \in Clients, WriteHit(d)
          PROVE  WriteHit(c) /\ InFlight(c, k)'
      <3>1. OpOf(call[d].kind) \in Ops /\ call[d].id \in Ids
        BY Keys DEF Inv, TypeOK
      <3>2. k = Len(oplog) + 1 /\ oplog'[k].id = call[d].id
        BY <2>1, <2>2, <3>1 DEF WriteHit
      <3>3. call[d].id \in Writes[d]
        BY <2>2 DEF WriteHit, ExclusiveInv
      <3>4. d = c
        BY <3>2, <3>3 DEF Exclusive
      <3>5. Await(c, "ok") /\ own' = [own EXCEPT ![c] = k]
        BY <2>2, <3>2, <3>4 DEF WriteHit, Exclusive
      <3>6. InFlight(c, k)'
        BY <3>5 DEF InFlight, Await, Inv, TypeOK
      <3> QED BY <2>2, <3>4, <3>6
    <2>3. ~ ForeignWrite
      <3>1. ASSUME NEW op \in Ops, NEW i \in Foreign, Commit(op, i)
            PROVE  FALSE
        BY <2>1, <3>1 DEF ConstantsAssumption, Exclusive
      <3> QED BY <3>1 DEF ForeignWrite
    <2>4. UNCHANGED oplog => FALSE
      BY <1>2
    <2>5. \/ UNCHANGED oplog \/ ForeignWrite \/ \E d \in Clients : WriteHit(d)
      BY DEF Next, CallStep, Deliver, Begin, Subscribe, Prepare, WriteMiss, WriteNothing, WriteFails,
             Unsubscribe, TryNext, StreamEnds, NotifyLock, CallNext, Handoff, NotifyDone,
             vars, mongoVars
    <2> QED BY <2>2, <2>3, <2>4, <2>5
  <1> QED BY <1>1, <1>2

(* A caller that waits for a committed write waits on, until it is woken.  *)
LEMMA InFlightStays ==
    ASSUME TypeOK, [Next]_vars, NEW c \in Clients, NEW k \in Nat, InFlight(c, k), ~ Handoff(c)
    PROVE  pc'[c] = "receive" /\ reply'[c] = "ok" /\ own'[c] = k
  <1> USE DEF TypeOK, InFlight
  <1>1. ASSUME NEW d \in Clients, Begin(d) \/ Subscribe(d) \/ Unsubscribe(d) \/ Handoff(d)
        PROVE  pc'[c] = "receive" /\ reply'[c] = "ok" /\ own'[c] = k
    <2>1. c # d
      BY <1>1 DEF Begin, Subscribe, Unsubscribe
    <2> QED BY <1>1, <2>1 DEF Begin, Subscribe, Unsubscribe, Handoff
  <1>2. ASSUME NEW d \in Clients,
               Prepare(d) \/ WriteHit(d) \/ WriteMiss(d) \/ WriteNothing(d) \/ WriteFails(d)
        PROVE  pc'[c] = "receive" /\ reply'[c] = "ok" /\ own'[c] = k
    <2>1. c # d
      BY <1>2 DEF Prepare, WriteHit, WriteMiss, WriteNothing, WriteFails
    <2>2. pc'[c] = pc[c] /\ reply'[c] = reply[c]
      BY <1>2, <2>1, CallGoesOn
    <2>3. own'[c] = own[c]
      BY <1>2, <2>1 DEF Prepare, WriteHit, WriteMiss, WriteNothing, WriteFails
    <2> QED BY <2>2, <2>3
  <1>3. CASE UNCHANGED callVars
    BY <1>3 DEF callVars
  <1>4. \/ UNCHANGED callVars
        \/ \E d \in Clients : Begin(d) \/ CallStep(d) \/ Handoff(d)
    BY DEF Next, Deliver, TryNext, NotifyLock, CallNext, NotifyDone, StreamEnds, ForeignWrite, vars
  <1> QED BY <1>1, <1>2, <1>3, <1>4 DEF CallStep

(* Callbacks to be run are added only by NotifyLock.                       *)
LEMMA PendingFrame ==
    ASSUME TypeOK, [Next]_vars
    PROVE  NotifyLock \/ pending' \subseteq pending
  <1>1. ASSUME NEW c \in Clients, Begin(c) \/ CallStep(c) \/ Handoff(c)
        PROVE  pending' \subseteq pending
    BY <1>1 DEF CallStep, Begin, Subscribe, Prepare, WriteHit, WriteMiss, WriteNothing, WriteFails,
                Unsubscribe, Handoff, streamVars
  <1>2. ASSUME ForeignWrite \/ CallNext \/ StreamEnds \/ TryNext \/ NotifyDone \/ UNCHANGED vars
        PROVE  pending' = pending
    BY <1>2 DEF ForeignWrite, CallNext, StreamEnds, TryNext, NotifyDone, vars, streamVars
  <1> QED BY <1>1, <1>2 DEF Next, Deliver

(* The callback being run is that of a caller waiting for this very event. *)
LEMMA CalledInFlight ==
    ASSUME Inv, ExclusiveInv, calling # NoClient
    PROVE  calling \in Clients /\ applied \in 1..Len(oplog) /\ InFlight(calling, applied)
  <1>1. calling \in pending /\ calling \in Clients /\ streamPc = "deliver"
    BY DEF Inv, TypeOK, StreamOK
  <1>2. Subscribed(calling) /\ KeyOf(calling) = Dispatched
    BY <1>1 DEF Inv, StreamOK
  <1>3. applied \in 1..Len(oplog)
    BY <1>1 DEF Inv, TypeOK, StreamOK
  <1>4. oplog[applied].id = call[calling].id
    BY <1>2 DEF KeyOf, Dispatched
  <1>5. call[calling].id \in Writes[calling]
    BY <1>1, <1>2 DEF Subscribed, ExclusiveInv
  <1> QED BY <1>1, <1>3, <1>4, <1>5 DEF ExclusiveInv

LEMMA ExclusiveStep ==
    ASSUME ConstantsAssumption, Exclusive, Inv, ExclusiveInv, [Next]_vars
    PROVE  ExclusiveInv'
  <1> SUFFICES ASSUME NEW c \in Clients
               PROVE  /\ pc'[c] # "idle" => call'[c].id \in Writes[c]
                      /\ pc'[c] = "unsubscribe" => reply'[c] # "ok"
                      /\ pc'[c] = "idle" /\ reply'[c] = "ok" => own'[c] \in 1..applied'
                      /\ \A k \in 1..Len(oplog') :
                            /\ oplog'[k].id \in Writes[c]
                            /\ \/ applied' < k
                               \/ applied' = k /\ streamPc' = "notify"
                               \/ applied' = k /\ streamPc' = "deliver" /\ c \in pending'
                            => InFlight(c, k)'
    BY DEF ExclusiveInv
  <1>0. TypeOK /\ applied \in Nat /\ Len(oplog) \in Nat /\ applied' \in {applied, applied + 1}
    <2>1. TypeOK /\ applied \in Nat /\ Len(oplog) \in Nat
      BY DEF Inv, TypeOK
    <2> QED BY <2>1, StreamFrame DEF TryNext, NotifyDone
  <1>1. /\ pc'[c] # "idle" => call'[c].id \in Writes[c]
        /\ pc'[c] = "unsubscribe" => reply'[c] # "ok"
        /\ pc'[c] = "idle" /\ reply'[c] = "ok" => own'[c] \in 1..applied'
    <2>1. CASE Begin(c)
      BY <1>0, <2>1 DEF Begin, TypeOK
    <2>2. CASE Subscribe(c)
      BY <1>0, <2>2 DEF Subscribe, TypeOK, ExclusiveInv
    <2>3. CASE Prepare(c) \/ WriteHit(c) \/ WriteMiss(c) \/ WriteNothing(c) \/ WriteFails(c)
      <3>1. pc[c] # "idle" /\ call' = call /\ pc'[c] # "idle"
        BY <1>0, <2>3, CallGoesOn DEF Subscribed
      <3>2. pc'[c] = "unsubscribe" => reply'[c] # "ok"
        BY <1>0, <2>3 DEF Prepare, WriteHit, WriteMiss, WriteNothing, WriteFails, Await, GiveUp, TypeOK
      <3> QED BY <3>1, <3>2 DEF ExclusiveInv
    <2>4. CASE Unsubscribe(c)
      BY <1>0, <2>4 DEF Unsubscribe, TypeOK, ExclusiveInv
    <2>5. CASE Handoff(c)
      <3>1. InFlight(c, applied) /\ applied \in 1..Len(oplog)
        BY <2>5, CalledInFlight DEF Handoff, ConstantsAssumption
      <3> QED BY <1>0, <2>5, <3>1 DEF Handoff, InFlight, TypeOK
    <2>6. CASE pc'[c] = pc[c] /\ call'[c] = call[c] /\ reply'[c] = reply[c] /\ own'[c] = own[c]
      BY <1>0, <2>6 DEF ExclusiveInv
    <2>7. ASSUME NEW d \in Clients, d # c, Begin(d) \/ CallStep(d) \/ Handoff(d)
          PROVE  pc'[c] = pc[c] /\ call'[c] = call[c] /\ reply'[c] = reply[c] /\ own'[c] = own[c]
      <3>1. CASE Begin(d) \/ Subscribe(d) \/ Unsubscribe(d) \/ Handoff(d)
        BY <1>0, <2>7, <3>1 DEF Begin, Subscribe, Unsubscribe, Handoff, TypeOK
      <3>2. CASE Prepare(d) \/ WriteHit(d) \/ WriteMiss(d) \/ WriteNothing(d) \/ WriteFails(d)
        <4>1. pc'[c] = pc[c] /\ reply'[c] = reply[c] /\ call' = call
          BY <1>0, <2>7, <3>2, CallGoesOn
        <4>2. own'[c] = own[c]
          BY <1>0, <2>7, <3>2 DEF Prepare, WriteHit, WriteMiss, WriteNothing, WriteFails, TypeOK
        <4> QED BY <4>1, <4>2
      <3> QED BY <2>7, <3>1, <3>2 DEF CallStep
    <2>8. \/ UNCHANGED callVars
          \/ \E d \in Clients : Begin(d) \/ CallStep(d) \/ Handoff(d)
      BY DEF Next, Deliver, TryNext, NotifyLock, CallNext, NotifyDone, StreamEnds, ForeignWrite, vars
    <2> QED BY <2>1, <2>2, <2>3, <2>4, <2>5, <2>6, <2>7, <2>8 DEF CallStep, callVars
  <1>2. ASSUME NEW k \in 1..Len(oplog'), oplog'[k].id \in Writes[c],
               \/ applied' < k
               \/ applied' = k /\ streamPc' = "notify"
               \/ applied' = k /\ streamPc' = "deliver" /\ c \in pending'
        PROVE  InFlight(c, k)'
    <2>1. CASE k \in 1..Len(oplog) /\ oplog[k].id \in Writes[c]
      <3>1. \/ applied < k
            \/ applied = k /\ streamPc = "notify"
            \/ applied = k /\ streamPc = "deliver" /\ c \in pending
        <4>1. CASE applied' < k
          BY <1>0, <2>1, <4>1
        <4>2. CASE applied' = k /\ streamPc' = "notify"
          <5>1. TryNext \/ (applied' = applied /\ streamPc' = streamPc)
            BY <1>0, <4>2, StreamFrame DEF NotifyDone, StreamEnds, NotifyLock
          <5> QED BY <1>0, <2>1, <4>2, <5>1 DEF TryNext
        <4>3. CASE applied' = k /\ streamPc' = "deliver" /\ c \in pending'
          <5>1. applied' = applied /\ (streamPc' = streamPc \/ NotifyLock)
            BY <1>0, <4>3, StreamFrame DEF TryNext, NotifyDone, StreamEnds
          <5>2. NotifyLock => streamPc = "notify"
            BY DEF NotifyLock
          <5> QED BY <1>0, <4>3, <5>1, <5>2, PendingFrame
        <4> QED BY <1>2, <4>1, <4>2, <4>3
      <3>2. InFlight(c, k)
        BY <2>1, <3>1 DEF ExclusiveInv
      <3>3. ~ Handoff(c)
        <4> SUFFICES ASSUME Handoff(c)
                     PROVE  FALSE
          OBVIOUS
        <4>1. InFlight(c, applied)
          BY CalledInFlight DEF Handoff, ConstantsAssumption
        <4>2. applied = k
          BY <3>2, <4>1 DEF InFlight
        <4>3. applied' = applied /\ pending' = pending \ {c} /\ streamPc' = streamPc
          BY DEF Handoff
        <4>4. streamPc = "deliver"
          BY DEF Inv, StreamOK, Handoff, ConstantsAssumption
        <4> QED BY <1>0, <1>2, <4>2, <4>3, <4>4
      <3> QED BY <1>0, <2>1, <3>2, <3>3, InFlightStays DEF InFlight
    <2> QED BY <1>2, <2>1, CommitOwner
  <1> QED BY <1>1, <1>2

LEMMA ExclusiveInit == ASSUME Init PROVE ExclusiveInv
  BY DEF Init, ExclusiveInv

LEMMA ExclusiveInvariance == ASSUME Exclusive PROVE Spec => []ExclusiveInv
  <1>1. Init => ExclusiveInv
    BY ExclusiveInit
  <1>2. Inv /\ ExclusiveInv /\ [Next]_vars => ExclusiveInv'
    BY ExclusiveStep, ConstantsAssumption
  <1> QED BY <1>1, <1>2, Invariance, PTL DEF Spec

(* Read-after-write, for callers that share no id and whose answers all    *)
(* arrive: when a call that has written returns, the cache has the write.  *)
THEOREM ReadAfterWrite == ASSUME Exclusive PROVE Spec => []ReadYourWrite
  <1>1. ExclusiveInv => ReadYourWrite
    BY DEF ExclusiveInv, ReadYourWrite
  <1> QED BY <1>1, ExclusiveInvariance, PTL

(* For the same callers, the stream goroutine always finds the caller it   *)
(* wakes receiving, so that it cannot block with the Notifier's lock held. *)
THEOREM StreamNotWedged == ASSUME Exclusive PROVE Spec => []NotWedged
  <1>1. Inv /\ ExclusiveInv => NotWedged
    BY CalledInFlight DEF NotWedged, InFlight
  <1> QED BY <1>1, ExclusiveInvariance, Invariance, PTL

=============================================================================
