------------------------ MODULE IngestPipeline_proofs ------------------------
(***************************************************************************)
(* Proofs about IngestPipeline, and about FileStore, the file its failed   *)
(* events go to.                                                           *)
(*                                                                         *)
(* IngestPipeline, for any number of events, deliveries and workers:       *)
(* sequences are used through the set of their elements, nothing depends   *)
(* on the order of the queue or of the records. Every step is shown to     *)
(* keep what is held, but for those that can lose an event.                *)
(*                                                                         *)
(* FileStore, for files of any length: what Delete, readAllLocked and      *)
(* ListRecent pick out of a sequence is found by rank, so that what they   *)
(* compute can be proved. A line that is not finished is a pledge of one   *)
(* record, which the next Save will spoil.                                 *)
(***************************************************************************)
EXTENDS FileStore, IngestPipeline, SequenceTheorems, FiniteSetTheorems, TLAPS

Elems(s) == {s[i] : i \in DOMAIN s}
IsSeq(s) == s \in Seq(Elems(s))

\* Appending adds one element.
LEMMA AppendElems ==
    ASSUME NEW s, IsSeq(s), NEW e
    PROVE  IsSeq(Append(s, e)) /\ Elems(Append(s, e)) = Elems(s) \cup {e}
  <1> DEFINE S == Elems(s) \cup {e}
  <1>1. s \in Seq(S) /\ e \in S
    BY DEF IsSeq
  <1>2. /\ Append(s, e) \in Seq(S)
        /\ Len(s) \in Nat
        /\ DOMAIN s = 1..Len(s)
        /\ Len(Append(s, e)) = Len(s) + 1
        /\ DOMAIN Append(s, e) = 1..(Len(s) + 1)
        /\ \A i \in 1..Len(s) : Append(s, e)[i] = s[i]
        /\ Append(s, e)[Len(s) + 1] = e
    <2> HIDE DEF S
    <2> QED BY <1>1
  <1>3. Elems(Append(s, e)) = S
    BY <1>2 DEF Elems
  <1> QED BY <1>2, <1>3 DEF IsSeq

\* Taking the head leaves the other elements.
LEMMA TailElems ==
    ASSUME NEW s, IsSeq(s), s # <<>>
    PROVE  IsSeq(Tail(s)) /\ Elems(s) = {Head(s)} \cup Elems(Tail(s))
  <1> DEFINE S == Elems(s)
  <1>1. s \in Seq(S)
    BY DEF IsSeq
  <1>2. /\ Head(s) = s[1]
        /\ Len(s) \in Nat \ {0}
        /\ DOMAIN s = 1..Len(s)
        /\ Tail(s) \in Seq(S)
        /\ Len(Tail(s)) = Len(s) - 1
        /\ DOMAIN Tail(s) = 1..(Len(s) - 1)
        /\ \A i \in 1..(Len(s) - 1) : Tail(s)[i] = s[i + 1]
    <2> HIDE DEF S
    <2> QED BY <1>1
  <1>3. \A i \in 1..Len(s) : i = 1 \/ (i - 1 \in DOMAIN Tail(s) /\ Tail(s)[i - 1] = s[i])
    BY <1>2
  <1>4. Elems(s) = {Head(s)} \cup Elems(Tail(s))
    <2>1. ASSUME NEW x \in Elems(s), x # Head(s) PROVE x \in Elems(Tail(s))
      <3>1. PICK i \in 1..Len(s) : x = s[i]
        BY <1>2 DEF Elems
      <3>2. i - 1 \in DOMAIN Tail(s) /\ Tail(s)[i - 1] = x
        BY <1>2, <1>3, <2>1, <3>1
      <3> QED BY <3>2 DEF Elems
    <2>2. Head(s) \in Elems(s)
      BY <1>2 DEF Elems
    <2>3. \A x \in Elems(Tail(s)) : x \in Elems(s)
      BY <1>2 DEF Elems
    <2> QED BY <2>1, <2>2, <2>3
  <1>5. Tail(s) \in Seq(Elems(Tail(s)))
    <2> DEFINE T == Elems(Tail(s))
    <2>1. \A i \in 1..Len(Tail(s)) : Tail(s)[i] \in T
      BY <1>2 DEF Elems
    <2> HIDE DEF S, T
    <2>2. Tail(s) \in UNION {[1..n -> S] : n \in Nat}
      BY <1>2, SeqDef, Zenon
    <2>3. Tail(s) = [i \in DOMAIN Tail(s) |-> Tail(s)[i]]
      BY <2>2
    <2>4. Len(s) - 1 \in Nat /\ Tail(s) \in [1..(Len(s) - 1) -> T]
      BY <1>2, <2>1, <2>3
    <2>5. Tail(s) \in Seq(T)
      BY <2>4, SeqDef
    <2> QED BY <2>5 DEF T
  <1> QED BY <1>4, <1>5 DEF IsSeq

\* The k-th of a finite set of numbers: every member is one, in order.
LEMMA NthOf ==
    ASSUME NEW S \in SUBSET Nat, IsFiniteSet(S)
    PROVE  /\ Cardinality(S) \in Nat
           /\ \A k \in 1..Cardinality(S) : Nth(S, k) \in S
           /\ \A i \in S : \E k \in 1..Cardinality(S) : Nth(S, k) = i
           /\ \A k, l \in 1..Cardinality(S) : k < l <=> Nth(S, k) < Nth(S, l)
  <1> DEFINE below(i) == {j \in S : j < i}
             n == Cardinality(S)
             rank == [i \in S |-> Cardinality(below(i))]
  <1>0. n \in Nat
    BY FS_CardinalityType
  <1>1. \A i \in S : IsFiniteSet(below(i)) /\ Cardinality(below(i)) \in Nat
    BY FS_Subset, FS_CardinalityType
  <1>2. ASSUME NEW i \in S PROVE Cardinality(below(i)) < n
    <2>1. below(i) \in SUBSET S /\ below(i) # S
      OBVIOUS
    <2>2. Cardinality(below(i)) <= n /\ Cardinality(below(i)) # n
      BY <2>1, FS_Subset
    <2> QED BY <2>2, <1>0, <1>1
  <1>3. ASSUME NEW i \in S, NEW j \in S, i < j PROVE Cardinality(below(i)) < Cardinality(below(j))
    <2>0. i \in Nat /\ j \in Nat /\ \A k \in S : k \in Nat
      OBVIOUS
    <2>1. below(i) \in SUBSET below(j) /\ i \in below(j) /\ i \notin below(i)
      <3>1. ASSUME NEW k \in S, k < i PROVE k < j
        BY <3>1, <2>0, <1>3
      <3>2. i < j /\ ~(i < i)
        BY <2>0, <1>3
      <3> QED BY <3>1, <3>2
    <2>2. Cardinality(below(i)) <= Cardinality(below(j)) /\ Cardinality(below(i)) # Cardinality(below(j))
      <3> HIDE DEF below
      <3> QED BY <2>1, <1>1, FS_Subset
    <2> QED BY <2>2, <1>1
  <1>4. \A i, j \in S : i < j \/ i = j \/ j < i
    OBVIOUS
  <1>5. rank \in Injection(S, 0..(n - 1))
    <2>1. rank \in [S -> 0..(n - 1)]
      BY <1>0, <1>1, <1>2
    <2>2. ASSUME NEW i \in S, NEW j \in S, rank[i] = rank[j] PROVE i = j
      BY <2>2, <1>1, <1>3, <1>4
    <2> QED BY <2>1, <2>2 DEF Injection, IsInjective
  <1>6. rank \in Surjection(S, 0..(n - 1))
    <2>1. IsFiniteSet(0..(n - 1)) /\ Cardinality(0..(n - 1)) = n
      <3>1. \A m \in Nat : IsFiniteSet(0..(m - 1)) /\ Cardinality(0..(m - 1)) = m
        BY FS_Interval
      <3> QED BY <3>1, <1>0, Zenon
    <2> HIDE DEF rank
    <2> QED BY <2>1, <1>5, FS_Injection
  <1>7. ASSUME NEW k \in 1..n PROVE Nth(S, k) \in S /\ Cardinality(below(Nth(S, k))) = k - 1
    <2>1. k - 1 \in 0..(n - 1)
      BY <1>0
    <2>2. \E i \in S : Cardinality(below(i)) = k - 1
      BY <2>1, <1>6 DEF Surjection
    <2> QED BY <2>2 DEF Nth
  <1>8. ASSUME NEW i \in S PROVE \E k \in 1..n : Nth(S, k) = i
    <2>1. PICK k \in 1..n : k - 1 = Cardinality(below(i))
      <3>1. Cardinality(below(i)) + 1 \in 1..n /\ (Cardinality(below(i)) + 1) - 1 = Cardinality(below(i))
        BY <1>0, <1>1, <1>2
      <3> QED BY <3>1
    <2>2. Nth(S, k) \in S /\ Cardinality(below(Nth(S, k))) = Cardinality(below(i))
      BY <2>1, <1>7
    <2>3. \A j \in S : Cardinality(below(j)) = Cardinality(below(i)) => j = i
      BY <1>1, <1>3, <1>4
    <2>4. Nth(S, k) = i
      BY <2>2, <2>3
    <2> QED BY <2>4
  <1>9. ASSUME NEW k \in 1..n, NEW l \in 1..n PROVE k < l <=> Nth(S, k) < Nth(S, l)
    <2>1. /\ Nth(S, k) \in S /\ Cardinality(below(Nth(S, k))) = k - 1
          /\ Nth(S, l) \in S /\ Cardinality(below(Nth(S, l))) = l - 1
      BY <1>7
    <2>2. Nth(S, k) < Nth(S, l) => k - 1 < l - 1
      BY <2>1, <1>3
    <2>3. Nth(S, l) < Nth(S, k) => l - 1 < k - 1
      BY <2>1, <1>3
    <2>4. k \in Nat /\ l \in Nat
      BY <1>0
    <2>5. k < l \/ k = l \/ l < k
      BY <2>4
    <2>6. k - 1 < l - 1 <=> k < l
      BY <2>4
    <2>7. l - 1 < k - 1 <=> l < k
      BY <2>4
    <2>8. ~(k < l /\ l < k) /\ ~(k < k)
      BY <2>4
    <2>9. Nth(S, k) < Nth(S, l) \/ Nth(S, k) = Nth(S, l) \/ Nth(S, l) < Nth(S, k)
      BY <2>1, <1>4
    <2>10. Nth(S, k) = Nth(S, l) => k = l
      <3>1. Nth(S, k) = Nth(S, l) => k - 1 = l - 1
        BY <2>1
      <3> QED BY <3>1, <2>4
    <2> QED BY <2>2, <2>3, <2>5, <2>6, <2>7, <2>8, <2>9, <2>10, Zenon
  <1> QED BY <1>0, <1>7, <1>8, <1>9

\* What is picked out of a sequence.
LEMMA PickedElems ==
    ASSUME NEW T, NEW s \in Seq(T), NEW S \in SUBSET DOMAIN s
    PROVE  /\ IsFiniteSet(S) /\ S \in SUBSET Nat
           /\ Picked(s, S) \in Seq(T) /\ Len(Picked(s, S)) = Cardinality(S)
           /\ \A k \in DOMAIN Picked(s, S) : Nth(S, k) \in S /\ Picked(s, S)[k] = s[Nth(S, k)]
           /\ \A i \in S : \E k \in DOMAIN Picked(s, S) : Nth(S, k) = i
  <1>1. DOMAIN s = 1..Len(s) /\ Len(s) \in Nat /\ \A i \in DOMAIN s : s[i] \in T
    OBVIOUS
  <1>2. IsFiniteSet(S) /\ S \in SUBSET Nat
    <2>1. \A m \in Nat : IsFiniteSet(1..m)
      BY FS_Interval
    <2>2. IsFiniteSet(DOMAIN s) /\ DOMAIN s \in SUBSET Nat
      BY <2>1, <1>1
    <2> QED BY <2>2, FS_Subset
  <1> DEFINE n == Cardinality(S)
  <1>3. /\ n \in Nat
        /\ \A k \in 1..n : Nth(S, k) \in S
        /\ \A i \in S : \E k \in 1..n : Nth(S, k) = i
    BY <1>2, NthOf
  <1>4. Picked(s, S) \in [1..n -> T] /\ \A k \in 1..n : Picked(s, S)[k] = s[Nth(S, k)]
    BY <1>1, <1>3 DEF Picked
  <1>5. Picked(s, S) \in Seq(T) /\ Len(Picked(s, S)) = n /\ DOMAIN Picked(s, S) = 1..n
    <2> HIDE DEF n
    <2> QED BY <1>3, <1>4
  <1> QED BY <1>2, <1>3, <1>4, <1>5

-------------------------------------------------------------------------------
(* The shape of the state the arguments need. *)

WorkerStates == {"free", "publish", "dlqForget", "dlqSave"}

Shape ==
    /\ req \in [Requests -> InHandler \cup {"new", "202", "5xx"}]
    /\ worker = [w \in Workers |-> [pc |-> worker[w].pc, ev |-> worker[w].ev]]
    /\ \A w \in Workers : worker[w].pc \in WorkerStates
    /\ IsSeq(queue)

\* Somebody holds the event and has yet to deliver it or to call Forget.
PendReq(ev)    == \E r \in Requests : r[1] = ev /\ req[r] \in {"publish", "forget"}
PendWorker(ev) == \E w \in Workers : worker[w].pc \in {"publish", "dlqForget"}
                                     /\ worker[w].ev = ev
Pending(ev)    == PendReq(ev) \/ ev \in Elems(queue) \/ PendWorker(ev)

\* The strengthening of MarkedIsHeld: the holder of a marked event has not called
\* Forget yet. A record in the store would not do, the scheduler may delete it. A
\* handler whose Publish panics never calls Forget: its key is one left behind.
MarkedIsPending == \A ev \in seen \ stale : ev \in delivered \/ Pending(ev)

MInv == Shape /\ MarkedIsPending

\* Initially no key is marked.
LEMMA MarkedInit == Init => MInv
  <1> SUFFICES ASSUME Init PROVE MInv
    OBVIOUS
  <1>1. queue = <<>> /\ IsSeq(queue)
    BY DEF Init, IsSeq, Elems
  <1>2. Shape
    BY <1>1 DEF Init, Shape, Free, WorkerStates, InHandler
  <1> QED BY <1>2 DEF Init, MInv, MarkedIsPending

\* A step of a handler marks only an event it then holds. It forgets the key before
\* it lets the event go, or leaves the key behind when Publish panics.
LEMMA HandlerMarked ==
    ASSUME MInv, NEW r \in Requests, Handler(r)
    PROVE  MInv'
  <1> USE DEF MInv
  <1>1. CASE HandleSeen(r)
    <2>1. Shape'
      BY <1>1 DEF HandleSeen, Shape, InHandler
    <2>2. /\ UNCHANGED <<stale, queue, worker, delivered>> /\ seen' \subseteq seen \cup {r[1]}
          /\ \A q \in Requests : req[q] \in {"publish", "forget"} => req'[q] = req[q]
          /\ seen' = seen \/ req'[r] = "publish"
      BY <1>1 DEF HandleSeen, Shape
    <2>3. ASSUME NEW ev \in seen' \ stale' PROVE ev \in delivered' \/ Pending(ev)'
      <3>1. CASE ev \in seen
        BY <2>2, <2>3, <3>1 DEF MarkedIsPending, Pending, PendReq, PendWorker
      <3>2. CASE ev \notin seen
        BY <2>2, <2>3, <3>2 DEF Pending, PendReq
      <3> QED BY <3>1, <3>2
    <2> QED BY <2>1, <2>3 DEF MarkedIsPending
  <1>2. CASE HandleAccepted(r)
    <2>1. IsSeq(queue') /\ Elems(queue') = Elems(queue) \cup {r[1]}
      BY <1>2, AppendElems DEF HandleAccepted, Shape
    <2>2. Shape'
      BY <1>2, <2>1 DEF HandleAccepted, Shape, InHandler
    <2>3. ASSUME NEW ev \in seen, Pending(ev) PROVE Pending(ev)'
      BY <1>2, <2>1, <2>3 DEF HandleAccepted, Shape, Pending, PendReq, PendWorker
    <2> QED BY <1>2, <2>2, <2>3 DEF HandleAccepted, MarkedIsPending
  <1>3. CASE HandleRefused(r)
    <2>1. Shape'
      BY <1>3 DEF HandleRefused, Shape, InHandler
    <2> QED BY <1>3, <2>1 DEF HandleRefused, Shape, MarkedIsPending, Pending, PendReq, PendWorker
  <1>4. CASE HandlePanics(r)
    <2>1. Shape'
      BY <1>4 DEF HandlePanics, Shape, InHandler
    <2>2. seen' \ stale' = (seen \ stale) \ {r[1]}
      BY <1>4 DEF HandlePanics
    <2>3. ASSUME NEW ev \in seen' \ stale', Pending(ev) PROVE Pending(ev)'
      BY <1>4, <2>2, <2>3 DEF HandlePanics, Shape, Pending, PendReq, PendWorker
    <2> QED BY <1>4, <2>1, <2>2, <2>3 DEF HandlePanics, MarkedIsPending
  <1>5. CASE HandleForget(r)
    <2>1. Shape'
      BY <1>5 DEF HandleForget, Shape, InHandler
    <2>2. seen' \ stale' = (seen \ stale) \ {r[1]}
      BY <1>5 DEF HandleForget, Forget
    <2>3. ASSUME NEW ev \in seen' \ stale', Pending(ev) PROVE Pending(ev)'
      BY <1>5, <2>2, <2>3 DEF HandleForget, Shape, Pending, PendReq, PendWorker
    <2> QED BY <1>5, <2>1, <2>2, <2>3 DEF HandleForget, MarkedIsPending
  <1>6. CASE HandlePersist(r)
    <2>1. Shape'
      BY <1>6 DEF HandlePersist, Shape, InHandler
    <2>2. ASSUME NEW ev \in seen', Pending(ev) PROVE Pending(ev)'
      BY <1>6, <2>2 DEF HandlePersist, Shape, Pending, PendReq, PendWorker
    <2> QED BY <1>6, <2>1, <2>2 DEF HandlePersist, MarkedIsPending
  <1> QED BY <1>1, <1>2, <1>3, <1>4, <1>5, <1>6 DEF Handler

\* A step of a worker lets an event go only after delivery or Forget.
LEMMA WorkerMarked ==
    ASSUME MInv, NEW w \in Workers, Worker(w)
    PROVE  MInv'
  <1> USE DEF MInv
  <1>1. CASE Receive(w)
    <2>1. IsSeq(queue') /\ Elems(queue) = {Head(queue)} \cup Elems(queue')
      BY <1>1, TailElems DEF Receive, Shape
    <2>2. Shape'
      BY <1>1, <2>1 DEF Receive, Shape, WorkerStates, Free
    <2>3. ASSUME NEW ev \in seen, Pending(ev) PROVE Pending(ev)'
      <3>1. CASE ev = Head(queue)
        BY <1>1, <3>1 DEF Receive, Shape, Pending, PendWorker
      <3>2. CASE ev # Head(queue) /\ ev \in Elems(queue)
        BY <2>1, <3>2 DEF Pending
      <3>3. CASE PendReq(ev)
        BY <1>1, <3>3 DEF Receive, Pending, PendReq
      <3>4. CASE PendWorker(ev)
        BY <1>1, <3>4 DEF Receive, Shape, Pending, PendWorker, Free
      <3> QED BY <2>3, <3>1, <3>2, <3>3, <3>4 DEF Pending
    <2> QED BY <1>1, <2>2, <2>3 DEF Receive, MarkedIsPending
  <1>2. CASE PublishOK(w)
    <2>1. Shape'
      BY <1>2 DEF PublishOK, Shape, WorkerStates, Free
    <2>2. ASSUME NEW ev \in seen, Pending(ev), ev # worker[w].ev PROVE Pending(ev)'
      BY <1>2, <2>2 DEF PublishOK, Shape, Pending, PendReq, PendWorker
    <2> QED BY <1>2, <2>1, <2>2 DEF PublishOK, MarkedIsPending
  <1>3. CASE PublishFails(w)
    <2>1. Shape'
      BY <1>3 DEF PublishFails, Shape, WorkerStates
    <2>2. ASSUME NEW ev \in seen, Pending(ev) PROVE Pending(ev)'
      <3>1. \A v \in Workers : worker'[v].ev = worker[v].ev
                /\ (worker'[v].pc = worker[v].pc \/ worker'[v].pc = "dlqForget")
        BY <1>3 DEF PublishFails, Shape
      <3>2. PendWorker(ev) => PendWorker(ev)'
        BY <3>1 DEF PendWorker
      <3>3. PendReq(ev) => PendReq(ev)'
        BY <1>3 DEF PublishFails, PendReq
      <3> QED BY <1>3, <2>2, <3>2, <3>3 DEF PublishFails, Pending
    <2>3. delivered \subseteq delivered'
      BY <1>3 DEF PublishFails
    <2> QED BY <1>3, <2>1, <2>2, <2>3 DEF PublishFails, MarkedIsPending
  <1>4. CASE DLQForget(w)
    <2>1. Shape'
      BY <1>4 DEF DLQForget, Shape, WorkerStates
    <2>2. seen' \ stale' = (seen \ stale) \ {worker[w].ev}
      BY <1>4 DEF DLQForget, Forget
    <2>3. ASSUME NEW ev \in seen' \ stale', Pending(ev) PROVE Pending(ev)'
      BY <1>4, <2>2, <2>3 DEF DLQForget, Shape, Pending, PendReq, PendWorker
    <2> QED BY <1>4, <2>1, <2>2, <2>3 DEF DLQForget, MarkedIsPending
  <1>5. CASE DLQSave(w)
    <2>1. Shape'
      BY <1>5 DEF DLQSave, Shape, WorkerStates, Free
    <2>2. ASSUME NEW ev \in seen, Pending(ev) PROVE Pending(ev)'
      BY <1>5, <2>2 DEF DLQSave, Shape, Pending, PendReq, PendWorker
    <2> QED BY <1>5, <2>1, <2>2 DEF DLQSave, MarkedIsPending
  <1> QED BY <1>1, <1>2, <1>3, <1>4, <1>5 DEF Worker

\* The scheduler touches neither marks nor handlers nor workers; its publish
\* only adds to the queue.
LEMMA SchedulerMarked ==
    ASSUME MInv, Scheduler
    PROVE  MInv'
  <1>1. /\ UNCHANGED <<seen, stale, req, worker, delivered>>
        /\ IsSeq(queue')
        /\ Elems(queue) \subseteq Elems(queue')
    <2>1. CASE SchedPublish
      <3>1. queue' = queue \/ queue' = Append(queue, Visiting.ev)
        BY <2>1 DEF SchedPublish
      <3>2. IsSeq(queue)
        BY DEF MInv, Shape
      <3>3. IsSeq(queue') /\ Elems(queue) \subseteq Elems(queue')
        <4>1. CASE queue' = queue
          BY <3>2, <4>1
        <4>2. CASE queue' = Append(queue, Visiting.ev)
          <5>1. IsSeq(Append(queue, Visiting.ev))
                /\ Elems(Append(queue, Visiting.ev)) = Elems(queue) \cup {Visiting.ev}
            BY <3>2, AppendElems
          <5> QED BY <4>2, <5>1
        <4> QED BY <3>1, <4>1, <4>2
      <3> QED BY <2>1, <3>3 DEF SchedPublish
    <2>2. CASE UNCHANGED <<seen, stale, req, worker, delivered, queue>>
      BY <2>2 DEF MInv, Shape
    <2> QED BY <2>1, <2>2 DEF Scheduler, SchedList, SchedExhausted, SchedSkip,
                              SchedDelete, SchedUpdate, SchedStoreError
  <1>2. Shape'
    BY <1>1 DEF MInv, Shape
  <1>3. MarkedIsPending'
    BY <1>1 DEF MInv, MarkedIsPending, Pending, PendReq, PendWorker
  <1> QED BY <1>2, <1>3 DEF MInv

\* Every step keeps the invariant of the marks.
LEMMA MarkedNext == MInv /\ [Next]_vars => MInv'
  <1> SUFFICES ASSUME MInv, [Next]_vars PROVE MInv'
    OBVIOUS
  <1>1. CASE \E r \in Requests : Handler(r)
    BY <1>1, HandlerMarked
  <1>2. CASE \E ev \in Events : Expire(ev)
    BY <1>2 DEF Expire, MInv, Shape, MarkedIsPending, Pending, PendReq, PendWorker
  <1>3. CASE \E w \in Workers : Worker(w)
    BY <1>3, WorkerMarked
  <1>4. CASE Scheduler
    BY <1>4, SchedulerMarked
  <1>5. CASE UNCHANGED vars
    BY <1>5 DEF vars, MInv, Shape, MarkedIsPending, Pending, PendReq, PendWorker
  <1> QED BY <1>1, <1>2, <1>3, <1>4, <1>5 DEF Next

\* The invariant of the marks implies the property.
LEMMA MarkedImpliesHeld == MInv => MarkedIsHeld
  BY DEF MInv, MarkedIsPending, MarkedIsHeld, Accounted, Pending, PendReq, PendWorker,
         HeldSomewhere, InHandler, Elems

\* The deduper swallows a redelivery only of an event that was delivered or that
\* the handler, the queue, a worker or the store still holds, or for a key left
\* behind: by a Forget that failed, or by a Publish that panicked before Forget.
\* That holds for any backend, with and without the scheduler, also when Save fails,
\* Redis does not answer and keys expire (but for the panic, publishAndAck and the
\* OnDLQ hook call Forget before they give the event up).
THEOREM MarkedHeld == Spec => []MarkedIsHeld
  BY MarkedInit, MarkedNext, MarkedImpliesHeld, PTL DEF Spec

-------------------------------------------------------------------------------
(* How an acknowledged event can be lost. *)

\* Records as Save and UpdateRetryCount make them.
Recorded(s) == IsSeq(s) /\ \A i \in DOMAIN s : s[i] = Rec(s[i].ev, s[i].retries)

\* A sequence is one of its own elements.
LEMMA OwnElems ==
    ASSUME NEW T, NEW s \in Seq(T)
    PROVE  IsSeq(s)
  <1> DEFINE S == Elems(s)
  <1>1. Len(s) \in Nat /\ DOMAIN s = 1..Len(s) /\ s = [i \in 1..Len(s) |-> s[i]]
    OBVIOUS
  <1>2. \A i \in 1..Len(s) : s[i] \in S
    BY <1>1 DEF Elems
  <1> HIDE DEF S
  <1>3. s \in [1..Len(s) -> S]
    BY <1>1, <1>2
  <1>4. s \in Seq(S)
    BY <1>1, <1>3, SeqDef
  <1> QED BY <1>4 DEF IsSeq, S

\* A record at the end.
LEMMA AppendRecord ==
    ASSUME NEW s, Recorded(s), NEW e, NEW n
    PROVE  /\ Recorded(Append(s, Rec(e, n)))
           /\ \A x : Has(Append(s, Rec(e, n)), x) <=> Has(s, x) \/ x = e
  <1> DEFINE t == Append(s, Rec(e, n))
  <1>1. IsSeq(s) /\ \A l \in Elems(s) : l = Rec(l.ev, l.retries)
    BY DEF Recorded, Elems
  <1>2. IsSeq(t) /\ Elems(t) = Elems(s) \cup {Rec(e, n)}
    BY <1>1, AppendElems
  <1>3. Rec(e, n).ev = e /\ Rec(e, n).retries = n
    BY DEF Rec
  <1> HIDE DEF t
  <1>4. \A l \in Elems(t) : l = Rec(l.ev, l.retries)
    BY <1>1, <1>2, <1>3
  <1>5. Recorded(t)
    BY <1>2, <1>4 DEF Recorded, Elems
  <1>6. \A x : Has(s, x) <=> \E l \in Elems(s) : l.ev = x
    BY DEF Has, Elems
  <1>7. \A x : Has(t, x) <=> \E l \in Elems(t) : l.ev = x
    BY DEF Has, Elems
  <1>8. \A x : Has(t, x) <=> Has(s, x) \/ x = e
    BY <1>2, <1>3, <1>6, <1>7
  <1> QED BY <1>5, <1>8 DEF t

\* Delete takes away the records of the event, and no other.
LEMMA WithoutRecords ==
    ASSUME NEW s, Recorded(s), NEW e
    PROVE  /\ Recorded(Without(s, e))
           /\ \A x : Has(Without(s, e), x) <=> Has(s, x) /\ x # e
  <1> DEFINE T == Elems(s)
             S == DOMAIN s \ Places(s, e)
             t == Picked(s, S)
  <1>1. s \in Seq(T) /\ S \in SUBSET DOMAIN s
    BY DEF Recorded, IsSeq
  <1>2. /\ t \in Seq(T)
        /\ \A k \in DOMAIN t : Nth(S, k) \in S /\ t[k] = s[Nth(S, k)]
        /\ \A i \in S : \E k \in DOMAIN t : Nth(S, k) = i
    <2> HIDE DEF T, S
    <2> QED BY <1>1, PickedElems
  <1>3. IsSeq(t)
    BY <1>2, OwnElems
  <1>4. \A i : i \in S <=> i \in DOMAIN s /\ s[i].ev # e
    BY DEF Places
  <1> HIDE DEF T, S, t
  <1>5. Recorded(t)
    <2>1. \A k \in DOMAIN t : t[k] = Rec(t[k].ev, t[k].retries)
      BY <1>2, <1>4 DEF Recorded
    <2> QED BY <1>3, <2>1 DEF Recorded
  <1>6. ASSUME NEW x PROVE Has(t, x) <=> Has(s, x) /\ x # e
    <2>1. ASSUME NEW k \in DOMAIN t, t[k].ev = x PROVE Has(s, x) /\ x # e
      BY <1>2, <1>4, <2>1 DEF Has
    <2>2. ASSUME NEW i \in DOMAIN s, s[i].ev = x, x # e PROVE Has(t, x)
      <3>1. i \in S
        BY <1>4, <2>2
      <3>2. PICK k \in DOMAIN t : Nth(S, k) = i
        BY <1>2, <3>1
      <3> QED BY <1>2, <2>2, <3>2 DEF Has
    <2> QED BY <2>1, <2>2 DEF Has
  <1>7. Without(s, e) = t
    BY DEF Without, t, S
  <1> QED BY <1>5, <1>6, <1>7

\* Save of either store adds a record of the event and keeps one of each other.
LEMMA SaveAdds ==
    ASSUME NEW s, Recorded(s), NEW e
    PROVE  /\ Recorded(Save(s, e))
           /\ \A x : Has(Save(s, e), x) <=> Has(s, x) \/ x = e
  <1>1. CASE Save(s, e) = Append(s, Rec(e, 0))
    BY <1>1, AppendRecord
  <1>2. ASSUME Has(s, e), NEW n, Save(s, e) = Append(Without(s, e), Rec(e, n))
        PROVE  /\ Recorded(Save(s, e))
               /\ \A x : Has(Save(s, e), x) <=> Has(s, x) \/ x = e
    <2> DEFINE t == Without(s, e)
    <2>1. Recorded(t) /\ \A x : Has(t, x) <=> Has(s, x) /\ x # e
      BY WithoutRecords
    <2> HIDE DEF t
    <2>2. Recorded(Append(t, Rec(e, n))) /\ \A x : Has(Append(t, Rec(e, n)), x) <=> Has(t, x) \/ x = e
      BY <2>1, AppendRecord
    <2>3. Save(s, e) = Append(t, Rec(e, n))
      BY <1>2 DEF t
    <2> QED BY <1>2, <2>1, <2>2, <2>3
  <1>3. \/ Save(s, e) = Append(s, Rec(e, 0))
        \/ Has(s, e) /\ \E n : Save(s, e) = Append(Without(s, e), Rec(e, n))
    BY DEF Save, SaveFile, SavePostgres
  <1> QED BY <1>1, <1>2, <1>3

\* UpdateRetryCount leaves every record to its event.
LEMMA UpdateKeeps ==
    ASSUME NEW s, Recorded(s), NEW e, NEW n
    PROVE  /\ Recorded(UpdateRetryCount(s, e, n))
           /\ \A x : Has(UpdateRetryCount(s, e, n), x) <=> Has(s, x)
  <1> DEFINE t == UpdateRetryCount(s, e, n)
             first == FirstOf(s, e)
  <1>1. t = s \/ t = [s EXCEPT ![first].retries = n]
    BY DEF UpdateRetryCount
  <1> HIDE DEF t, first
  <1> SUFFICES Recorded(t) /\ \A x : Has(t, x) <=> Has(s, x)
    BY DEF t
  <1>2. CASE t = s
    BY <1>2
  <1>3. CASE t = [s EXCEPT ![first].retries = n]
    <2>1. s \in Seq(Elems(s)) /\ Len(s) \in Nat /\ DOMAIN s = 1..Len(s)
      BY DEF Recorded, IsSeq
    <2>2. DOMAIN t = DOMAIN s /\ \A i \in DOMAIN s : i # first => t[i] = s[i]
      BY <1>3
    <2>3. first \in DOMAIN s => t[first] = Rec(s[first].ev, n)
      <3>1. first \in DOMAIN s => t[first] = [s[first] EXCEPT !.retries = n] /\ s[first] = Rec(s[first].ev, s[first].retries)
        BY <1>3 DEF Recorded
      <3>2. \A ev, m : [Rec(ev, m) EXCEPT !.retries = n] = Rec(ev, n)
        BY DEF Rec
      <3> QED BY <3>1, <3>2
    <2>4. \A ev, m : Rec(ev, m).ev = ev /\ Rec(ev, m).retries = m
      BY DEF Rec
    <2>5. \A i \in DOMAIN s : t[i].ev = s[i].ev /\ t[i] = Rec(t[i].ev, t[i].retries)
      BY <2>2, <2>3, <2>4 DEF Recorded
    <2>6. t \in Seq(Elems(t))
      <3> DEFINE T == Elems(t)
      <3>1. \A i \in 1..Len(s) : t[i] \in T
        BY <2>1, <2>2 DEF Elems
      <3>2. t = [i \in 1..Len(s) |-> t[i]]
        BY <1>3, <2>1, <2>2
      <3> HIDE DEF T
      <3>3. t \in [1..Len(s) -> T]
        BY <3>1, <3>2
      <3>4. t \in Seq(T)
        BY <2>1, <3>3, SeqDef
      <3> QED BY <3>4 DEF T
    <2> QED BY <2>2, <2>5, <2>6 DEF Recorded, IsSeq, Has
  <1> QED BY <1>1, <1>2, <1>3

\* What every step does: nothing that counts is taken back, the records stay
\* records, an event that is held stays accounted for but for three of the losses,
\* an event is acknowledged only when it is accounted for, but for the fourth, and
\* a key is marked only for an event that is then held.
Kept ==
    /\ Recorded(recs') /\ delivered \subseteq delivered'
    /\ \A ev : HeldSomewhere(ev) =>
           Accounted(ev)' \/ SaveFailed(ev) \/ Discarded(ev) \/ Panicked(ev)
    /\ \A ev \in acked' : ev \in acked \/ Accounted(ev)' \/ (ev \in seen /\ StaleAnswer(ev))
    /\ \A ev \in seen' : ev \in seen \/ Accounted(ev)'

\* The four places of HeldSomewhere.
InReq(ev) == \E r \in Requests : r[1] = ev /\ req[r] \in InHandler
InWork(ev) == \E w \in Workers : worker[w].pc # "free" /\ worker[w].ev = ev

\* The places that hold an event, one by one.
LEMMA HeldPlaces ==
    ASSUME NEW ev
    PROVE  HeldSomewhere(ev) <=>
               InReq(ev) \/ ev \in Elems(queue) \/ InWork(ev) \/ Has(recs, ev)
  BY DEF HeldSomewhere, InReq, InWork, Elems

\* The same after a step.
LEMMA HeldPlacesNext ==
    ASSUME NEW ev
    PROVE  HeldSomewhere(ev)' <=>
               InReq(ev)' \/ ev \in Elems(queue') \/ InWork(ev)' \/ Has(recs, ev)'
  BY DEF HeldSomewhere, InReq, InWork, Elems

\* A Save that leaves the store as it was has failed, any other adds its record.
LEMMA SaveEnds ==
    ASSUME Recorded(recs), NEW e, recs' \in SaveOutcomes(e)
    PROVE  /\ Recorded(recs') /\ \A x : Has(recs, x) => Has(recs, x)'
           /\ Has(recs, e)' \/ (recs' = recs /\ (SaveRefused(e) \/ SaveMayFail))
  <1>1. recs' = Save(recs, e) \/ (recs' = recs /\ (SaveRefused(e) \/ SaveMayFail))
    BY DEF SaveOutcomes
  <1>2. Recorded(Save(recs, e)) /\ \A x : Has(Save(recs, e), x) <=> Has(recs, x) \/ x = e
    BY SaveAdds
  <1> QED BY <1>1, <1>2 DEF Has

\* A handler hands its event over to the queue or the store before it answers,
\* unless its Publish panics.
LEMMA HandlerKeeps ==
    ASSUME MInv, Recorded(recs), NEW r \in Requests, Handler(r)
    PROVE  Kept
  <1>0. Shape /\ MarkedIsHeld
    BY MarkedImpliesHeld DEF MInv
  <1>1. CASE HandleSeen(r) \/ HandleRefused(r) \/ HandleForget(r)
    <2>1. recs' = recs /\ UNCHANGED <<queue, worker, delivered>>
      BY <1>1 DEF HandleSeen, HandleRefused, HandleForget
    <2>2. \A q \in Requests : req[q] \in InHandler => req'[q] \in InHandler
      BY <1>0, <1>1 DEF HandleSeen, HandleRefused, HandleForget, Shape, InHandler
    <2>3. \A ev : HeldSomewhere(ev) => HeldSomewhere(ev)'
      BY <2>1, <2>2, HeldPlaces, HeldPlacesNext DEF InReq, InWork, Has
    <2>4. \A ev \in seen \ stale : ev \in delivered \/ HeldSomewhere(ev)
      BY <1>0 DEF MarkedIsHeld, Accounted
    <2>5. ASSUME NEW ev \in acked', ev \notin acked PROVE ev \in seen /\ (ev \in stale => StaleAnswer(ev))
      <3>1. HandleSeen(r) /\ ev = r[1] /\ r[1] \in seen /\ req'[r] = "202"
        BY <1>0, <1>1, <2>5 DEF HandleSeen, HandleRefused, HandleForget, Shape
      <3> QED BY <3>1 DEF StaleAnswer
    <2>6. ASSUME NEW ev \in seen', ev \notin seen PROVE HeldSomewhere(ev)'
      <3>1. ev = r[1] /\ req'[r] = "publish"
        BY <1>0, <1>1, <2>6 DEF HandleSeen, HandleRefused, HandleForget, Forget, Shape
      <3> QED BY <3>1, HeldPlacesNext DEF InReq, InHandler
    <2> QED BY <1>0, <2>1, <2>3, <2>4, <2>5, <2>6 DEF Kept, Accounted
  <1>2. CASE HandleAccepted(r)
    <2>1. IsSeq(queue') /\ Elems(queue') = Elems(queue) \cup {r[1]}
      BY <1>0, <1>2, AppendElems DEF HandleAccepted, Shape
    <2>2. recs' = recs /\ delivered' = delivered /\ acked' = acked \cup {r[1]} /\ seen' = seen
      BY <1>2 DEF HandleAccepted
    <2>3. \A ev : HeldSomewhere(ev) \/ ev = r[1] => HeldSomewhere(ev)'
      BY <1>0, <1>2, <2>1, HeldPlaces, HeldPlacesNext DEF HandleAccepted, Shape, InReq, InWork, Has
    <2> QED BY <2>2, <2>3 DEF Kept, Accounted
  <1>3. CASE HandlePersist(r)
    <2>1. /\ Recorded(recs') /\ \A x : Has(recs, x) => Has(recs, x)'
          /\ Has(recs, r[1])' \/ (recs' = recs /\ (SaveRefused(r[1]) \/ SaveMayFail))
      BY <1>3, SaveEnds DEF HandlePersist
    <2>2. delivered' = delivered /\ acked' = acked /\ seen' = seen
      BY <1>3 DEF HandlePersist
    <2>3. \A ev : ev # r[1] /\ HeldSomewhere(ev) => HeldSomewhere(ev)'
      BY <1>0, <1>3, <2>1, HeldPlaces, HeldPlacesNext DEF HandlePersist, Shape, InReq, InWork
    <2>4. Has(recs, r[1])' => HeldSomewhere(r[1])'
      BY HeldPlacesNext
    <2>5. Has(recs, r[1])' \/ SaveFailed(r[1])
      BY <1>3, <2>1 DEF SaveFailed
    <2> QED BY <2>1, <2>2, <2>3, <2>4, <2>5 DEF Kept, Accounted
  <1>4. CASE HandlePanics(r)
    <2>1. UNCHANGED <<seen, queue, worker, recs, acked, delivered>>
      BY <1>4 DEF HandlePanics
    <2>2. \A ev : ev # r[1] /\ HeldSomewhere(ev) => HeldSomewhere(ev)'
      BY <1>0, <1>4, <2>1, HeldPlaces, HeldPlacesNext DEF HandlePanics, Shape, InReq, InWork, Has
    <2>3. Panicked(r[1])
      BY <1>4 DEF Panicked
    <2> QED BY <2>1, <2>2, <2>3 DEF Kept, Accounted
  <1> QED BY <1>1, <1>2, <1>3, <1>4 DEF Handler

\* A worker lets an event go only to the backend or to the store.
LEMMA WorkerKeeps ==
    ASSUME MInv, Recorded(recs), NEW w \in Workers, Worker(w)
    PROVE  Kept
  <1>0. Shape
    BY DEF MInv
  <1>1. CASE Receive(w)
    <2>0. PICK h : h = Head(queue)
      OBVIOUS
    <2>1. IsSeq(queue') /\ Elems(queue) = {h} \cup Elems(queue')
      BY <1>0, <1>1, <2>0, TailElems DEF Receive, Shape
    <2>2. recs' = recs /\ delivered' = delivered /\ acked' = acked /\ seen' = seen
      BY <1>1 DEF Receive
    <2>3. InWork(h)' /\ \A ev : InWork(ev) => InWork(ev)'
      <3>1. worker'[w].pc = "publish" /\ worker'[w].ev = h
        BY <1>0, <1>1, <2>0 DEF Receive, Shape
      <3>2. \A v \in Workers : v # w => worker'[v] = worker[v]
        BY <1>0, <1>1 DEF Receive, Shape
      <3>3. worker[w].pc = "free"
        BY <1>1 DEF Receive, Free
      <3> QED BY <3>1, <3>2, <3>3 DEF InWork
    <2>4. \A ev : HeldSomewhere(ev) => HeldSomewhere(ev)'
      BY <1>0, <1>1, <2>1, <2>3, HeldPlaces, HeldPlacesNext DEF Receive, InReq, Has
    <2> QED BY <2>2, <2>4 DEF Kept, Accounted
  <1>2. CASE PublishOK(w)
    <2>1. recs' = recs /\ acked' = acked /\ seen' = seen /\ delivered' = delivered \cup {worker[w].ev}
      BY <1>2 DEF PublishOK
    <2>2. \A ev : HeldSomewhere(ev) /\ ev # worker[w].ev => HeldSomewhere(ev)'
      BY <1>0, <1>2, HeldPlaces, HeldPlacesNext DEF PublishOK, Shape, InReq, InWork, Has
    <2> QED BY <2>1, <2>2 DEF Kept, Accounted
  <1>3. CASE PublishFails(w) \/ DLQForget(w)
    <2>1. recs' = recs /\ acked' = acked /\ delivered \subseteq delivered'
          /\ seen' \subseteq seen
      BY <1>3 DEF PublishFails, DLQForget, Forget
    <2>2. \A v \in Workers : worker'[v].ev = worker[v].ev
              /\ (worker'[v].pc = worker[v].pc \/ worker'[v].pc \in {"dlqForget", "dlqSave"})
      BY <1>0, <1>3 DEF PublishFails, DLQForget, Shape
    <2>3. \A ev : InWork(ev) => InWork(ev)'
      BY <2>2 DEF InWork
    <2>4. \A ev : HeldSomewhere(ev) => HeldSomewhere(ev)'
      BY <1>0, <1>3, <2>3, HeldPlaces, HeldPlacesNext DEF PublishFails, DLQForget, InReq, Has
    <2> QED BY <2>1, <2>4 DEF Kept, Accounted
  <1>4. CASE DLQSave(w)
    <2>0. PICK e : e = worker[w].ev
      OBVIOUS
    <2>1. /\ Recorded(recs') /\ \A x : Has(recs, x) => Has(recs, x)'
          /\ Has(recs, e)' \/ (recs' = recs /\ (SaveRefused(e) \/ SaveMayFail))
      BY <1>4, <2>0, SaveEnds DEF DLQSave
    <2>2. delivered' = delivered /\ acked' = acked /\ seen' = seen
      BY <1>4 DEF DLQSave
    <2>3. \A ev : InWork(ev) /\ ev # e => InWork(ev)'
      BY <1>0, <1>4, <2>0 DEF DLQSave, Shape, InWork
    <2>4. \A ev : ev # e /\ HeldSomewhere(ev) => HeldSomewhere(ev)'
      BY <1>0, <1>4, <2>1, <2>3, HeldPlaces, HeldPlacesNext DEF DLQSave, InReq
    <2>5. Has(recs, e)' => HeldSomewhere(e)'
      BY HeldPlacesNext
    <2>6. Has(recs, e)' \/ SaveFailed(e)
      BY <1>4, <2>0, <2>1 DEF SaveFailed
    <2> QED BY <2>1, <2>2, <2>4, <2>5, <2>6 DEF Kept, Accounted
  <1> QED BY <1>1, <1>2, <1>3, <1>4 DEF Worker

\* The scheduler deletes the records of the event it visits, and of no other.
LEMMA SchedulerKeeps ==
    ASSUME MInv, Recorded(recs), Scheduler
    PROVE  Kept
  <1>0. Shape
    BY DEF MInv
  <1>1. CASE SchedList \/ SchedSkip \/ SchedStoreError
    <2>1. UNCHANGED <<seen, req, queue, worker, recs, acked, delivered>>
      BY <1>1 DEF SchedList, SchedSkip, SchedStoreError
    <2> QED BY <2>1 DEF Kept, Accounted, HeldSomewhere, Has
  <1>2. CASE SchedPublish
    <2>1. UNCHANGED <<seen, req, worker, recs, acked, delivered>>
      BY <1>2 DEF SchedPublish
    <2>2. Elems(queue) \subseteq Elems(queue')
      <3>1. PICK e : e = Visiting.ev
        OBVIOUS
      <3>2. queue' = queue \/ queue' = Append(queue, e)
        BY <1>2, <3>1 DEF SchedPublish
      <3> QED BY <1>0, <3>2, AppendElems DEF Shape
    <2>3. \A ev : HeldSomewhere(ev) => HeldSomewhere(ev)'
      BY <2>1, <2>2, HeldPlaces, HeldPlacesNext DEF InReq, InWork, Has
    <2> QED BY <2>1, <2>3 DEF Kept, Accounted
  <1>3. ASSUME NEW e, recs' = Delete(recs, e), UNCHANGED <<req, queue, worker>>
        PROVE  Recorded(recs') /\ \A ev : ev # e /\ HeldSomewhere(ev) => HeldSomewhere(ev)'
    <2>1. Recorded(recs') /\ \A ev : Has(recs', ev) <=> Has(recs, ev) /\ ev # e
      BY <1>3, WithoutRecords DEF Delete
    <2>2. \A ev : Has(recs, ev)' <=> Has(recs', ev)
      BY DEF Has
    <2> QED BY <1>3, <2>1, <2>2, HeldPlaces, HeldPlacesNext DEF InReq, InWork
  <1>4. CASE SchedExhausted \/ SchedDelete
    <2>1. UNCHANGED <<seen, req, queue, worker, acked, delivered>>
      BY <1>4 DEF SchedExhausted, SchedDelete
    <2>2. Recorded(recs') /\ \A ev : ev # Visiting.ev /\ HeldSomewhere(ev) => HeldSomewhere(ev)'
      BY <1>3, <1>4 DEF SchedExhausted, SchedDelete
    <2>3. \A ev : ev = Visiting.ev => Discarded(ev)
      BY <1>4 DEF Discarded
    <2> QED BY <2>1, <2>2, <2>3 DEF Kept, Accounted
  <1>6. CASE SchedUpdate
    <2>1. UNCHANGED <<seen, req, queue, worker, acked, delivered>>
      BY <1>6 DEF SchedUpdate
    <2>2. Recorded(recs') /\ \A ev : Has(recs, ev)' <=> Has(recs, ev)
      <3>1. recs' = UpdateRetryCount(recs, Visiting.ev, Visiting.retries + 1)
        BY <1>6 DEF SchedUpdate
      <3>2. Recorded(recs') /\ \A ev : Has(recs', ev) <=> Has(recs, ev)
        BY <3>1, UpdateKeeps
      <3> QED BY <3>2 DEF Has
    <2>3. \A ev : HeldSomewhere(ev) => HeldSomewhere(ev)'
      BY <2>1, <2>2, HeldPlaces, HeldPlacesNext DEF InReq, InWork
    <2> QED BY <2>1, <2>2, <2>3 DEF Kept, Accounted
  <1> QED BY <1>1, <1>2, <1>4, <1>6 DEF Scheduler

LEMMA StepKeeps ==
    ASSUME MInv, Recorded(recs), [Next]_vars
    PROVE  Kept
  <1>1. CASE \E r \in Requests : Handler(r)
    BY <1>1, HandlerKeeps
  <1>2. CASE (\E ev \in Events : Expire(ev)) \/ UNCHANGED vars
    <2>1. UNCHANGED <<req, queue, worker, recs, acked, delivered>> /\ seen' \subseteq seen
      BY <1>2 DEF Expire, vars
    <2> QED BY <2>1 DEF Kept, Accounted, HeldSomewhere, Has
  <1>3. CASE \E w \in Workers : Worker(w)
    BY <1>3, WorkerKeeps
  <1>4. CASE Scheduler
    BY <1>4, SchedulerKeeps
  <1> QED BY <1>1, <1>2, <1>3, <1>4 DEF Next

\* What the theorems below rest on.
LEMMA RecordsHold == Spec => [](MInv /\ Recorded(recs))
  <1>1. Init => Recorded(recs)
    BY DEF Init, Recorded, IsSeq, Elems
  <1>2. MInv /\ Recorded(recs) /\ [Next]_vars => Recorded(recs)'
    <2> SUFFICES ASSUME MInv, Recorded(recs), [Next]_vars PROVE Recorded(recs)'
      OBVIOUS
    <2>1. Recorded(recs')
      BY StepKeeps DEF Kept
    <2> QED BY <2>1 DEF Recorded, IsSeq, Elems
  <1> QED BY <1>1, <1>2, MarkedInit, MarkedNext, PTL DEF Spec

\* While the processes run, an acknowledged event is lost only by a Save of it that
\* fails, by the Delete with which the scheduler takes it for retried or gives it up,
\* by a Publish of it that panics, or by a 202 for a key that a failed Forget or such
\* a panic has left: with either store and deduper, errors, passed deadlines, bodies
\* that are not JSON, expiring keys, the scheduler, requests that outlast
\* srv.Shutdown, and any number of deliveries and workers.
THEOREM LossesAreNamed == Spec => LossesNamed
  <1> DEFINE Step == \A ev \in acked' :
                        \/ Accounted(ev)' \/ (ev \in acked /\ ~Accounted(ev))
                        \/ SaveFailed(ev) \/ Discarded(ev) \/ Panicked(ev) \/ StaleAnswer(ev)
  <1>1. MInv /\ Recorded(recs) /\ [Next]_vars => [Step]_vars
    <2> SUFFICES ASSUME MInv, Recorded(recs), [Next]_vars, NEW ev \in acked', ev \in acked, Accounted(ev)
                 PROVE  Accounted(ev)' \/ SaveFailed(ev) \/ Discarded(ev) \/ Panicked(ev)
      BY StepKeeps DEF Kept
    <2>1. Kept
      BY StepKeeps
    <2> QED BY <2>1 DEF Kept, Accounted
  <1>2. LossesNamed <=> [][Step]_vars
    BY DEF LossesNamed
  <1> HIDE DEF Step
  <1>3. Spec => [][Step]_vars
    BY <1>1, RecordsHold, PTL DEF Spec
  <1> QED BY <1>2, <1>3

-------------------------------------------------------------------------------
(* An acknowledged event that the configuration cannot lose is not lost. *)

\* A key and a 202 are for an event that somebody has, or that was delivered,
\* unless the configuration can lose the event.
Sure == \A ev \in seen \cup acked : MayLose(ev) \/ Accounted(ev)

\* Without the retry scheduler there is no pass.
NoPass == ~Retrying => sched = Resting

LEMMA NoPassKept == NoPass /\ [Next]_vars => NoPass'
  <1> SUFFICES ASSUME NoPass, [Next]_vars, ~Retrying PROVE sched' = Resting
    BY DEF NoPass
  <1>1. sched = Resting
    BY DEF NoPass
  <1>2. ~Scheduler
    BY <1>1 DEF Resting, Scheduler, SchedList, SchedExhausted, SchedSkip, SchedPublish,
                SchedDelete, SchedUpdate, SchedStoreError
  <1> QED BY <1>1, <1>2 DEF Next, Handler, HandleSeen, HandleAccepted, HandleRefused, HandlePanics, HandleForget,
             HandlePersist, Expire, Worker, Receive, PublishOK, PublishFails, DLQForget, DLQSave, vars

\* A step loses no event that the configuration cannot lose, and marks or answers
\* 202 for no other.
LEMMA SureKept == MInv /\ Recorded(recs) /\ NoPass /\ Sure /\ [Next]_vars => Sure'
  <1> SUFFICES ASSUME MInv, Recorded(recs), NoPass, Sure, [Next]_vars,
                      NEW ev \in seen' \cup acked', ~MayLose(ev)
               PROVE  Accounted(ev)'
    BY DEF Sure, MayLose, SaveRefused, SaveMayFail
  <1>1. Kept
    BY StepKeeps
  <1>2. ~SaveFailed(ev)
    BY DEF MayLose, SaveFailed
  <1>3. ~Discarded(ev) /\ ~Panicked(ev)
    <2>1. ~SchedDelete /\ ~SchedExhausted
      BY DEF MayLose, NoPass, Resting, SchedDelete, SchedExhausted
    <2>2. \A q \in Requests : q[1] = ev => ~HandlePanics(q)
      BY DEF MayLose, HandlePanics
    <2> QED BY <2>1, <2>2 DEF Discarded, Panicked
  <1>4. CASE ev \in seen \cup acked
    <2>1. ev \in delivered \/ HeldSomewhere(ev)
      BY <1>4 DEF Sure, Accounted
    <2>2. HeldSomewhere(ev) => Accounted(ev)'
      BY <1>1, <1>2, <1>3 DEF Kept
    <2>3. ev \in delivered => Accounted(ev)'
      BY <1>1 DEF Kept, Accounted
    <2> QED BY <2>1, <2>2, <2>3
  <1>5. CASE ev \notin seen \cup acked
    BY <1>1, <1>5 DEF Kept
  <1> QED BY <1>4, <1>5

LEMMA SureHolds == Spec => [](Sure /\ NoPass)
  <1>1. Init => Sure /\ NoPass
    BY DEF Init, Sure, NoPass
  <1> QED BY <1>1, NoPassKept, SureKept, RecordsHold, PTL DEF Spec

\* An acknowledged event is delivered or held, unless the configuration can lose it:
\* the scheduler runs, a Save of the event can fail, or a request of the event can
\* outlast srv.Shutdown and panic in Publish. That holds for any number of concurrent
\* deliveries, workers and expiries, also when Seen and Forget fail and when other
\* events are lost: a duplicate's 202 is covered by the original, which ends in the
\* queue or in the store, also when its key is one that a failed Forget has left.
THEOREM AcknowledgedNeverLost == Spec => [](\A ev \in acked : MayLose(ev) \/ Accounted(ev))
  <1>1. Sure => \A ev \in acked : MayLose(ev) \/ Accounted(ev)
    BY DEF Sure
  <1> QED BY <1>1, SureHolds, PTL

-------------------------------------------------------------------------------
(* The failed-event file: what it holds *)

Lines   == [ev : Events, retries : Nat, kind : {"json", "long", "bad"}]
Records == [ev : Events, retries : Nat]

\* The events with a record in the first n lines, and in a list of records.
JSON(lines, n) == {i \in DOMAIN lines : lines[i].kind = "json" /\ i <= n}
Names(lines, n) == {lines[i].ev : i \in JSON(lines, n)}
Keys(found)      == {found[i].ev : i \in DOMAIN found}

\* The lines that no later line can continue.
Finished == IF open THEN Len(file) - 1 ELSE Len(file)

\* GetByID finds what has a record, unless it meets a line that is too long.
LEMMA Found ==
    ASSUME file \in Seq(Lines), NEW ev
    PROVE  /\ GetResult(ev) = "found" => ev \in Names(file, Len(file))
           /\ Scannable(file) /\ ev \in Names(file, Len(file)) => GetResult(ev) = "found"
  <1>1. \A i \in DOMAIN file : i <= Len(file) /\ \A j \in 1..i : j \in DOMAIN file
    OBVIOUS
  <1>2. GetResult(ev) = "found" <=>
            \E i \in DOMAIN file : /\ file[i].kind = "json" /\ file[i].ev = ev
                                   /\ \A j \in 1..i : file[j].kind # "long"
    BY DEF GetResult
  <1>3. ev \in Names(file, Len(file)) <=> \E i \in DOMAIN file : file[i].kind = "json" /\ file[i].ev = ev
    BY <1>1, Zenon DEF Names, JSON
  <1>4. Scannable(file) => \A i \in DOMAIN file : \A j \in 1..i : file[j].kind # "long"
    BY <1>1 DEF Scannable
  <1> QED BY <1>2, <1>3, <1>4

\* readAllLocked returns the records of the file.
LEMMA ReadAll ==
    ASSUME NEW lines \in Seq(Lines)
    PROVE  readAllLocked(lines) \in Seq(Records) /\ Keys(readAllLocked(lines)) = Names(lines, Len(lines))
  <1> DEFINE S == {i \in DOMAIN lines : lines[i].kind = "json"}
             good == Picked(lines, S)
             found == readAllLocked(lines)
  <1>0. S \in SUBSET DOMAIN lines
    OBVIOUS
  <1>4. Names(lines, Len(lines)) = {lines[i].ev : i \in S}
    <2>1. S = JSON(lines, Len(lines))
      BY DEF JSON
    <2> QED BY <2>1, Zenon DEF Names
  <1> HIDE DEF S
  <1>1. /\ good \in Seq(Lines)
        /\ \A k \in DOMAIN good : Nth(S, k) \in S /\ good[k] = lines[Nth(S, k)]
        /\ \A i \in S : \E k \in DOMAIN good : Nth(S, k) = i
    <2>1. good = Picked(lines, S)
      OBVIOUS
    <2> HIDE DEF good
    <2> QED BY <1>0, <2>1, PickedElems
  <1>2. found = [k \in DOMAIN good |-> Rec(good[k].ev, good[k].retries)]
    BY DEF readAllLocked, S
  <1> HIDE DEF good, found
  <1>3. found \in Seq(Records) /\ DOMAIN found = DOMAIN good /\ \A k \in DOMAIN good : found[k].ev = good[k].ev
    <2>1. DOMAIN good = 1..Len(good) /\ Len(good) \in Nat /\ \A k \in DOMAIN good : good[k] \in Lines
      BY <1>1
    <2>2. \A k \in DOMAIN good : Rec(good[k].ev, good[k].retries) \in Records /\ found[k] = Rec(good[k].ev, good[k].retries)
      BY <2>1, <1>2 DEF Records, Lines, Rec
    <2>3. found \in [1..Len(good) -> Records]
      BY <2>1, <2>2, <1>2
    <2>4. DOMAIN found = DOMAIN good
      BY <1>2
    <2>5. found \in Seq(Records)
      BY <2>1, <2>3
    <2>6. ASSUME NEW k \in DOMAIN good PROVE found[k].ev = good[k].ev
      <3>1. \A e, n : Rec(e, n).ev = e
        BY DEF Rec
      <3>2. found[k] = Rec(good[k].ev, good[k].retries)
        BY <2>2
      <3> QED BY <3>1, <3>2
    <2> QED BY <2>4, <2>5, <2>6
  <1>5. Keys(found) \subseteq Names(lines, Len(lines))
    BY <1>1, <1>3, <1>4, Zenon DEF Keys
  <1>6. Names(lines, Len(lines)) \subseteq Keys(found)
    <2>1. ASSUME NEW i \in S PROVE lines[i].ev \in Keys(found)
      <3>1. PICK k \in DOMAIN good : Nth(S, k) = i
        BY <1>1
      <3>2. found[k].ev = lines[i].ev /\ k \in DOMAIN found
        BY <3>1, <1>1, <1>3
      <3> QED BY <3>2, Zenon DEF Keys
    <2>2. \A x \in Names(lines, Len(lines)) : \E i \in S : x = lines[i].ev
      BY <1>4
    <2> QED BY <2>1, <2>2
  <1> QED BY <1>3, <1>5, <1>6 DEF found

\* Delete takes out the event and nothing else; UpdateRetryCount takes out nothing.
LEMMA Rewritten ==
    ASSUME NEW found \in Seq(Records), NEW ev, NEW n \in Nat
    PROVE  /\ Delete(found, ev) \in Seq(Records) /\ Keys(Delete(found, ev)) = Keys(found) \ {ev}
           /\ UpdateRetryCount(found, ev, n) \in Seq(Records)
           /\ Keys(UpdateRetryCount(found, ev, n)) = Keys(found)
  <1>1. Delete(found, ev) \in Seq(Records) /\ Keys(Delete(found, ev)) = Keys(found) \ {ev}
    <2> DEFINE S == DOMAIN found \ Places(found, ev)
               left == Picked(found, S)
    <2>2. \A i \in DOMAIN found : i \in S <=> found[i].ev # ev
      BY DEF Places
    <2>3. S \in SUBSET DOMAIN found
      OBVIOUS
    <2>4. Delete(found, ev) = left
      BY DEF Delete, Without
    <2> HIDE DEF S
    <2>1. /\ left \in Seq(Records)
          /\ \A k \in DOMAIN left : Nth(S, k) \in S /\ left[k] = found[Nth(S, k)]
          /\ \A i \in S : \E k \in DOMAIN left : Nth(S, k) = i
      <3>1. left = Picked(found, S)
        OBVIOUS
      <3> HIDE DEF left
      <3> QED BY <2>3, <3>1, PickedElems
    <2> HIDE DEF left
    <2>5. ASSUME NEW k \in DOMAIN left PROVE left[k].ev \in Keys(found) \ {ev}
      <3>1. Nth(S, k) \in DOMAIN found /\ left[k].ev = found[Nth(S, k)].ev /\ found[Nth(S, k)].ev # ev
        BY <2>1, <2>2, <2>3
      <3> QED BY <3>1, Zenon DEF Keys
    <2>6. ASSUME NEW i \in DOMAIN found, found[i].ev # ev PROVE found[i].ev \in Keys(left)
      <3>1. PICK k \in DOMAIN left : Nth(S, k) = i
        BY <2>1, <2>2, <2>6
      <3>2. left[k].ev = found[i].ev
        BY <3>1, <2>1
      <3> QED BY <3>2, Zenon DEF Keys
    <2>7. Keys(left) = Keys(found) \ {ev}
      BY <2>5, <2>6 DEF Keys
    <2> QED BY <2>1, <2>4, <2>7
  <1>2. UpdateRetryCount(found, ev, n) \in Seq(Records) /\ Keys(UpdateRetryCount(found, ev, n)) = Keys(found)
    <2> DEFINE new == [found EXCEPT ![FirstOf(found, ev)].retries = n]
    <2>1. /\ new \in Seq(Records) /\ DOMAIN new = DOMAIN found
          /\ \A i \in DOMAIN found : new[i].ev = found[i].ev
      <3>1. DOMAIN found = 1..Len(found) /\ Len(found) \in Nat /\ \A i \in DOMAIN found : found[i] \in Records
        OBVIOUS
      <3>2. \A r \in Records : [r EXCEPT !.retries = n] \in Records /\ [r EXCEPT !.retries = n].ev = r.ev
        BY DEF Records
      <3>3. \A i \in DOMAIN found : new[i] = found[i] \/ new[i] = [found[i] EXCEPT !.retries = n]
        OBVIOUS
      <3>4. DOMAIN new = DOMAIN found /\ \A i \in DOMAIN found : new[i] \in Records /\ new[i].ev = found[i].ev
        BY <3>1, <3>2, <3>3
      <3>5. new \in [1..Len(found) -> Records]
        <4>1. new = [i \in DOMAIN found |-> new[i]]
          OBVIOUS
        <4> HIDE DEF new
        <4> QED BY <3>1, <3>4, <4>1
      <3> HIDE DEF new
      <3> QED BY <3>1, <3>4, <3>5
    <2> HIDE DEF new
    <2>2. Keys(new) = Keys(found)
      BY <2>1 DEF Keys
    <2> QED BY <2>1, <2>2 DEF UpdateRetryCount, new
  <1> QED BY <1>1, <1>2

\* A last line that becomes no record takes its own name away and no other.
LEMMA Replaced ==
    ASSUME NEW s \in Seq(Lines), Len(s) \in DOMAIN s, NEW x \in Lines, x.kind # "json",
           NEW t, t = [s EXCEPT ![Len(s)] = x]
    PROVE  /\ t \in Seq(Lines) /\ t # <<>>
           /\ Names(s, Len(s) - 1) \subseteq Names(t, Len(t) - 1)
           /\ Names(t, Len(t)) \subseteq Names(s, Len(s))
           /\ Scannable(s) /\ x.kind # "long" => Scannable(t)
  <1> DEFINE n == Len(s)
  <1>1. n \in Nat /\ n >= 1 /\ DOMAIN s = 1..n /\ \A i \in 1..n : s[i] \in Lines
    OBVIOUS
  <1>2. DOMAIN t = 1..n /\ t[n] = x /\ \A i \in 1..n : i # n => t[i] = s[i]
    <2> HIDE DEF n
    <2> QED BY <1>1 DEF n
  <1>3. t \in Seq(Lines) /\ Len(t) = n
    <2>1. s \in [1..n -> Lines]
      BY <1>1
    <2> HIDE DEF n
    <2>2. t \in [1..n -> Lines]
      BY <2>1 DEF n
    <2> QED BY <1>1, <1>2, <2>2
  <1> HIDE DEF n
  <1>6. ASSUME NEW i \in JSON(s, n - 1) PROVE i \in JSON(t, n - 1) /\ s[i].ev = t[i].ev
    <2>1. i \in 1..n /\ s[i].kind = "json" /\ i <= n - 1
      BY <1>1, <1>6 DEF JSON
    <2>2. i # n
      BY <1>1, <2>1
    <2> QED BY <1>2, <2>1, <2>2 DEF JSON
  <1>7. ASSUME NEW i \in JSON(t, n) PROVE i \in JSON(s, n) /\ t[i].ev = s[i].ev
    <2>1. i \in 1..n /\ t[i].kind = "json" /\ i <= n
      BY <1>2, <1>7 DEF JSON
    <2>2. i # n
      BY <1>2, <2>1
    <2> QED BY <1>1, <1>2, <2>1, <2>2 DEF JSON
  <1>8. Names(s, n - 1) \subseteq Names(t, n - 1)
    BY <1>6, Zenon DEF Names
  <1>9. Names(t, n) \subseteq Names(s, n)
    BY <1>7, Zenon DEF Names
  <1>10. Scannable(s) /\ x.kind # "long" => Scannable(t)
    BY <1>1, <1>2 DEF Scannable
  <1>11. t # <<>>
    BY <1>1, <1>3
  <1> QED BY <1>3, <1>8, <1>9, <1>10, <1>11 DEF n

\* Writing a line, or a part of one: what was on finished lines stays, nothing
\* comes but the event of the line, and that unless the line continues another.
LEMMA LineAdded ==
    ASSUME file \in Seq(Lines), open \in BOOLEAN, open => file # <<>>, NEW line \in Lines
    PROVE  /\ AppendLine(line) \in Seq(Lines) /\ AppendLine(line) # <<>>
           /\ Names(file, Finished) \subseteq Names(AppendLine(line), Len(AppendLine(line)) - 1)
           /\ Names(AppendLine(line), Len(AppendLine(line))) \subseteq Names(file, Len(file)) \cup {line.ev}
           /\ ~open /\ line.kind = "json" => line.ev \in Names(AppendLine(line), Len(AppendLine(line)))
           /\ Scannable(file) /\ line.kind # "long" => Scannable(AppendLine(line))
  <1> DEFINE new == AppendLine(line)
             last == Len(file)
  <1>0. last \in Nat /\ DOMAIN file = 1..last /\ \A i \in 1..last : file[i] \in Lines
    OBVIOUS
  <1>1. CASE ~open
    <2>1. new = Append(file, line)
      BY <1>1 DEF AppendLine
    <2>2. /\ new \in Seq(Lines) /\ Len(new) = last + 1 /\ DOMAIN new = 1..(last + 1) /\ new # <<>>
          /\ \A i \in 1..last : new[i] = file[i]
          /\ new[last + 1] = line
      BY <2>1
    <2> HIDE DEF new
    <2>3. Names(file, Finished) \subseteq Names(new, Len(new) - 1)
      BY <1>0, <1>1, <2>2 DEF Names, JSON, Finished
    <2>4. \A i \in DOMAIN new : i \in DOMAIN file \/ i = last + 1
      BY <1>0, <2>2
    <2>5. Names(new, Len(new)) \subseteq Names(file, Len(file)) \cup {line.ev}
      BY <1>0, <2>2, <2>4 DEF Names, JSON
    <2>6. line.kind = "json" => line.ev \in Names(new, Len(new))
      BY <1>0, <2>2 DEF Names, JSON
    <2>7. Scannable(file) /\ line.kind # "long" => Scannable(new)
      BY <1>0, <2>2, <2>4 DEF Scannable
    <2> QED BY <1>1, <2>2, <2>3, <2>5, <2>6, <2>7 DEF new
  <1>2. CASE open
    <2> DEFINE joined == Joined(file[last], line)
    <2>1. last \in 1..last
      BY <1>0, <1>2
    <2>2. /\ joined \in Lines /\ joined.kind # "json"
          /\ file[last].kind # "long" /\ line.kind # "long" => joined.kind # "long"
      <3>1. joined = [ev |-> line.ev, retries |-> 0,
                      kind |-> IF "long" \in {file[last].kind, line.kind} THEN "long" ELSE "bad"]
        BY DEF Joined, BadLine
      <3>2. line.ev \in Events
        BY DEF Lines
      <3> HIDE DEF joined
      <3> QED BY <3>1, <3>2 DEF Lines
    <2>3. new = [file EXCEPT ![last] = joined]
      BY <1>2 DEF AppendLine
    <2> HIDE DEF joined, new
    <2>4. new \in Seq(Lines) /\ new # <<>>
      BY <1>0, <2>1, <2>2, <2>3, Replaced
    <2>5. /\ Names(file, last - 1) \subseteq Names(new, Len(new) - 1)
          /\ Names(new, Len(new)) \subseteq Names(file, last)
          /\ Scannable(file) /\ joined.kind # "long" => Scannable(new)
      BY <1>0, <2>1, <2>2, <2>3, Replaced
    <2>6. Finished = last - 1
      BY <1>2 DEF Finished
    <2>7. Scannable(file) /\ line.kind # "long" => Scannable(new)
      BY <2>1, <2>2, <2>5, <1>0 DEF Scannable
    <2> QED BY <1>2, <2>4, <2>5, <2>6, <2>7 DEF new
  <1> QED BY <1>1, <1>2

-------------------------------------------------------------------------------
(* The failed-event file: what is lost *)

\* The events whose last Save returned nil and that have no record on a finished
\* line; a last line that is not finished will cost the next record.
Unsafe == saved \ Names(file, Finished)
Pledge == IF open THEN 1 ELSE 0

FileTypeOK ==
    /\ file \in Seq(Lines)
    /\ open \in BOOLEAN /\ (open => file # <<>>)
    /\ failures \in Nat
    /\ IsFiniteSet(saved)

\* What an operation that holds the lock is about to write.
RewriteOK ==
    op # Idle =>
        /\ op.recs \in Seq(Records)
        /\ Keys(op.recs) = Names(file, Len(file)) \ (IF op.kind = "delete" THEN {op.ev} ELSE {})

DeletedOK == deleted \cap Names(file, Len(file)) = {}

LossOK == Scannable(file) /\ Cardinality(Unsafe) + Pledge <= failures

FileOK == FileTypeOK /\ RewriteOK /\ DeletedOK

\* The names of a shorter stretch of lines.
LEMMA FewerNames ==
    ASSUME FileTypeOK
    PROVE  /\ Names(file, Finished) \subseteq Names(file, Len(file))
           /\ ~open => Finished = Len(file)
  <1>1. Len(file) \in Nat
    BY DEF FileTypeOK
  <1>2. Finished <= Len(file)
    BY <1>1 DEF Finished
  <1>3. Finished \in Int
    BY <1>1 DEF Finished
  <1>4. \A i \in DOMAIN file : i <= Finished => i <= Len(file)
    BY <1>1, <1>2, <1>3 DEF FileTypeOK
  <1> QED BY <1>4 DEF Names, JSON, Finished

\* The file that a rewrite leaves.
LEMMA Renamed ==
    ASSUME op # Idle, RewriteOK, RewriteRename
    PROVE  /\ file' \in Seq(Lines)
           /\ Names(file', Len(file')) \subseteq Keys(op.recs)
           /\ Long = {} => Scannable(file') /\ Keys(op.recs) \subseteq Names(file', Len(file'))
  <1> DEFINE found == op.recs
             new == file'
  <1>1. /\ found \in Seq(Records)
        /\ new = [i \in DOMAIN found |-> Line(found[i].ev, found[i].retries)]
    BY DEF RewriteRename, RewriteOK
  <1> HIDE DEF found, new
  <1>2. DOMAIN found = 1..Len(found) /\ Len(found) \in Nat /\ \A i \in DOMAIN found : found[i] \in Records
    BY <1>1
  <1>3. \A r \in Records : /\ Line(r.ev, r.retries) \in Lines /\ Line(r.ev, r.retries).ev = r.ev
                           /\ Long = {} => Line(r.ev, r.retries).kind = "json"
    BY DEF Records, Lines, Line
  <1>4. /\ DOMAIN new = DOMAIN found
        /\ \A i \in DOMAIN found : new[i] = Line(found[i].ev, found[i].retries)
    BY <1>1
  <1>5. ASSUME NEW i \in DOMAIN found
        PROVE  new[i] \in Lines /\ new[i].ev = found[i].ev /\ (Long = {} => new[i].kind = "json")
    <2>1. found[i] \in Records /\ new[i] = Line(found[i].ev, found[i].retries)
      BY <1>2, <1>4
    <2> QED BY <2>1, <1>3, Zenon
  <1>6. new \in Seq(Lines) /\ Len(new) = Len(found)
    <2>1. new \in [1..Len(found) -> Lines]
      BY <1>1, <1>2, <1>4, <1>5
    <2> QED BY <2>1, <1>2
  <1>7. Names(new, Len(new)) \subseteq Keys(found)
    BY <1>4, <1>5, Zenon DEF Names, JSON, Keys
  <1>8. ASSUME Long = {} PROVE Scannable(new) /\ Keys(found) \subseteq Names(new, Len(new))
    <2>1. \A i \in DOMAIN found : i \in JSON(new, Len(new))
      BY <1>2, <1>4, <1>5, <1>6, <1>8 DEF JSON
    <2>2. Keys(found) \subseteq Names(new, Len(new))
      BY <2>1, <1>5, Zenon DEF Keys, Names
    <2> QED BY <2>2, <1>4, <1>5, <1>8 DEF Scannable
  <1> QED BY <1>6, <1>7, <1>8 DEF found, new

\* The steps of Save: the line is written, or nothing or a part of it is.
Writes(ev) ==
    \E line \in {Line(ev, 0), BadLine(ev)} :
        /\ file' = AppendLine(line)
        /\ open' \in BOOLEAN
        /\ op = Idle /\ op' = Idle
        /\ deleted' = deleted \ {ev}
        /\ \/ open' = FALSE /\ saved' = saved \cup {ev} /\ failures' = failures /\ line = Line(ev, 0)
           \/ saved' = saved /\ failures' = failures + 1

LEMMA SaveWrites ==
    ASSUME NEW ev \in Events
    PROVE  /\ SaveReturns(ev) => Writes(ev)
           /\ SaveFails(ev) => \/ Writes(ev)
                               \/ UNCHANGED <<file, open, op, saved>> /\ failures' = failures + 1
                                  /\ deleted' = deleted \ {ev}
  BY DEF SaveReturns, SaveFails, Writes

LEMMA LineTypes ==
    ASSUME NEW ev \in Events
    PROVE  /\ Line(ev, 0) \in Lines /\ BadLine(ev) \in Lines
           /\ Line(ev, 0).ev = ev /\ BadLine(ev).ev = ev
           /\ Long = {} => Line(ev, 0).kind = "json"
           /\ BadLine(ev).kind = "bad"
  BY DEF Line, BadLine, Lines

\* Delete and UpdateRetryCount up to the rename.
LEMMA BeginOK ==
    ASSUME FileTypeOK, NEW ev \in Events, NEW n \in Nat, NEW kind \in {"delete", "update"}, RewriteBegin(kind, ev, n)
    PROVE  RewriteOK'
  <1> DEFINE found == readAllLocked(file)
  <1>1. found \in Seq(Records) /\ Keys(found) = Names(file, Len(file))
    BY ReadAll DEF FileTypeOK
  <1>2. /\ op'.recs = IF kind = "delete" THEN Delete(found, ev) ELSE UpdateRetryCount(found, ev, n)
        /\ op'.kind = kind /\ op'.ev = ev /\ file' = file
    BY DEF RewriteBegin
  <1> HIDE DEF found
  <1>3. /\ op'.recs \in Seq(Records)
        /\ Keys(op'.recs) = Keys(found) \ (IF kind = "delete" THEN {ev} ELSE {})
    <2>1. /\ Delete(found, ev) \in Seq(Records) /\ Keys(Delete(found, ev)) = Keys(found) \ {ev}
          /\ UpdateRetryCount(found, ev, n) \in Seq(Records)
          /\ Keys(UpdateRetryCount(found, ev, n)) = Keys(found)
      BY <1>1, Rewritten, Zenon
    <2>2. CASE kind = "delete"
      BY <2>1, <2>2, <1>2
    <2>3. CASE kind = "update"
      BY <2>1, <2>3, <1>2
    <2> QED BY <2>2, <2>3
  <1>4. Keys(op.recs)' = Keys(op'.recs)
    BY DEF Keys
  <1> QED BY <1>1, <1>2, <1>3, <1>4 DEF RewriteOK

\* Every step keeps the types, what an operation is about to write, and what was
\* deleted out of the file.
LEMMA FileStep ==
    ASSUME FileOK, FileNext \/ UNCHANGED fileVars
    PROVE  FileOK'
  <1> USE DEF FileOK
  <1>1. CASE UNCHANGED fileVars
    <2>1. file' = file /\ open' = open /\ op' = op /\ failures' = failures /\ saved' = saved /\ deleted' = deleted
      BY <1>1 DEF fileVars
    <2>2. Names(file, Len(file))' = Names(file, Len(file))
      BY <2>1
    <2>3. RewriteOK'
      <3>1. Keys(op.recs)' = Keys(op.recs)
        BY <2>1 DEF Keys
      <3> QED BY <2>1, <2>2, <3>1 DEF RewriteOK
    <2> QED BY <2>1, <2>2, <2>3 DEF FileTypeOK, DeletedOK
  <1>2. ASSUME NEW ev \in Events, Writes(ev) PROVE FileOK'
    <2>1. PICK line \in {Line(ev, 0), BadLine(ev)} :
            /\ file' = AppendLine(line)
            /\ open' \in BOOLEAN
            /\ op' = Idle
            /\ deleted' = deleted \ {ev}
            /\ saved' = saved \cup {ev} \/ saved' = saved
            /\ failures' = failures \/ failures' = failures + 1
      BY <1>2 DEF Writes
    <2>2. line \in Lines /\ line.ev = ev
      BY LineTypes
    <2>3. /\ AppendLine(line) \in Seq(Lines) /\ AppendLine(line) # <<>>
          /\ Names(AppendLine(line), Len(AppendLine(line))) \subseteq Names(file, Len(file)) \cup {line.ev}
      BY <2>2, LineAdded DEF FileTypeOK
    <2>4. FileTypeOK'
      <3>1. file' \in Seq(Lines) /\ file' # <<>>
        BY <2>1, <2>3, Zenon
      <3>2. IsFiniteSet(saved')
        BY <2>1, FS_AddElement, Zenon DEF FileTypeOK
      <3>3. failures' \in Nat
        BY <2>1 DEF FileTypeOK
      <3>4. open' \in BOOLEAN
        BY <2>1
      <3> QED BY <3>1, <3>2, <3>3, <3>4, Zenon DEF FileTypeOK
    <2>5. Names(file, Len(file))' \subseteq Names(file, Len(file)) \cup {ev}
      BY <2>1, <2>2, <2>3, Zenon
    <2>6. DeletedOK'
      BY <2>1, <2>5 DEF DeletedOK
    <2>7. RewriteOK'
      BY <2>1 DEF RewriteOK
    <2> QED BY <2>4, <2>6, <2>7
  <1>3. ASSUME NEW ev \in Events, SaveFails(ev), ~Writes(ev) PROVE FileOK'
    <2>1. UNCHANGED <<file, open, op, saved>> /\ failures' = failures + 1 /\ deleted' = deleted \ {ev}
      BY <1>3, SaveWrites
    <2>2. Names(file, Len(file))' = Names(file, Len(file))
      BY <2>1
    <2>3. RewriteOK'
      <3>1. Keys(op.recs)' = Keys(op.recs)
        BY <2>1 DEF Keys
      <3> QED BY <2>1, <2>2, <3>1, Zenon DEF RewriteOK
    <2>4. DeletedOK'
      BY <2>1, <2>2 DEF DeletedOK
    <2>5. FileTypeOK'
      BY <2>1 DEF FileTypeOK
    <2> QED BY <2>3, <2>4, <2>5
  <1>4. ASSUME NEW ev \in Events, NEW kind \in {"delete", "update"}, NEW n \in Nat, RewriteBegin(kind, ev, n)
        PROVE  FileOK'
    <2>1. RewriteOK'
      BY <1>4, BeginOK
    <2>2. UNCHANGED <<file, open, failures, saved, deleted>>
      BY <1>4 DEF RewriteBegin
    <2> QED BY <2>1, <2>2 DEF FileTypeOK, DeletedOK, Names, JSON
  <1>5. CASE RewriteRename
    <2>1. op # Idle /\ open' = FALSE /\ failures' = failures /\ op' = Idle
          /\ saved' = (IF op.kind = "delete" THEN saved \ {op.ev} ELSE saved)
          /\ deleted' = (IF op.kind = "delete" THEN deleted \cup {op.ev} ELSE deleted)
      BY <1>5 DEF RewriteRename
    <2>2. /\ file' \in Seq(Lines)
          /\ Names(file', Len(file')) \subseteq Keys(op.recs)
      BY <1>5, <2>1, Renamed
    <2>3. Names(file, Len(file))' \subseteq Names(file, Len(file)) \ (IF op.kind = "delete" THEN {op.ev} ELSE {})
      BY <2>1, <2>2 DEF RewriteOK
    <2>4. IsFiniteSet(saved')
      BY <2>1, FS_Subset DEF FileTypeOK
    <2> QED BY <2>1, <2>2, <2>3, <2>4 DEF FileTypeOK, RewriteOK, DeletedOK
  <1>6. CASE RewriteFails
    BY <1>6 DEF RewriteFails, FileTypeOK, RewriteOK, DeletedOK, Names, JSON
  <1> QED BY <1>1, <1>2, <1>3, <1>4, <1>5, <1>6, SaveWrites DEF FileNext

LEMMA FileStart == FileInit => FileOK
  <1> SUFFICES ASSUME FileInit PROVE FileOK
    OBVIOUS
  <1>1. file = <<>> /\ open = FALSE /\ op = Idle /\ failures = 0 /\ saved = {} /\ deleted = {}
    BY DEF FileInit
  <1>2. file \in Seq(Lines) /\ IsFiniteSet(saved)
    BY <1>1, FS_EmptySet
  <1> QED BY <1>1, <1>2 DEF FileOK, FileTypeOK, RewriteOK, DeletedOK

LEMMA FileHolds == FileSpec => []FileOK
  <1>1. FileOK /\ [FileNext]_fileVars => FileOK'
    BY FileStep
  <1> QED BY <1>1, FileStart, PTL DEF FileSpec

\* After Delete returned nil no record of the event is left in the file, whatever
\* lines it has and whatever fails or crashes: DeletedStaysDeleted. (Delete,
\* rewriteFileLocked.)
THEOREM DeletedIsGone == FileSpec => []DeletedStaysDeleted
  <1>1. FileOK => DeletedStaysDeleted
    BY Found DEF FileOK, FileTypeOK, DeletedOK, DeletedStaysDeleted
  <1> QED BY <1>1, FileHolds, PTL

\* With lines that fit the scanner, an operation that fails raises what is unsafe
\* by at most one, and no other does.
LEMMA LossStep ==
    ASSUME Long = {}, FileOK, FileOK', LossOK, FileNext \/ UNCHANGED fileVars
    PROVE  LossOK'
  <1> DEFINE n == Cardinality(Unsafe)
  <1>0. IsFiniteSet(Unsafe) /\ n \in Nat /\ failures \in Nat
    BY FS_Subset, FS_CardinalityType DEF FileOK, FileTypeOK, Unsafe
  <1>1. CASE UNCHANGED fileVars
    <2>1. /\ Scannable(file)' <=> Scannable(file)
          /\ Unsafe' = Unsafe /\ Pledge' = Pledge /\ failures' = failures
      BY <1>1 DEF fileVars, Scannable, Unsafe, Pledge, Names, JSON, Finished
    <2> QED BY <2>1 DEF LossOK
  <1>2. ASSUME NEW ev \in Events, Writes(ev) PROVE LossOK'
    <2>1. PICK line \in {Line(ev, 0), BadLine(ev)} :
            /\ file' = AppendLine(line)
            /\ open' \in BOOLEAN
            /\ \/ open' = FALSE /\ saved' = saved \cup {ev} /\ failures' = failures /\ line = Line(ev, 0)
               \/ saved' = saved /\ failures' = failures + 1
      BY <1>2 DEF Writes
    <2>2. line \in Lines /\ line.ev = ev /\ line.kind # "long" /\ Line(ev, 0).kind = "json"
      BY LineTypes
    <2>3. /\ Names(file, Finished) \subseteq Names(file', Len(file') - 1)
          /\ ~open /\ line.kind = "json" => line.ev \in Names(file', Len(file'))
          /\ Scannable(file')
      BY <2>1, <2>2, LineAdded DEF FileOK, FileTypeOK, LossOK
    <2>4. Names(file', Len(file') - 1) \subseteq Names(file', Finished')
      <3>1. Len(file') \in Nat /\ Finished' \in {Len(file') - 1, Len(file')}
        BY DEF FileOK, FileTypeOK, Finished
      <3>2. \A i \in DOMAIN file' : i <= Len(file') - 1 => i <= Finished'
        BY <3>1 DEF FileOK, FileTypeOK
      <3> QED BY <3>2 DEF Names, JSON
    <2>5. CASE saved' = saved /\ failures' = failures + 1
      <3>1. Unsafe' \in SUBSET Unsafe
        BY <2>3, <2>4, <2>5 DEF Unsafe
      <3>2. Cardinality(Unsafe') <= n /\ Cardinality(Unsafe') \in Nat
        BY <3>1, <1>0, FS_Subset, FS_CardinalityType
      <3>3. Pledge \in {0, 1} /\ Pledge' \in {0, 1}
        BY DEF Pledge
      <3> HIDE DEF n
      <3> QED BY <3>2, <3>3, <2>3, <2>5, <1>0 DEF LossOK, n
    <2>6. CASE open' = FALSE /\ saved' = saved \cup {ev} /\ failures' = failures /\ line = Line(ev, 0)
      <3>1. Finished' = Len(file') /\ Pledge' = 0
        BY <2>6 DEF Finished, Pledge
      <3>2. CASE open
        <4>1. Unsafe' \in SUBSET (Unsafe \cup {ev})
          BY <2>3, <2>4, <2>6 DEF Unsafe
        <4>2. IsFiniteSet(Unsafe \cup {ev}) /\ Cardinality(Unsafe \cup {ev}) <= n + 1
          <5>1. IsFiniteSet(Unsafe) /\ n \in Nat /\ n = Cardinality(Unsafe)
            BY <1>0
          <5>2. IsFiniteSet(Unsafe \cup {ev}) /\ Cardinality(Unsafe \cup {ev}) \in {n, n + 1}
            <6> HIDE DEF n
            <6> QED BY <5>1, FS_AddElement, Zenon
          <5> HIDE DEF n
          <5> QED BY <5>1, <5>2
        <4>3. Cardinality(Unsafe') <= Cardinality(Unsafe \cup {ev})
          BY <4>1, <4>2, FS_Subset
        <4>4. Cardinality(Unsafe') \in Nat /\ Cardinality(Unsafe \cup {ev}) \in Nat
          BY <4>1, <4>2, FS_Subset, FS_CardinalityType
        <4>5. Pledge = 1
          BY <3>2 DEF Pledge
        <4> HIDE DEF n
        <4> QED BY <4>2, <4>3, <4>4, <4>5, <3>1, <2>3, <2>6, <1>0 DEF LossOK, n
      <3>3. CASE ~open
        <4>1. Unsafe' \in SUBSET Unsafe
          BY <2>2, <2>3, <2>4, <2>6, <3>1, <3>3 DEF Unsafe
        <4>2. Cardinality(Unsafe') <= n /\ Cardinality(Unsafe') \in Nat
          BY <4>1, <1>0, FS_Subset, FS_CardinalityType
        <4>3. Pledge = 0
          BY <3>3 DEF Pledge
        <4> HIDE DEF n
        <4> QED BY <4>2, <4>3, <3>1, <2>3, <2>6, <1>0 DEF LossOK, n
      <3> QED BY <3>2, <3>3
    <2> QED BY <2>1, <2>5, <2>6
  <1>3. ASSUME NEW ev \in Events, SaveFails(ev), ~Writes(ev) PROVE LossOK'
    <2>1. UNCHANGED <<file, open, op, saved>> /\ failures' = failures + 1
      BY <1>3, SaveWrites
    <2>2. /\ Scannable(file)' <=> Scannable(file)
          /\ Unsafe' = Unsafe /\ Pledge' = Pledge
      BY <2>1 DEF Scannable, Unsafe, Pledge, Names, JSON, Finished
    <2>3. Pledge \in {0, 1}
      BY DEF Pledge
    <2> HIDE DEF n
    <2> QED BY <2>1, <2>2, <2>3, <1>0 DEF LossOK, n
  <1>4. CASE RewriteFails \/ \E ev \in Events : RewriteBegin("delete", ev, 0) \/ RewriteBegin("update", ev, 1)
    <2>1. UNCHANGED <<file, open, failures, saved>>
      BY <1>4 DEF RewriteFails, RewriteBegin
    <2>2. /\ Scannable(file)' <=> Scannable(file)
          /\ Unsafe' = Unsafe /\ Pledge' = Pledge /\ failures' = failures
      BY <2>1 DEF Scannable, Unsafe, Pledge, Names, JSON, Finished
    <2> QED BY <2>2 DEF LossOK
  <1>5. CASE RewriteRename
    <2>1. op # Idle /\ open' = FALSE /\ failures' = failures
          /\ saved' = (IF op.kind = "delete" THEN saved \ {op.ev} ELSE saved)
      BY <1>5 DEF RewriteRename
    <2>2. Scannable(file') /\ Keys(op.recs) \subseteq Names(file', Len(file'))
      BY <1>5, <2>1, Renamed DEF FileOK
    <2>3. Finished' = Len(file') /\ Pledge' = 0
      BY <2>1 DEF Finished, Pledge
    <2>4. Names(file, Finished) \subseteq Names(file, Len(file))
      BY FewerNames DEF FileOK
    <2>5. Unsafe' \in SUBSET Unsafe
      BY <2>1, <2>2, <2>3, <2>4 DEF Unsafe, FileOK, RewriteOK
    <2>6. Cardinality(Unsafe') <= n /\ Cardinality(Unsafe') \in Nat
      BY <2>5, <1>0, FS_Subset, FS_CardinalityType
    <2>7. Pledge \in {0, 1}
      BY DEF Pledge
    <2> HIDE DEF n
    <2> QED BY <2>1, <2>2, <2>3, <2>6, <2>7, <1>0 DEF LossOK, n
  <1> QED BY <1>1, <1>2, <1>3, <1>4, <1>5, SaveWrites DEF FileNext

\* A Save that fails or is interrupted spoils at most one record that another Save
\* reported as stored, and a rewrite none: LossBoundedByFailures, when every line
\* fits the scanner. (Save, rewriteFileLocked.)
THEOREM LossIsBounded ==
    ASSUME Long = {}
    PROVE  FileSpec => []LossBoundedByFailures
  <1>1. FileInit => LossOK
    <2> SUFFICES ASSUME FileInit PROVE LossOK
      OBVIOUS
    <2>1. file = <<>> /\ open = FALSE /\ failures = 0 /\ saved = {}
      BY DEF FileInit
    <2>2. Unsafe = {} /\ Pledge = 0 /\ Scannable(file)
      BY <2>1 DEF Unsafe, Pledge, Scannable
    <2> QED BY <2>1, <2>2, FS_EmptySet DEF LossOK
  <1>2. LossOK /\ FileOK /\ FileOK' /\ [FileNext]_fileVars => LossOK'
    BY LossStep
  <1>3. FileOK /\ LossOK => LossBoundedByFailures
    <2> SUFFICES ASSUME FileOK, LossOK PROVE LossBoundedByFailures
      OBVIOUS
    <2> DEFINE Gone == {ev \in saved : GetResult(ev) # "found"}
    <2>1. Gone \in SUBSET Unsafe
      BY Found, FewerNames DEF FileOK, FileTypeOK, LossOK, Unsafe
    <2>2. IsFiniteSet(Unsafe)
      BY FS_Subset DEF FileOK, FileTypeOK, Unsafe
    <2>3. Cardinality(Gone) <= Cardinality(Unsafe) /\ Cardinality(Gone) \in Nat /\ Cardinality(Unsafe) \in Nat
      BY <2>1, <2>2, FS_Subset, FS_CardinalityType
    <2>4. Pledge \in {0, 1} /\ failures \in Nat
      BY DEF Pledge, FileOK, FileTypeOK
    <2>5. Cardinality(Unsafe) + Pledge <= failures
      BY DEF LossOK
    <2> HIDE DEF Gone
    <2>6. Cardinality(Gone) <= failures
      BY <2>3, <2>4, <2>5
    <2> QED BY <2>6 DEF LossBoundedByFailures, Gone
  <1> QED BY <1>1, <1>2, <1>3, FileHolds, PTL DEF FileSpec

-------------------------------------------------------------------------------
(* The failed-event file: ListRecent *)

\* A set of places has a first and a last one.
LEMMA Ends ==
    ASSUME NEW S \in SUBSET Nat, IsFiniteSet(S), S # {}
    PROVE  /\ \E i \in S : \A j \in S : i <= j
           /\ \E i \in S : \A j \in S : j <= i
  <1> DEFINE n == Cardinality(S)
  <1>1. /\ n \in Nat /\ \A k \in 1..n : Nth(S, k) \in S
        /\ \A i \in S : \E k \in 1..n : Nth(S, k) = i
        /\ \A k, l \in 1..n : k < l <=> Nth(S, k) < Nth(S, l)
    BY NthOf
  <1> HIDE DEF n
  <1>2. 1 \in 1..n /\ n \in 1..n
    <2>1. PICK i \in S : TRUE
      OBVIOUS
    <2>2. PICK k \in 1..n : Nth(S, k) = i
      BY <1>1
    <2> QED BY <1>1, <2>2
  <1>3. \A k, l \in 1..n : k <= l => Nth(S, k) <= Nth(S, l)
    <2> SUFFICES ASSUME NEW k \in 1..n, NEW l \in 1..n, k <= l PROVE Nth(S, k) <= Nth(S, l)
      OBVIOUS
    <2>1. k = l \/ k < l
      BY <1>1
    <2>2. Nth(S, k) \in Nat /\ Nth(S, l) \in Nat
      BY <1>1
    <2> QED BY <1>1, <2>1, <2>2
  <1>4. \A k \in 1..n : 1 <= k /\ k <= n
    BY <1>1
  <1>5. ASSUME NEW j \in S PROVE Nth(S, 1) <= j /\ j <= Nth(S, n)
    <2>1. PICK k \in 1..n : Nth(S, k) = j
      BY <1>1
    <2> QED BY <2>1, <1>2, <1>3, <1>4
  <1> QED BY <1>1, <1>2, <1>5

\* The first and the last record of an event.
LEMMA FirstAndLast ==
    ASSUME NEW s \in Seq(Records), NEW ev \in Keys(s)
    PROVE  /\ FirstOf(s, ev) \in DOMAIN s /\ s[FirstOf(s, ev)].ev = ev
           /\ LastOf(s, ev) \in DOMAIN s /\ s[LastOf(s, ev)].ev = ev
           /\ \A i \in DOMAIN s : s[i].ev = ev => FirstOf(s, ev) <= i /\ i <= LastOf(s, ev)
  <1> DEFINE S == Places(s, ev)
  <1>1. DOMAIN s = 1..Len(s) /\ Len(s) \in Nat
    OBVIOUS
  <1>2. \A i : i \in S <=> i \in DOMAIN s /\ s[i].ev = ev
    BY DEF Places
  <1>3. IsFiniteSet(DOMAIN s) /\ DOMAIN s \in SUBSET Nat
    <2>1. \A m \in Nat : IsFiniteSet(1..m)
      BY FS_Interval
    <2> QED BY <1>1, <2>1
  <1>4. S # {}
    BY <1>2 DEF Keys
  <1>5. S \in SUBSET Nat /\ IsFiniteSet(S)
    BY <1>2, <1>3, FS_Subset
  <1>6. /\ \E i \in S : \A j \in S : i <= j
        /\ \E i \in S : \A j \in S : j <= i
    BY <1>4, <1>5, Ends
  <1>7. FirstOf(s, ev) \in S /\ \A j \in S : FirstOf(s, ev) <= j
    BY <1>6, Zenon DEF FirstOf
  <1>8. LastOf(s, ev) \in S /\ \A j \in S : j <= LastOf(s, ev)
    BY <1>6, Zenon DEF LastOf
  <1> QED BY <1>2, <1>7, <1>8

\* Every event of s is in list once, with its last record.
OnceEach(s, list) ==
    /\ \A k, l \in DOMAIN list : k # l => list[k].ev # list[l].ev
    /\ \A k \in DOMAIN list : list[k].ev \in Keys(s) /\ list[k] = s[LastOf(s, list[k].ev)]
    /\ \A ev \in Keys(s) : \E k \in DOMAIN list : list[k].ev = ev

\* What deduplicateEvents returns.
LEMMA Deduplicated ==
    ASSUME NEW s \in Seq(Records), NEW list, list = deduplicateNewestFirst(s)
    PROVE  OnceEach(s, list) /\ list \in Seq(Records)
  <1> DEFINE F == Firsts(s)
             m == Cardinality(F)
             place(k) == Nth(F, m + 1 - k)
  <1>1. DOMAIN s = 1..Len(s) /\ Len(s) \in Nat
    OBVIOUS
  <1>2. F \in SUBSET Nat /\ IsFiniteSet(F)
    <2>1. \A n \in Nat : IsFiniteSet(1..n)
      BY FS_Interval
    <2>2. IsFiniteSet(DOMAIN s) /\ DOMAIN s \in SUBSET Nat
      BY <1>1, <2>1
    <2> QED BY <2>2, FS_Subset DEF Firsts
  <1>3. \A i : i \in F <=> i \in DOMAIN s /\ FirstOf(s, s[i].ev) = i
    BY DEF Firsts
  <1>4. /\ m \in Nat /\ \A k \in 1..m : Nth(F, k) \in F
        /\ \A i \in F : \E k \in 1..m : Nth(F, k) = i
        /\ \A k, l \in 1..m : k < l <=> Nth(F, k) < Nth(F, l)
    BY <1>2, NthOf
  <1>5. list = [k \in 1..m |-> s[LastOf(s, s[place(k)].ev)]]
    BY DEF deduplicateNewestFirst
  <1> HIDE DEF F, m
  <1>6. DOMAIN list = 1..m /\ \A k \in 1..m : list[k] = s[LastOf(s, s[place(k)].ev)]
    BY <1>5
  <1>7. \A k \in 1..m : m + 1 - k \in 1..m /\ m + 1 - (m + 1 - k) = k
    BY <1>4
  <1>8. \A k \in 1..m : place(k) \in F
    BY <1>4, <1>7
  <1>9. ASSUME NEW k \in 1..m
        PROVE  list[k].ev = s[place(k)].ev /\ list[k].ev \in Keys(s) /\ list[k] = s[LastOf(s, list[k].ev)]
    <2>1. place(k) \in DOMAIN s
      BY <1>3, <1>8
    <2> DEFINE ev == s[place(k)].ev
    <2>2. ev \in Keys(s)
      BY <2>1, Zenon DEF Keys
    <2>3. s[LastOf(s, ev)].ev = ev
      BY <2>2, FirstAndLast
    <2> QED BY <2>2, <2>3, <1>6
  <1>10. ASSUME NEW k \in 1..m, NEW l \in 1..m, list[k].ev = list[l].ev PROVE k = l
    <2>1. place(k) = place(l)
      BY <1>3, <1>8, <1>9, <1>10
    <2>2. m + 1 - k \in 1..m /\ m + 1 - l \in 1..m
      BY <1>7
    <2>3. ~(m + 1 - k < m + 1 - l) /\ ~(m + 1 - l < m + 1 - k)
      <3>1. \A n \in Nat : ~(n < n)
        OBVIOUS
      <3> QED BY <2>1, <2>2, <3>1, <1>2, <1>4, <1>8
    <2> QED BY <2>3, <1>4
  <1>11. ASSUME NEW ev \in Keys(s) PROVE \E k \in 1..m : list[k].ev = ev
    <2>1. FirstOf(s, ev) \in DOMAIN s /\ s[FirstOf(s, ev)].ev = ev
      BY FirstAndLast
    <2>2. FirstOf(s, ev) \in F
      BY <2>1, <1>3
    <2>3. PICK j \in 1..m : Nth(F, j) = FirstOf(s, ev)
      BY <2>2, <1>4
    <2>4. m + 1 - j \in 1..m /\ place(m + 1 - j) = FirstOf(s, ev)
      BY <2>3, <1>7
    <2>5. list[m + 1 - j].ev = ev
      BY <2>1, <2>4, <1>9
    <2> QED BY <2>4, <2>5
  <1>12. list \in Seq(Records)
    <2>1. \A k \in 1..m : list[k] \in Records
      <3>1. ASSUME NEW k \in 1..m PROVE list[k] \in Records
        <4>1. LastOf(s, list[k].ev) \in DOMAIN s /\ list[k] = s[LastOf(s, list[k].ev)]
          BY <1>9, FirstAndLast
        <4> QED BY <4>1
      <3> QED BY <3>1
    <2>2. list \in [1..m -> Records]
      BY <1>5, <1>6, <2>1
    <2> QED BY <2>2, <1>4
  <1> QED BY <1>6, <1>9, <1>10, <1>11, <1>12 DEF OnceEach

\* No event has two records.
Distinct(s) == \A i, j \in DOMAIN s : s[i].ev = s[j].ev => i = j

\* The last records of a list keep their order; the last record of an event is
\* among them or none of the event is.
LEMMA Latest ==
    ASSUME NEW s \in Seq(Records), NEW limit \in Nat, NEW last, last = LastRecords(s, limit)
    PROVE  /\ last \in Seq(Records)
           /\ Keys(last) = {s[i].ev : i \in {j \in DOMAIN s : j > Len(s) - limit}}
           /\ \A ev \in Keys(last) : last[LastOf(last, ev)] = s[LastOf(s, ev)]
           /\ Distinct(s) => Distinct(last)
           /\ s # <<>> /\ limit # 0 => last # <<>>
  <1> DEFINE n == Len(s)
             from == IF n > limit THEN n - limit + 1 ELSE 1
  <1>1. n \in Nat /\ DOMAIN s = 1..n /\ from \in 1..(n + 1) /\ (n > limit => from = n - limit + 1) /\ (n <= limit => from = 1)
    OBVIOUS
  <1>2. last = SubSeq(s, from, n)
    BY DEF LastRecords
  <1> HIDE DEF n, from
  <1>3. /\ last \in Seq(Records) /\ Len(last) = n - from + 1 /\ DOMAIN last = 1..(n - from + 1)
        /\ \A i \in 1..(n - from + 1) : last[i] = s[i + from - 1]
    BY <1>1, <1>2 DEF n
  <1>4. /\ \A i \in 1..n : i >= from => i - from + 1 \in DOMAIN last /\ last[i - from + 1] = s[i]
        /\ \A i \in DOMAIN last : i + from - 1 \in 1..n /\ i + from - 1 >= from /\ last[i] = s[i + from - 1]
    <2>1. \A i \in 1..n : i >= from => i - from + 1 \in 1..(n - from + 1) /\ (i - from + 1) + from - 1 = i
      BY <1>1
    <2>2. \A i \in 1..(n - from + 1) : i + from - 1 \in 1..n /\ i + from - 1 >= from
      BY <1>1
    <2> QED BY <1>3, <2>1, <2>2
  <1>5. \A i \in 1..n : i >= from <=> i > n - limit
    BY <1>1
  <1>6. Keys(last) = {s[i].ev : i \in {j \in DOMAIN s : j > n - limit}}
    BY <1>1, <1>4, <1>5 DEF Keys
  <1>7. ASSUME NEW ev \in Keys(last) PROVE last[LastOf(last, ev)] = s[LastOf(s, ev)]
    <2> DEFINE a == LastOf(last, ev)
               b == LastOf(s, ev)
    <2>1. a \in DOMAIN last /\ last[a].ev = ev /\ \A i \in DOMAIN last : last[i].ev = ev => i <= a
      BY <1>3, FirstAndLast
    <2>2. ev \in Keys(s)
      BY <1>1, <1>6 DEF Keys
    <2>3. b \in DOMAIN s /\ s[b].ev = ev /\ \A i \in DOMAIN s : s[i].ev = ev => i <= b
      BY <2>2, FirstAndLast
    <2> HIDE DEF a, b
    <2>4. a + from - 1 \in 1..n /\ a + from - 1 >= from /\ s[a + from - 1].ev = ev /\ last[a] = s[a + from - 1]
      BY <1>4, <2>1
    <2>5. a + from - 1 <= b
      BY <1>1, <2>3, <2>4
    <2>6. b >= from
      BY <1>1, <2>3, <2>4, <2>5
    <2>7. b - from + 1 \in DOMAIN last /\ last[b - from + 1] = s[b]
      BY <1>1, <1>4, <2>3, <2>6
    <2>8. b - from + 1 <= a
      BY <2>1, <2>3, <2>7
    <2>9. b = a + from - 1
      <3>1. a \in Int /\ b \in Int /\ from \in Int
        BY <1>1, <1>3, <2>1, <2>3
      <3>2. \A x, y, z \in Int : y - z + 1 <= x /\ x + z - 1 <= y => y = x + z - 1
        OBVIOUS
      <3> QED BY <3>1, <3>2, <2>5, <2>8
    <2> QED BY <2>4, <2>9 DEF a, b
  <1>8. ASSUME Distinct(s), NEW i \in DOMAIN last, NEW j \in DOMAIN last, last[i].ev = last[j].ev PROVE i = j
    <2>1. i + from - 1 \in DOMAIN s /\ j + from - 1 \in DOMAIN s /\ s[i + from - 1].ev = s[j + from - 1].ev
      BY <1>1, <1>4, <1>8
    <2>2. i + from - 1 = j + from - 1
      BY <2>1, <1>8 DEF Distinct
    <2> QED BY <2>2, <1>1, <1>3
  <1>9. s # <<>> /\ limit # 0 => n - from + 1 # 0
    <2>1. s # <<>> => n # 0
      BY DEF n
    <2> QED BY <2>1, <1>1
  <1>10. s # <<>> /\ limit # 0 => last # <<>>
    BY <1>3, <1>9
  <1> QED BY <1>3, <1>6, <1>7, <1>8, <1>10 DEF n, Distinct

\* ListRecent gives every event of the last Limit records once, with the newest of
\* all its records: ListsNewestOnce. (ListRecent, deduplicateEvents.)
THEOREM ListingIsExact ==
    ASSUME Backend = "file"
    PROVE  FileSpec => []ListsNewestOnce
  <1>1. ASSUME FileOK PROVE ListsNewestOnce
    <2> DEFINE found == readAllLocked(file)
               last == LastRecords(found, Limit)
               list == ListRecent(found, Limit)
    <2>1. found \in Seq(Records) /\ Limit \in Nat
      BY <1>1, ReadAll, FileAssumption DEF FileOK, FileTypeOK
    <2>2. list = deduplicateNewestFirst(last)
      BY DEF ListRecent, ListRecentFile
    <2> HIDE DEF found, list
    <2>0. last = LastRecords(found, Limit)
      OBVIOUS
    <2> HIDE DEF last
    <2>3. /\ last \in Seq(Records)
          /\ Keys(last) = {found[i].ev : i \in {j \in DOMAIN found : j > Len(found) - Limit}}
          /\ \A ev \in Keys(last) : last[LastOf(last, ev)] = found[LastOf(found, ev)]
      BY <2>0, <2>1, Latest
    <2>4. OnceEach(last, list)
      BY <2>2, <2>3, Deduplicated, Zenon
    <2>5. {list[i].ev : i \in DOMAIN list} = Keys(last)
      BY <2>4 DEF OnceEach
    <2>6. \A i \in DOMAIN list : list[i] = found[LastOf(found, list[i].ev)]
      BY <2>3, <2>4 DEF OnceEach
    <2>7. \A i, j \in DOMAIN list : i # j => list[i].ev # list[j].ev
      BY <2>4 DEF OnceEach
    <2> QED BY <2>3, <2>5, <2>6, <2>7, Zenon DEF ListsNewestOnce, found, list
  <1> QED BY <1>1, FileHolds, PTL
-------------------------------------------------------------------------------
(* The types of the pipeline, and what a pass of the scheduler works on. *)

Passes == [pc : {"visit", "delete", "update"}, todo : Seq(Records) \ {<<>>}]

PipelineTypes ==
    /\ seen \subseteq Events /\ stale \subseteq seen
    /\ req \in [Requests -> InHandler \cup {"new", "202", "5xx"}]
    /\ queue \in Seq(Events) /\ Len(queue) <= Buffer
    /\ worker \in [Workers -> {Free} \cup [pc : {"publish", "dlqForget", "dlqSave"}, ev : Events]]
    /\ recs \in Seq(Records)
    /\ sched \in {Resting} \cup Passes
    /\ acked \subseteq Events /\ delivered \subseteq Events
    /\ attempts \in [Events -> 0..MaxAttempts]

\* A row of the table per event; the events of a pass that are still to be visited
\* have a record each and are different.
Stored(s, todo) == /\ \A i \in DOMAIN todo : Has(s, todo[i].ev)
                   /\ Distinct(todo)

Listed == /\ Backend = "postgres" => Distinct(recs)
          /\ Stored(recs, sched.todo)

\* Records as the types have them.
LEMMA TypedRecords ==
    ASSUME NEW s \in Seq(Records)
    PROVE  Recorded(s) /\ \A ev : Has(s, ev) <=> ev \in Keys(s)
  <1>1. IsSeq(s)
    BY OwnElems
  <1>2. \A r \in Records : r = Rec(r.ev, r.retries)
    BY DEF Records, Rec
  <1>3. \A i \in DOMAIN s : s[i] \in Records
    OBVIOUS
  <1> QED BY <1>1, <1>2, <1>3, Zenon DEF Recorded, Has, Keys

\* A record at the end.
LEMMA AppendRow ==
    ASSUME NEW s \in Seq(Records), NEW r \in Records
    PROVE  /\ Append(s, r) \in Seq(Records)
           /\ Distinct(s) /\ ~Has(s, r.ev) => Distinct(Append(s, r))
  <1>1. /\ Append(s, r) \in Seq(Records) /\ DOMAIN s = 1..Len(s) /\ Len(s) \in Nat
        /\ DOMAIN Append(s, r) = 1..(Len(s) + 1) /\ Append(s, r)[Len(s) + 1] = r
        /\ \A i \in 1..Len(s) : Append(s, r)[i] = s[i]
    OBVIOUS
  <1>2. \A i \in DOMAIN Append(s, r) : i = Len(s) + 1 \/ i \in DOMAIN s
    BY <1>1
  <1> QED BY <1>1, <1>2 DEF Distinct, Has

\* Delete leaves different records.
LEMMA WithoutRow ==
    ASSUME NEW s \in Seq(Records), NEW e
    PROVE  /\ Without(s, e) \in Seq(Records) /\ ~Has(Without(s, e), e)
           /\ Distinct(s) => Distinct(Without(s, e))
  <1> DEFINE S == DOMAIN s \ Places(s, e)
             t == Without(s, e)
  <1>1. S \in SUBSET DOMAIN s /\ t = Picked(s, S)
    BY DEF Without
  <1> HIDE DEF S, t
  <1>2. /\ IsFiniteSet(S) /\ S \in SUBSET Nat
        /\ t \in Seq(Records) /\ Len(t) = Cardinality(S)
        /\ \A k \in DOMAIN t : Nth(S, k) \in S /\ t[k] = s[Nth(S, k)]
    BY <1>1, PickedElems
  <1>3. ASSUME Distinct(s), NEW k \in DOMAIN t, NEW l \in DOMAIN t, t[k].ev = t[l].ev PROVE k = l
    <2>1. Nth(S, k) = Nth(S, l)
      BY <1>1, <1>2, <1>3 DEF Distinct
    <2>2. \A i, j \in 1..Cardinality(S) : i < j <=> Nth(S, i) < Nth(S, j)
      BY <1>2, NthOf
    <2>3. /\ k \in 1..Cardinality(S) /\ l \in 1..Cardinality(S) /\ Cardinality(S) \in Nat
          /\ Nth(S, k) \in Nat
      <3>1. DOMAIN t = 1..Cardinality(S) /\ Cardinality(S) \in Nat
        BY <1>2
      <3>2. Nth(S, k) \in S
        BY <1>2
      <3> QED BY <3>1, <3>2, <1>2
    <2>4. ~(k < l) /\ ~(l < k)
      BY <2>1, <2>2, <2>3
    <2> QED BY <2>3, <2>4
  <1>4. Recorded(s) /\ ~Has(t, e)
    BY TypedRecords, WithoutRecords DEF t
  <1> QED BY <1>2, <1>3, <1>4 DEF Distinct, t

\* Save adds a row, or moves the one the event has.
LEMMA SaveRow ==
    ASSUME NEW s \in Seq(Records), NEW e \in Events
    PROVE  /\ Save(s, e) \in Seq(Records)
           /\ Backend = "postgres" /\ Distinct(s) => Distinct(Save(s, e))
  <1>1. \A n \in Nat : Rec(e, n) \in Records /\ Rec(e, n).ev = e
    BY DEF Rec, Records
  <1>2. CASE Save(s, e) = Append(s, Rec(e, 0)) /\ (Backend = "postgres" => ~Has(s, e))
    <2>1. Rec(e, 0) \in Records /\ Rec(e, 0).ev = e
      BY <1>1
    <2> QED BY <1>2, <2>1, AppendRow
  <1>3. CASE Has(s, e) /\ Save(s, e) = Append(Without(s, e), Rec(e, s[FirstOf(s, e)].retries + 1))
    <2>1. e \in Keys(s)
      BY <1>3, TypedRecords
    <2>2. FirstOf(s, e) \in DOMAIN s
      BY <2>1, FirstAndLast
    <2>3. s[FirstOf(s, e)].retries + 1 \in Nat
      <3>1. s[FirstOf(s, e)] \in Records
        BY <2>2
      <3>2. \A r \in Records : r.retries + 1 \in Nat
        BY DEF Records
      <3> QED BY <3>1, <3>2
    <2>4. PICK n \in Nat : n = s[FirstOf(s, e)].retries + 1
      BY <2>3
    <2>5. PICK t : t = Without(s, e)
      OBVIOUS
    <2>6. t \in Seq(Records) /\ ~Has(t, e) /\ (Distinct(s) => Distinct(t))
      BY <2>5, WithoutRow
    <2>7. Rec(e, n) \in Records /\ Rec(e, n).ev = e
      BY <1>1
    <2>8. Save(s, e) = Append(t, Rec(e, n))
      BY <1>3, <2>4, <2>5
    <2> QED BY <2>6, <2>7, <2>8, AppendRow
  <1> QED BY <1>2, <1>3, BackendAssumption DEF Save, SaveFile, SavePostgres

\* UpdateRetryCount changes no event.
LEMMA UpdateRow ==
    ASSUME NEW s \in Seq(Records), NEW e, NEW n \in Nat
    PROVE  /\ UpdateRetryCount(s, e, n) \in Seq(Records)
           /\ Distinct(s) => Distinct(UpdateRetryCount(s, e, n))
  <1> DEFINE t == UpdateRetryCount(s, e, n)
             first == FirstOf(s, e)
  <1>1. t \in Seq(Records)
    BY Rewritten
  <1>2. t = s \/ t = [s EXCEPT ![first].retries = n]
    BY DEF UpdateRetryCount
  <1> HIDE DEF t, first
  <1>3. DOMAIN t = DOMAIN s /\ \A i \in DOMAIN s : t[i] = s[i] \/ t[i] = [s[i] EXCEPT !.retries = n]
    BY <1>2
  <1>4. \A r \in Records : [r EXCEPT !.retries = n].ev = r.ev
    BY DEF Records
  <1>5. \A i \in DOMAIN s : s[i] \in Records
    OBVIOUS
  <1>6. \A i \in DOMAIN s : t[i].ev = s[i].ev
    BY <1>3, <1>4, <1>5
  <1> QED BY <1>1, <1>3, <1>6, Zenon DEF Distinct, t

\* ListRecent lists something, different events, and only what has a record.
LEMMA ListRows ==
    ASSUME NEW s \in Seq(Records), s # <<>>, NEW limit \in Nat \ {0},
           Backend = "postgres" => Distinct(s)
    PROVE  ListRecent(s, limit) \in Seq(Records) \ {<<>>} /\ Stored(s, ListRecent(s, limit))
  <1> DEFINE last == LastRecords(s, limit)
             list == ListRecent(s, limit)
             n == Len(last)
  <1>0. last = LastRecords(s, limit) /\ limit \in Nat /\ limit # 0
    OBVIOUS
  <1>1. list = IF Backend = "file" THEN deduplicateNewestFirst(last) ELSE [k \in 1..n |-> last[n + 1 - k]]
    BY DEF ListRecent, ListRecentFile, ListRecentPostgres
  <1> HIDE DEF last, list
  <1>2. /\ last \in Seq(Records) /\ last # <<>> /\ (Distinct(s) => Distinct(last))
        /\ Keys(last) = {s[i].ev : i \in {j \in DOMAIN s : j > Len(s) - limit}}
    BY <1>0, Latest
  <1>3. \A ev \in Keys(last) : Has(s, ev)
    BY <1>2 DEF Has
  <1>4. n \in Nat \ {0} /\ DOMAIN last = 1..n /\ 1 \in DOMAIN last
    BY <1>2
  <1> HIDE DEF n
  <1>5. CASE Backend = "file"
    <2>1. OnceEach(last, list) /\ list \in Seq(Records)
      BY <1>1, <1>2, <1>5, Deduplicated
    <2>2. last[1].ev \in Keys(last)
      BY <1>4, Zenon DEF Keys
    <2>3. \E k \in DOMAIN list : list[k].ev = last[1].ev
      BY <2>1, <2>2 DEF OnceEach
    <2>4. list # <<>>
      BY <2>3
    <2>5. Distinct(list) /\ \A k \in DOMAIN list : Has(s, list[k].ev)
      BY <2>1, <1>3 DEF OnceEach, Distinct
    <2> QED BY <2>1, <2>4, <2>5 DEF Stored, list
  <1>6. CASE Backend = "postgres"
    <2>1. list = [k \in 1..n |-> last[n + 1 - k]]
      BY <1>1, <1>6
    <2>2. \A k \in 1..n : n + 1 - k \in 1..n
      BY <1>4
    <2>3. DOMAIN list = 1..n /\ \A k \in 1..n : list[k] = last[n + 1 - k]
      BY <2>1
    <2>4. \A k \in 1..n : list[k] \in Records /\ list[k].ev \in Keys(last)
      <3>1. \A i \in 1..n : last[i] \in Records /\ last[i].ev \in Keys(last)
        BY <1>2, <1>4 DEF Keys
      <3> QED BY <2>2, <2>3, <3>1
    <2>5. list \in Seq(Records) /\ list # <<>>
      <3>1. list \in [1..n -> Records]
        BY <2>1, <2>3, <2>4, Zenon
      <3>2. list \in Seq(Records)
        <4>1. n \in Nat
          BY <1>4
        <4> QED BY <3>1, <4>1, SeqDef
      <3>3. 1 \in DOMAIN list
        BY <1>4, <2>3
      <3> QED BY <3>2, <3>3
    <2>6. ASSUME NEW k \in 1..n, NEW l \in 1..n, list[k].ev = list[l].ev PROVE k = l
      <3>1. \A i, j \in 1..n : last[i].ev = last[j].ev => i = j
        BY <1>2, <1>4, <1>6 DEF Distinct
      <3>2. n + 1 - k \in 1..n /\ n + 1 - l \in 1..n
        BY <2>2
      <3>3. last[n + 1 - k].ev = last[n + 1 - l].ev
        BY <2>3, <2>6
      <3>4. n + 1 - k = n + 1 - l
        BY <3>1, <3>2, <3>3
      <3>5. n \in Nat
        BY <1>4
      <3> QED BY <3>4, <3>5
    <2> QED BY <1>3, <2>3, <2>4, <2>5, <2>6 DEF Stored, Distinct, list
  <1> QED BY <1>5, <1>6, BackendAssumption

\* A handler's step.
LEMMA HandlerTypes ==
    ASSUME PipelineTypes, NEW r \in Requests, Handler(r)
    PROVE  PipelineTypes'
  <1>1. r[1] \in Events /\ req \in [Requests -> InHandler \cup {"new", "202", "5xx"}]
        /\ seen \subseteq Events /\ stale \subseteq seen /\ acked \subseteq Events
        /\ queue \in Seq(Events) /\ Len(queue) <= Buffer
    BY DEF PipelineTypes, Requests
  <1>2. UNCHANGED <<worker, sched, delivered, attempts>>
    BY DEF Handler, HandleSeen, HandleAccepted, HandleRefused, HandlePanics, HandleForget, HandlePersist
  <1>3. req' \in [Requests -> InHandler \cup {"new", "202", "5xx"}]
    BY <1>1 DEF Handler, HandleSeen, HandleAccepted, HandleRefused, HandlePanics, HandleForget, HandlePersist, InHandler
  <1>4. seen' \subseteq Events /\ stale' \subseteq seen' /\ acked' \subseteq Events
    <2>1. CASE HandleSeen(r)
      BY <1>1, <2>1 DEF HandleSeen
    <2>2. CASE HandleForget(r)
      BY <1>1, <2>2 DEF HandleForget, Forget
    <2>3. CASE HandleAccepted(r) \/ HandleRefused(r) \/ HandlePanics(r) \/ HandlePersist(r)
      BY <1>1, <2>3 DEF HandleAccepted, HandleRefused, HandlePanics, HandlePersist
    <2> QED BY <2>1, <2>2, <2>3 DEF Handler
  <1>5. queue' \in Seq(Events) /\ Len(queue') <= Buffer
    <2>1. CASE HandleAccepted(r)
      BY <1>1, <2>1, PipelineAssumption DEF HandleAccepted
    <2>2. CASE UNCHANGED queue
      BY <1>1, <2>2
    <2> QED BY <2>1, <2>2 DEF Handler, HandleSeen, HandleRefused, HandlePanics, HandleForget, HandlePersist
  <1>6. recs' \in Seq(Records)
    <2>0. recs \in Seq(Records)
      BY DEF PipelineTypes
    <2>1. CASE HandlePersist(r)
      <3>1. recs' = recs \/ recs' = Save(recs, r[1])
        BY <2>1 DEF HandlePersist, SaveOutcomes
      <3> QED BY <1>1, <2>0, <3>1, SaveRow
    <2>2. CASE UNCHANGED recs
      BY <2>0, <2>2
    <2> QED BY <2>1, <2>2 DEF Handler, HandleSeen, HandleAccepted, HandleRefused, HandlePanics, HandleForget
  <1> QED BY <1>2, <1>3, <1>4, <1>5, <1>6 DEF PipelineTypes

\* A worker's step.
LEMMA WorkerTypes ==
    ASSUME PipelineTypes, NEW w \in Workers, Worker(w)
    PROVE  PipelineTypes'
  <1> DEFINE At == [pc : {"publish", "dlqForget", "dlqSave"}, ev : Events]
  <1>1. /\ worker \in [Workers -> {Free} \cup At] /\ queue \in Seq(Events) /\ Len(queue) <= Buffer
        /\ seen \subseteq Events /\ stale \subseteq seen /\ delivered \subseteq Events
    BY DEF PipelineTypes
  <1>2. UNCHANGED <<req, sched, acked, attempts>>
    BY DEF Worker, Receive, PublishOK, PublishFails, DLQForget, DLQSave
  <1>3. Free.pc = "free" /\ \A a \in At : a.ev \in Events
    BY DEF Free
  <1>4. queue' \in Seq(Events) /\ Len(queue') <= Buffer
    <2>1. CASE Receive(w)
      <3>1. queue' \in Seq(Events) /\ Len(queue') = Len(queue) - 1 /\ Len(queue) \in Nat
        BY <1>1, <2>1 DEF Receive
      <3> QED BY <1>1, <3>1, PipelineAssumption
    <2>2. CASE UNCHANGED queue
      BY <1>1, <2>2
    <2> QED BY <2>1, <2>2 DEF Worker, PublishOK, PublishFails, DLQForget, DLQSave
  <1>5. worker'[w] \in {Free} \cup At /\ worker' = [worker EXCEPT ![w] = worker'[w]]
    <2>1. CASE Receive(w)
      <3>1. Head(queue) \in Events
        BY <1>1, <2>1 DEF Receive
      <3> QED BY <1>1, <2>1, <3>1 DEF Receive
    <2>2. CASE PublishOK(w) \/ DLQSave(w)
      BY <1>1, <2>2 DEF PublishOK, DLQSave
    <2>3. CASE PublishFails(w) \/ DLQForget(w)
      <3>1. PICK new \in {"dlqForget", "dlqSave"} : worker' = [worker EXCEPT ![w].pc = new]
        BY <2>3 DEF PublishFails, DLQForget
      <3>2. worker[w] \in At
        BY <1>1, <1>3, <2>3 DEF PublishFails, DLQForget
      <3>3. [worker[w] EXCEPT !.pc = new] \in At
        BY <3>2
      <3>4. worker'[w] = [worker[w] EXCEPT !.pc = new] /\ worker' = [worker EXCEPT ![w] = worker'[w]]
        BY <1>1, <3>1
      <3> QED BY <3>3, <3>4
    <2> QED BY <2>1, <2>2, <2>3 DEF Worker
  <1>6. worker' \in [Workers -> {Free} \cup At]
    BY <1>1, <1>5
  <1>7. worker[w].pc # "free" => worker[w].ev \in Events
    BY <1>1, <1>3
  <1>8. seen' \subseteq Events /\ stale' \subseteq seen' /\ delivered' \subseteq Events
    <2>1. CASE DLQForget(w)
      BY <1>1, <2>1 DEF DLQForget, Forget
    <2>2. CASE PublishOK(w) \/ PublishFails(w)
      BY <1>1, <1>7, <2>2 DEF PublishOK, PublishFails
    <2>3. CASE Receive(w) \/ DLQSave(w)
      BY <1>1, <2>3 DEF Receive, DLQSave
    <2> QED BY <2>1, <2>2, <2>3 DEF Worker
  <1>9. recs' \in Seq(Records)
    <2>0. recs \in Seq(Records)
      BY DEF PipelineTypes
    <2>1. CASE DLQSave(w)
      <3>1. (recs' = recs \/ recs' = Save(recs, worker[w].ev)) /\ worker[w].ev \in Events
        BY <1>7, <2>1 DEF DLQSave, SaveOutcomes
      <3> QED BY <2>0, <3>1, SaveRow
    <2>2. CASE UNCHANGED recs
      BY <2>0, <2>2
    <2> QED BY <2>1, <2>2 DEF Worker, Receive, PublishOK, PublishFails, DLQForget
  <1> QED BY <1>2, <1>4, <1>6, <1>8, <1>9 DEF PipelineTypes

\* The record a pass visits, and the rest of the pass.
LEMMA Visit ==
    ASSUME sched \in {Resting} \cup Passes, sched.pc # "idle"
    PROVE  /\ sched \in Passes /\ sched # Resting
           /\ sched.todo \in Seq(Records) \ {<<>>} /\ Visiting \in Records
           /\ 1 \in DOMAIN sched.todo /\ Visiting = sched.todo[1]
           /\ NextVisit \in {Resting} \cup Passes
           /\ \A i \in DOMAIN NextVisit.todo :
                  i + 1 \in DOMAIN sched.todo /\ i # 0 /\ i \in Int /\ NextVisit.todo[i] = sched.todo[i + 1]
  <1>1. sched \in Passes /\ sched # Resting /\ sched.todo \in Seq(Records) \ {<<>>}
    BY DEF Resting, Passes
  <1>2. PICK todo \in Seq(Records) \ {<<>>} : todo = sched.todo
    BY <1>1
  <1>3. /\ Head(todo) = todo[1] /\ todo[1] \in Records /\ 1 \in DOMAIN todo
        /\ Tail(todo) \in Seq(Records)
        /\ \A i \in DOMAIN Tail(todo) :
               i + 1 \in DOMAIN todo /\ i # 0 /\ i \in Int /\ Tail(todo)[i] = todo[i + 1]
    OBVIOUS
  <1>4. CASE Tail(todo) = <<>>
    <2>1. NextVisit = Resting /\ Resting.todo = <<>>
      BY <1>2, <1>4 DEF NextVisit, Resting
    <2> QED BY <1>1, <1>2, <1>3, <2>1 DEF Visiting
  <1>5. CASE Tail(todo) # <<>>
    <2>1. NextVisit = [pc |-> "visit", todo |-> Tail(todo)]
      BY <1>2, <1>5 DEF NextVisit
    <2>2. NextVisit \in Passes /\ NextVisit.todo = Tail(todo)
      BY <1>3, <1>5, <2>1 DEF Passes
    <2> QED BY <1>1, <1>2, <1>3, <2>2 DEF Visiting
  <1> QED BY <1>4, <1>5

\* The rest of a pass is as good as the pass, also when the records of the event
\* it has visited are gone.
LEMMA RestStored ==
    ASSUME sched \in Passes, Stored(recs, sched.todo), NEW s,
           \A ev : Has(recs, ev) /\ ev # Visiting.ev => Has(s, ev)
    PROVE  Stored(s, NextVisit.todo)
  <1>1. /\ 1 \in DOMAIN sched.todo /\ Visiting = sched.todo[1]
        /\ \A i \in DOMAIN NextVisit.todo :
               i + 1 \in DOMAIN sched.todo /\ i # 0 /\ i \in Int /\ NextVisit.todo[i] = sched.todo[i + 1]
    <2>1. sched.pc # "idle"
      BY DEF Passes
    <2> QED BY <2>1, Visit
  <1>2. PICK todo, rest : todo = sched.todo /\ rest = NextVisit.todo
    OBVIOUS
  <1>3. \A i \in DOMAIN rest : i + 1 # 1 /\ i + 1 \in DOMAIN todo /\ rest[i].ev = todo[i + 1].ev
    BY <1>1, <1>2
  <1>4. \A i \in DOMAIN todo : i # 1 => Has(s, todo[i].ev)
    BY <1>1, <1>2 DEF Stored, Distinct
  <1>5. \A i \in DOMAIN rest : Has(s, rest[i].ev)
    BY <1>3, <1>4
  <1>6. ASSUME NEW i \in DOMAIN rest, NEW j \in DOMAIN rest, rest[i].ev = rest[j].ev PROVE i = j
    <2>1. Distinct(todo)
      BY <1>2 DEF Stored
    <2>2. i + 1 = j + 1
      BY <1>3, <1>6, <2>1 DEF Distinct
    <2> QED BY <1>1, <1>2, <2>2
  <1> QED BY <1>2, <1>5, <1>6 DEF Stored, Distinct

\* What a step of the scheduler does to the store: nothing, Delete or
\* UpdateRetryCount of the event it visits.
LEMMA SchedulerStore ==
    ASSUME PipelineTypes, Scheduler
    PROVE  \/ recs' = recs
           \/ sched \in Passes /\ sched' = NextVisit /\ recs' = Without(recs, Visiting.ev)
           \/ sched \in Passes /\ sched' = NextVisit /\ Visiting.retries + 1 \in Nat
              /\ recs' = UpdateRetryCount(recs, Visiting.ev, Visiting.retries + 1)
  <1>1. sched.pc # "idle" => sched \in Passes /\ Visiting \in Records
    BY Visit DEF PipelineTypes
  <1>2. CASE SchedExhausted \/ SchedDelete
    BY <1>1, <1>2 DEF SchedExhausted, SchedDelete, Delete
  <1>3. CASE SchedUpdate
    BY <1>1, <1>3 DEF SchedUpdate, Records
  <1>4. CASE SchedList \/ SchedSkip \/ SchedPublish \/ SchedStoreError
    BY <1>4 DEF SchedList, SchedSkip, SchedPublish, SchedStoreError
  <1> QED BY <1>2, <1>3, <1>4 DEF Scheduler

\* A step of the scheduler keeps the types.
LEMMA SchedulerTypes ==
    ASSUME PipelineTypes, Listed, Scheduler
    PROVE  PipelineTypes'
  <1>1. /\ sched \in {Resting} \cup Passes /\ recs \in Seq(Records) /\ queue \in Seq(Events) /\ Len(queue) <= Buffer
        /\ attempts \in [Events -> 0..MaxAttempts]
    BY DEF PipelineTypes
  <1>2. UNCHANGED <<seen, stale, req, worker, acked, delivered>>
    BY DEF Scheduler, SchedList, SchedExhausted, SchedSkip, SchedPublish, SchedDelete, SchedUpdate, SchedStoreError
  <1>3. sched.pc # "idle" => /\ sched \in Passes /\ Visiting \in Records /\ Visiting.ev \in Events
                             /\ NextVisit \in {Resting} \cup Passes
    BY <1>1, Visit DEF Records
  <1>4. recs' \in Seq(Records)
    BY <1>1, SchedulerStore, WithoutRow, UpdateRow
  <1>5. sched' \in {Resting} \cup Passes
    <2>1. CASE SchedList
      <3>1. ListRecent(recs, ListLimit) \in Seq(Records) \ {<<>>}
        BY <1>1, <2>1, ListRows, PipelineAssumption DEF Listed, SchedList
      <3> QED BY <2>1, <3>1 DEF SchedList, Passes
    <2>2. CASE SchedPublish
      BY <1>3, <2>2 DEF SchedPublish, Passes
    <2>3. CASE SchedExhausted \/ SchedSkip \/ SchedDelete \/ SchedUpdate \/ SchedStoreError
      BY <1>3, <2>3 DEF SchedExhausted, SchedSkip, SchedDelete, SchedUpdate, SchedStoreError
    <2> QED BY <2>1, <2>2, <2>3 DEF Scheduler
  <1>6. queue' \in Seq(Events) /\ Len(queue') <= Buffer
    <2>1. CASE queue' = Append(queue, Visiting.ev) /\ Len(queue) < Buffer /\ Visiting.ev \in Events
      BY <1>1, <2>1, PipelineAssumption
    <2>2. CASE UNCHANGED queue
      BY <1>1, <2>2
    <2> QED BY <1>3, <2>1, <2>2 DEF Scheduler, SchedList, SchedExhausted, SchedSkip, SchedPublish, SchedDelete,
               SchedUpdate, SchedStoreError
  <1>8. attempts' \in [Events -> 0..MaxAttempts]
    <2>1. CASE SchedPublish
      <3>1. Visiting.ev \in Events /\ attempts[Visiting.ev] < MaxAttempts
        BY <1>3, <2>1 DEF SchedPublish
      <3>2. attempts[Visiting.ev] + 1 \in 0..MaxAttempts
        BY <1>1, <3>1, PipelineAssumption
      <3> QED BY <1>1, <2>1, <3>2 DEF SchedPublish
    <2>2. CASE UNCHANGED attempts
      BY <1>1, <2>2
    <2> QED BY <2>1, <2>2 DEF Scheduler, SchedList, SchedExhausted, SchedSkip, SchedDelete, SchedUpdate, SchedStoreError
  <1> QED BY <1>2, <1>4, <1>5, <1>6, <1>8 DEF PipelineTypes

\* Handlers and workers only save: they take no record away.
LEMMA OnlySaves ==
    ASSUME PipelineTypes, Listed, recs' = recs \/ \E e \in Events : recs' = Save(recs, e),
           UNCHANGED sched
    PROVE  Listed'
  <1>1. recs \in Seq(Records) /\ Recorded(recs) /\ (Backend = "postgres" => Distinct(recs))
    BY TypedRecords DEF PipelineTypes, Listed
  <1>2. /\ Backend = "postgres" => Distinct(recs')
        /\ \A ev : Has(recs, ev) => Has(recs', ev)
    <2>1. CASE recs' = recs
      BY <1>1, <2>1
    <2>2. ASSUME NEW e \in Events, recs' = Save(recs, e)
          PROVE  /\ Backend = "postgres" => Distinct(recs')
                 /\ \A ev : Has(recs, ev) => Has(recs', ev)
      <3>1. \A ev : Has(recs, ev) => Has(Save(recs, e), ev)
        BY <1>1, SaveAdds
      <3>2. Backend = "postgres" /\ Distinct(recs) => Distinct(Save(recs, e))
        BY <1>1, SaveRow
      <3> QED BY <1>1, <2>2, <3>1, <3>2
    <2> QED BY <2>1, <2>2
  <1>3. PICK t : t = recs'
    OBVIOUS
  <1>4. Stored(t, sched.todo) /\ (Backend = "postgres" => Distinct(t))
    BY <1>2, <1>3 DEF Listed, Stored
  <1> QED BY <1>3, <1>4 DEF Listed, Stored, Distinct, Has

\* The scheduler takes away the records of the event it has just visited only.
LEMMA SchedulerLists ==
    ASSUME PipelineTypes, Listed, Scheduler
    PROVE  Listed'
  <1>1. recs \in Seq(Records) /\ Recorded(recs) /\ (Backend = "postgres" => Distinct(recs)) /\ Stored(recs, sched.todo)
    BY TypedRecords DEF PipelineTypes, Listed
  <1>2. PICK t, todo : t = recs' /\ todo = sched'.todo
    OBVIOUS
  <1>3. Backend = "postgres" => Distinct(t)
    BY <1>1, <1>2, SchedulerStore, WithoutRow, UpdateRow
  <1>4. CASE SchedList
    <2>1. Stored(recs, ListRecent(recs, ListLimit))
      BY <1>1, <1>4, ListRows, PipelineAssumption DEF SchedList
    <2>2. t = recs /\ todo = ListRecent(recs, ListLimit)
      BY <1>2, <1>4 DEF SchedList
    <2> QED BY <1>2, <1>3, <2>1, <2>2 DEF Listed, Stored, Distinct, Has
  <1>5. CASE ~SchedList
    <2>1. \/ sched' = NextVisit \/ sched'.todo = sched.todo \/ sched' = Resting
      BY <1>5, Visit DEF PipelineTypes, Passes, Scheduler, SchedExhausted, SchedSkip, SchedPublish, SchedDelete, SchedUpdate, SchedStoreError
    <2>2. sched \in Passes
      BY <1>5, Visit DEF PipelineTypes, Scheduler, SchedExhausted, SchedSkip, SchedPublish, SchedDelete, SchedUpdate, SchedStoreError
    <2>3. \A ev : Has(recs, ev) /\ ev # Visiting.ev => Has(t, ev)
      BY <1>1, <1>2, SchedulerStore, WithoutRecords, UpdateKeeps
    <2>4. \/ t = recs \/ sched' = NextVisit
      BY <1>2, SchedulerStore
    <2>5. Stored(t, NextVisit.todo)
      BY <1>1, <2>2, <2>3, RestStored
    <2>6. Stored(t, Resting.todo)
      BY DEF Stored, Resting, Distinct
    <2>7. Stored(t, todo)
      <3>1. CASE sched' = NextVisit
        BY <1>2, <2>5, <3>1
      <3>2. CASE sched' = Resting
        BY <1>2, <2>6, <3>2
      <3>3. CASE sched'.todo = sched.todo /\ t = recs
        BY <1>1, <1>2, <3>3
      <3> QED BY <2>1, <2>4, <3>1, <3>2, <3>3
    <2> QED BY <1>2, <1>3, <2>7 DEF Listed, Stored, Distinct, Has
  <1> QED BY <1>4, <1>5

\* The types, and what a pass visits, are kept by every step.
LEMMA TypesKept == PipelineTypes /\ Listed /\ [Next]_vars => PipelineTypes' /\ Listed'
  <1> SUFFICES ASSUME PipelineTypes, Listed, [Next]_vars PROVE PipelineTypes' /\ Listed'
    OBVIOUS
  <1>1. ASSUME NEW r \in Requests, Handler(r) PROVE PipelineTypes' /\ Listed'
    <2>1. r[1] \in Events
      BY DEF Requests
    <2>2. UNCHANGED sched /\ (recs' = recs \/ \E e \in Events : recs' = Save(recs, e))
      BY <1>1, <2>1 DEF Handler, HandleSeen, HandleAccepted, HandleRefused, HandlePanics, HandleForget, HandlePersist, SaveOutcomes
    <2> QED BY <1>1, <2>2, HandlerTypes, OnlySaves
  <1>2. ASSUME NEW w \in Workers, Worker(w) PROVE PipelineTypes' /\ Listed'
    <2>1. worker[w].pc = "dlqSave" => worker[w].ev \in Events
      BY DEF PipelineTypes, Free
    <2>2. UNCHANGED sched /\ (recs' = recs \/ \E e \in Events : recs' = Save(recs, e))
      BY <1>2, <2>1 DEF Worker, Receive, PublishOK, PublishFails, DLQForget, DLQSave, SaveOutcomes
    <2> QED BY <1>2, <2>2, WorkerTypes, OnlySaves
  <1>3. CASE Scheduler
    BY <1>3, SchedulerTypes, SchedulerLists
  <1>4. CASE (\E ev \in Events : Expire(ev)) \/ UNCHANGED vars
    <2>1. UNCHANGED <<req, queue, worker, recs, sched, acked, delivered, attempts>>
          /\ seen' \subseteq seen /\ (stale \subseteq seen => stale' \subseteq seen')
      BY <1>4 DEF Expire, vars
    <2> QED BY <2>1 DEF PipelineTypes, Listed, Stored, Distinct, Has
  <1> QED BY <1>1, <1>2, <1>3, <1>4 DEF Next

\* The initial state has the types, and nothing to visit.
LEMMA TypesInit == Init => PipelineTypes /\ Listed
  <1> SUFFICES ASSUME Init PROVE PipelineTypes /\ Listed
    OBVIOUS
  <1>1. queue = <<>> /\ queue \in Seq(Events) /\ Len(queue) <= Buffer
    BY PipelineAssumption DEF Init
  <1>2. recs = <<>> /\ recs \in Seq(Records) /\ sched = Resting
    BY DEF Init
  <1>3. attempts \in [Events -> 0..MaxAttempts]
    BY PipelineAssumption DEF Init
  <1>4. PipelineTypes
    BY <1>1, <1>2, <1>3 DEF Init, PipelineTypes, InHandler
  <1>5. Listed
    BY <1>2 DEF Listed, Stored, Distinct, Resting
  <1> QED BY <1>4, <1>5

LEMMA TypedAndListed == Spec => [](PipelineTypes /\ Listed)
  BY TypesInit, TypesKept, PTL DEF Spec

\* The types of the whole pipeline: the queue never exceeds the buffer, only keys
\* the deduper holds count as left behind, and a worker, a record and a pass have an event of
\* the provider and a count that is a number.
THEOREM TypesHold == Spec => []PipelineTypes
  BY TypedAndListed, PTL

\* The record that the scheduler is at, when it publishes, counts a retry or
\* deletes, is in the store, whichever records handlers and workers save meanwhile,
\* and no event is visited twice in a pass: as long as the admin API deletes nothing,
\* neither Delete nor UpdateRetryCount of a pass answers ErrNotFound.
THEOREM VisitsStored ==
    Spec => [](sched # Resting => Has(recs, Visiting.ev) /\ Distinct(sched.todo))
  <1>1. PipelineTypes /\ Listed => (sched # Resting => Has(recs, Visiting.ev) /\ Distinct(sched.todo))
    <2> SUFFICES ASSUME PipelineTypes, Listed, sched # Resting
                 PROVE  Has(recs, Visiting.ev) /\ Distinct(sched.todo)
      OBVIOUS
    <2>1. sched \in Passes /\ sched.pc # "idle"
      BY DEF PipelineTypes, Passes
    <2>2. 1 \in DOMAIN sched.todo /\ Visiting = sched.todo[1]
      BY <2>1, Visit
    <2> QED BY <2>2 DEF Listed, Stored
  <1> QED BY <1>1, TypedAndListed, PTL

-------------------------------------------------------------------------------
(* Refinement: the pipeline keeps the promise of IngestPromise. *)

Good == MInv /\ Recorded(recs) /\ Sure /\ NoPass /\ PipelineTypes /\ Listed

\* A step concerns one event: for all others nothing changes.
Same(ev) == /\ ev \in delivered' <=> ev \in delivered
            /\ HeldSomewhere(ev)' <=> HeldSomewhere(ev)

\* What a step may do to its own event: deliver what is held, take it, and let it
\* go only when it is delivered or can be lost.
Fair(e) ==
    /\ e \in delivered => e \in delivered'
    /\ e \in delivered' => e \in delivered \/ HeldSomewhere(e)
    /\ HeldSomewhere(e) => HeldSomewhere(e)' \/ e \in delivered' \/ MayLose(e)

Acks(e) == acked' = acked \cup {e} /\ Same(e) /\ (Accounted(e) \/ MayLose(e))

Concerns(e) == /\ \A ev \in Events : ev = e \/ Same(ev)
               /\ Acks(e) \/ (UNCHANGED acked /\ Fair(e))

\* The fates, as the mapping has them.
LEMMA FateMoves ==
    ASSUME NEW e \in Events, \A ev \in Events : ev = e \/ Same(ev)
    PROVE  [ev \in Events |-> Fate(ev)]' = [[ev \in Events |-> Fate(ev)] EXCEPT ![e] = Fate(e)']
  <1>1. \A ev \in Events : Same(ev) => Fate(ev)' = Fate(ev)
    BY DEF Same, Fate
  <1>2. PICK f, g : f = [ev \in Events |-> Fate(ev)] /\ g = [ev \in Events |-> Fate(ev)']
    OBVIOUS
  <1>3. g = [f EXCEPT ![e] = Fate(e)']
    BY <1>1, <1>2
  <1> QED BY <1>2, <1>3

\* Such a step is one of the promise, or changes nothing of it.
LEMMA Mapped ==
    ASSUME NEW e \in Events, Concerns(e)
    PROVE  [Promise!Next]_Promise!vars
  <1> DEFINE fate == [ev \in Events |-> Fate(ev)]
             Lossy == {ev \in Events : MayLose(ev)}
  <1>1. fate' = [fate EXCEPT ![e] = Fate(e)'] /\ fate[e] = Fate(e)
    BY FateMoves DEF Concerns
  <1>2. e \in Lossy <=> MayLose(e)
    OBVIOUS
  <1>3. Fate(e)' = Fate(e) => fate' = fate
    <2>1. fate \in [Events -> {Fate(ev) : ev \in Events}]
      OBVIOUS
    <2> HIDE DEF fate
    <2> QED BY <1>1, <2>1
  <1> HIDE DEF fate, Lossy
  <1>4. CASE Acks(e)
    <2>1. Fate(e)' = Fate(e) /\ acked' = acked \cup {e} /\ (Fate(e) # "unknown" \/ MayLose(e))
      BY <1>4 DEF Acks, Same, Fate, Accounted
    <2>2. Promise!Promise(e)
      BY <1>1, <1>2, <1>3, <2>1 DEF Promise!Promise, fate, Lossy
    <2> QED BY <2>2 DEF Promise!Next
  <1>5. CASE UNCHANGED acked /\ Fair(e)
    <2>1. \/ Fate(e)' = Fate(e)
          \/ Fate(e) = "unknown" /\ Fate(e)' = "held"
          \/ Fate(e) = "held" /\ Fate(e)' = "delivered"
          \/ MayLose(e) /\ Fate(e) = "held" /\ Fate(e)' = "unknown"
      BY <1>5 DEF Fair, Fate
    <2>2. CASE Fate(e)' = Fate(e)
      BY <1>3, <1>5, <2>2 DEF Promise!vars, fate
    <2>3. CASE Fate(e) = "unknown" /\ Fate(e)' = "held"
      <3>1. Promise!Take(e)
        BY <1>1, <1>5, <2>3 DEF Promise!Take, Promise!Becomes, fate
      <3> QED BY <3>1 DEF Promise!Next
    <2>4. CASE Fate(e) = "held" /\ Fate(e)' = "delivered"
      <3>1. Promise!Deliver(e)
        BY <1>1, <1>5, <2>4 DEF Promise!Deliver, Promise!Becomes, fate
      <3> QED BY <3>1 DEF Promise!Next
    <2>5. CASE MayLose(e) /\ Fate(e) = "held" /\ Fate(e)' = "unknown"
      <3>1. Promise!Drop(e)
        BY <1>1, <1>2, <1>5, <2>5 DEF Promise!Drop, Promise!Becomes, fate, Lossy
      <3> QED BY <3>1 DEF Promise!Next
    <2> QED BY <2>1, <2>2, <2>3, <2>4, <2>5
  <1> QED BY <1>4, <1>5 DEF Concerns

\* Nothing of the promise changes when nobody's hands and no fate do.
LEMMA Unmapped ==
    ASSUME UNCHANGED <<req, queue, worker, recs, acked, delivered>>
    PROVE  [Promise!Next]_Promise!vars
  <1>1. \A ev \in Events : Fate(ev)' = Fate(ev)
    BY DEF Fate, HeldSomewhere, Has
  <1>2. [ev \in Events |-> Fate(ev)]' = [ev \in Events |-> Fate(ev)]
    BY <1>1
  <1> QED BY <1>2 DEF Promise!vars

\* Where only one event moves, nobody else's hold changes.
LEMMA OthersSame ==
    ASSUME NEW e,
           \A ev : ev # e => /\ (ev \in delivered' <=> ev \in delivered)
                             /\ (InReq(ev)' <=> InReq(ev)) /\ (ev \in Elems(queue') <=> ev \in Elems(queue))
                             /\ (InWork(ev)' <=> InWork(ev)) /\ (Has(recs', ev) <=> Has(recs, ev))
    PROVE  \A ev \in Events : ev = e \/ Same(ev)
  <1>1. \A ev : Has(recs, ev)' <=> Has(recs', ev)
    BY DEF Has
  <1> QED BY <1>1, HeldPlaces, HeldPlacesNext DEF Same

\* A Save changes what is stored of its event only, and lets the event go only if
\* the configuration can lose it.
LEMMA SaveMoves ==
    ASSUME Recorded(recs), NEW e, recs' \in SaveOutcomes(e)
    PROVE  /\ \A ev : ev # e => (Has(recs', ev) <=> Has(recs, ev))
           /\ Has(recs', e) \/ MayLose(e)
  <1>1. recs' = Save(recs, e) \/ (recs' = recs /\ (SaveRefused(e) \/ SaveMayFail))
    BY DEF SaveOutcomes
  <1>2. \A x : Has(Save(recs, e), x) <=> Has(recs, x) \/ x = e
    BY SaveAdds
  <1> QED BY <1>1, <1>2 DEF MayLose

\* A handler moves its own event.
LEMMA HandlerMoves ==
    ASSUME Good, NEW r \in Requests, Handler(r)
    PROVE  [Promise!Next]_Promise!vars
  <1> PICK e \in Events : e = r[1]
    BY DEF Requests
  <1>0. req \in [Requests -> InHandler \cup {"new", "202", "5xx"}] /\ IsSeq(queue) /\ Recorded(recs)
    BY DEF Good, MInv, Shape
  <1>1. req' = [req EXCEPT ![r] = req'[r]] /\ UNCHANGED <<worker, delivered>>
    BY <1>0 DEF Handler, HandleSeen, HandleAccepted, HandleRefused, HandlePanics, HandleForget, HandlePersist
  <1>2. \A ev : /\ InWork(ev)' <=> InWork(ev)
                /\ ev # e => (InReq(ev)' <=> InReq(ev))
    BY <1>0, <1>1 DEF InReq, InWork
  <1>3. req[r] \in InHandler => InReq(e) /\ HeldSomewhere(e)
    BY HeldPlaces DEF InReq
  <1>4. req'[r] \in InHandler => InReq(e)' /\ HeldSomewhere(e)'
    BY HeldPlacesNext DEF InReq
  <1>5. CASE HandleSeen(r) \/ HandleRefused(r) \/ HandleForget(r)
    <2>1. UNCHANGED <<queue, recs>>
      BY <1>5 DEF HandleSeen, HandleRefused, HandleForget
    <2>2. \A ev \in Events : ev = e \/ Same(ev)
      BY <1>1, <1>2, <2>1, OthersSame
    <2>3. CASE req[r] = "new" /\ req'[r] = "202" /\ e \in seen /\ acked' = acked \cup {e}
      <3>1. InReq(e)' <=> InReq(e)
        BY <1>0, <1>1, <2>3 DEF InReq, InHandler
      <3>2. Same(e)
        BY <1>1, <1>2, <2>1, <3>1, HeldPlaces, HeldPlacesNext DEF Same, Has
      <3>3. Accounted(e) \/ MayLose(e)
        BY <2>3 DEF Good, Sure
      <3> QED BY <2>2, <2>3, <3>2, <3>3, Mapped DEF Concerns, Acks
    <2>4. CASE req'[r] \in InHandler /\ UNCHANGED acked
      <3>1. Fair(e)
        BY <1>1, <1>4, <2>4 DEF Fair
      <3> QED BY <2>2, <2>4, <3>1, Mapped DEF Concerns
    <2> QED BY <1>0, <1>5, <2>3, <2>4 DEF HandleSeen, HandleRefused, HandleForget, InHandler
  <1>6. CASE HandleAccepted(r)
    <2>1. Elems(queue') = Elems(queue) \cup {e} /\ UNCHANGED recs /\ acked' = acked \cup {e} /\ req[r] = "publish"
      BY <1>0, <1>6, AppendElems DEF HandleAccepted
    <2>2. \A ev \in Events : ev = e \/ Same(ev)
      BY <1>1, <1>2, <2>1, OthersSame
    <2>3. HeldSomewhere(e) /\ HeldSomewhere(e)'
      BY <1>3, <2>1, HeldPlacesNext DEF InHandler
    <2>4. Same(e) /\ Accounted(e)
      BY <1>1, <2>3 DEF Same, Accounted
    <2> QED BY <2>1, <2>2, <2>4, Mapped DEF Concerns, Acks
  <1>7. CASE HandlePersist(r)
    <2>1. UNCHANGED <<queue, acked>> /\ recs' \in SaveOutcomes(e)
      BY <1>7 DEF HandlePersist
    <2>2. /\ \A ev : ev # e => (Has(recs', ev) <=> Has(recs, ev))
          /\ Has(recs', e) \/ MayLose(e)
      BY <1>0, <2>1, SaveMoves
    <2>3. \A ev \in Events : ev = e \/ Same(ev)
      BY <1>1, <1>2, <2>1, <2>2, OthersSame
    <2>4. HeldSomewhere(e)' \/ MayLose(e)
      BY <2>2, HeldPlacesNext DEF Has
    <2>5. Fair(e)
      BY <1>1, <2>4 DEF Fair
    <2> QED BY <2>1, <2>3, <2>5, Mapped DEF Concerns
  <1>8. CASE HandlePanics(r)
    <2>1. UNCHANGED <<queue, recs, acked>> /\ MayLose(e)
      BY <1>8 DEF HandlePanics, MayLose
    <2>2. \A ev \in Events : ev = e \/ Same(ev)
      BY <1>1, <1>2, <2>1, OthersSame
    <2>3. Fair(e)
      BY <1>1, <2>1, <1>3, <1>8 DEF HandlePanics, InHandler, Fair
    <2> QED BY <2>1, <2>2, <2>3, Mapped DEF Concerns
  <1> QED BY <1>5, <1>6, <1>7, <1>8 DEF Handler

\* A worker moves the event it receives or has.
LEMMA WorkerMoves ==
    ASSUME Good, NEW w \in Workers, Worker(w)
    PROVE  [Promise!Next]_Promise!vars
  <1>0. /\ worker = [v \in Workers |-> [pc |-> worker[v].pc, ev |-> worker[v].ev]]
        /\ IsSeq(queue) /\ Recorded(recs) /\ queue \in Seq(Events)
        /\ worker[w].pc # "free" => worker[w].ev \in Events
    BY DEF Good, MInv, Shape, PipelineTypes, Free
  <1>1. UNCHANGED <<req, acked>> /\ \A v \in Workers \ {w} : worker'[v] = worker[v]
    BY <1>0 DEF Worker, Receive, PublishOK, PublishFails, DLQForget, DLQSave
  <1>2. \A ev : InReq(ev)' <=> InReq(ev)
    BY <1>1 DEF InReq
  <1>3. CASE Receive(w)
    <2>1. PICK e : e = Head(queue)
      OBVIOUS
    <2>2. queue # <<>> /\ queue' = Tail(queue) /\ UNCHANGED <<recs, delivered>>
          /\ worker'[w] = [pc |-> "publish", ev |-> e] /\ worker[w].pc = "free"
      BY <1>0, <1>3, <2>1 DEF Receive, Free
    <2>3. e \in Events /\ Elems(queue) = {e} \cup Elems(queue')
      BY <1>0, <2>1, <2>2, TailElems
    <2>4. \A ev : ev # e => (InWork(ev)' <=> InWork(ev))
      BY <1>1, <2>2 DEF InWork
    <2>5. \A ev \in Events : ev = e \/ Same(ev)
      BY <1>1, <1>2, <2>2, <2>3, <2>4, OthersSame
    <2>6. HeldSomewhere(e)'
      BY <2>2, HeldPlacesNext DEF InWork
    <2> QED BY <1>1, <2>2, <2>3, <2>5, <2>6, Mapped DEF Concerns, Fair
  <1>4. CASE ~Receive(w)
    <2>1. worker[w].pc \in {"publish", "dlqForget", "dlqSave"} /\ UNCHANGED queue
      BY <1>4 DEF Worker, PublishOK, PublishFails, DLQForget, DLQSave
    <2>2. PICK e \in Events : e = worker[w].ev
      BY <1>0, <2>1
    <2>3. HeldSomewhere(e)
      BY <2>1, <2>2, HeldPlaces DEF InWork
    <2>4. worker'[w].pc = "free" \/ (worker'[w].ev = e /\ worker'[w].pc # "free")
      BY <1>0, <1>4, <2>2 DEF Worker, PublishOK, PublishFails, DLQForget, DLQSave, Free
    <2>5. \A ev : ev # e => (InWork(ev)' <=> InWork(ev))
      BY <1>1, <2>1, <2>2, <2>4 DEF InWork
    <2>6. CASE PublishOK(w) \/ PublishFails(w) \/ DLQForget(w)
      <3>1. UNCHANGED recs /\ delivered' \in {delivered, delivered \cup {e}}
            /\ (worker'[w].pc = "free" => e \in delivered')
        BY <1>0, <2>2, <2>6 DEF PublishOK, PublishFails, DLQForget
      <3>2. \A ev \in Events : ev = e \/ Same(ev)
        BY <1>1, <1>2, <2>1, <2>5, <3>1, OthersSame
      <3>3. HeldSomewhere(e)' \/ e \in delivered'
        BY <2>4, <3>1, HeldPlacesNext DEF InWork
      <3>4. Fair(e)
        BY <1>1, <2>3, <3>1, <3>3 DEF Fair
      <3> QED BY <1>1, <3>2, <3>4, Mapped DEF Concerns
    <2>7. CASE DLQSave(w)
      <3>1. UNCHANGED delivered /\ recs' \in SaveOutcomes(e)
        BY <2>2, <2>7 DEF DLQSave
      <3>2. /\ \A ev : ev # e => (Has(recs', ev) <=> Has(recs, ev))
            /\ Has(recs', e) \/ MayLose(e)
        BY <1>0, <3>1, SaveMoves
      <3>3. \A ev \in Events : ev = e \/ Same(ev)
        BY <1>1, <1>2, <2>1, <2>5, <3>1, <3>2, OthersSame
      <3>4. HeldSomewhere(e)' \/ MayLose(e)
        BY <3>2, HeldPlacesNext DEF Has
      <3>5. Fair(e)
        BY <1>1, <3>1, <3>4 DEF Fair
      <3> QED BY <1>1, <3>3, <3>5, Mapped DEF Concerns
    <2> QED BY <1>4, <2>6, <2>7 DEF Worker
  <1> QED BY <1>3, <1>4

\* The scheduler moves the event it visits, which has a record.
LEMMA SchedulerMoves ==
    ASSUME Good, Scheduler
    PROVE  [Promise!Next]_Promise!vars
  <1>0. Recorded(recs) /\ IsSeq(queue) /\ sched \in {Resting} \cup Passes
    BY DEF Good, MInv, Shape, PipelineTypes
  <1>1. CASE SchedList \/ SchedSkip \/ SchedStoreError
    BY <1>1, Unmapped DEF SchedList, SchedSkip, SchedStoreError
  <1>2. CASE SchedPublish \/ SchedExhausted \/ SchedDelete \/ SchedUpdate
    <2>1. sched.pc # "idle"
      BY <1>2 DEF SchedPublish, SchedExhausted, SchedDelete, SchedUpdate
    <2>2. 1 \in DOMAIN sched.todo /\ Visiting = sched.todo[1] /\ Visiting \in Records /\ sched # Resting
      BY <1>0, <2>1, Visit
    <2>3. PICK e \in Events : e = Visiting.ev
      BY <2>2 DEF Records
    <2>4. Has(recs, e) /\ HeldSomewhere(e)
      BY <2>2, <2>3, HeldPlaces DEF Good, Listed, Stored
    <2>5. MayLose(e)
      BY <2>2 DEF Good, NoPass, MayLose
    <2>6. UNCHANGED <<req, worker, acked, delivered>>
      BY <1>2 DEF SchedPublish, SchedExhausted, SchedDelete, SchedUpdate
    <2>7. \A ev : (InReq(ev)' <=> InReq(ev)) /\ (InWork(ev)' <=> InWork(ev))
      BY <2>6 DEF InReq, InWork
    <2>9. \A ev : ev # e => (ev \in Elems(queue') <=> ev \in Elems(queue))
      <3>1. queue' = queue \/ queue' = Append(queue, e)
        BY <1>2, <2>3 DEF SchedPublish, SchedExhausted, SchedDelete, SchedUpdate
      <3>2. Elems(Append(queue, e)) = Elems(queue) \cup {e}
        BY <1>0, AppendElems
      <3>3. CASE queue' = queue
        BY <3>3
      <3>4. CASE queue' = Append(queue, e)
        <4>1. Elems(queue') = Elems(queue) \cup {e}
          BY <3>2, <3>4
        <4> QED BY <4>1
      <3> QED BY <3>1, <3>3, <3>4
    <2>10. \A ev : ev # e => (Has(recs', ev) <=> Has(recs, ev))
      <3>1. \/ recs' = recs \/ recs' = Without(recs, e)
            \/ \E n : recs' = UpdateRetryCount(recs, e, n)
        BY <1>2, <2>3 DEF SchedPublish, SchedExhausted, SchedDelete, SchedUpdate, Delete
      <3> QED BY <1>0, <3>1, WithoutRecords, UpdateKeeps
    <2>11. \A ev \in Events : ev = e \/ Same(ev)
      BY <2>6, <2>7, <2>9, <2>10, OthersSame
    <2>12. Fair(e)
      BY <2>4, <2>5, <2>6 DEF Fair
    <2> QED BY <2>6, <2>11, <2>12, Mapped DEF Concerns
  <1> QED BY <1>1, <1>2 DEF Scheduler

\* Every step maps to a step of the promise or to none.
LEMMA StepMapped == Good /\ [Next]_vars => [Promise!Next]_Promise!vars
  <1> SUFFICES ASSUME Good, [Next]_vars PROVE [Promise!Next]_Promise!vars
    OBVIOUS
  <1>1. CASE \E r \in Requests : Handler(r)
    BY <1>1, HandlerMoves
  <1>2. CASE \E w \in Workers : Worker(w)
    BY <1>2, WorkerMoves
  <1>3. CASE Scheduler
    BY <1>3, SchedulerMoves
  <1>4. CASE (\E ev \in Events : Expire(ev)) \/ UNCHANGED vars
    BY <1>4, Unmapped DEF Expire, vars
  <1> QED BY <1>1, <1>2, <1>3, <1>4 DEF Next

\* Initially nobody has anything.
LEMMA InitMapped == Init => Promise!Init
  <1> SUFFICES ASSUME Init PROVE Promise!Init
    OBVIOUS
  <1>1. \A ev \in Events : Fate(ev) = "unknown"
    <2>1. req = [r \in Requests |-> "new"] /\ queue = <<>> /\ recs = <<>> /\ delivered = {}
      BY DEF Init
    <2>2. \A w \in Workers : worker[w].pc = "free"
      BY DEF Init, Free
    <2>3. \A ev : ~HeldSomewhere(ev)
      BY <2>1, <2>2 DEF HeldSomewhere, Has, InHandler
    <2> QED BY <2>1, <2>3 DEF Fate
  <1> QED BY <1>1 DEF Init, Promise!Init

\* KeepsPromise: one step at a time an event is taken, delivered or dropped, and a
\* 202, also a duplicate's, is for an event that somebody has or that was delivered.
\* Only events that the configuration can lose, a panicking Publish included, are
\* dropped, or answered 202 without that; for any number of deliveries, workers and
\* retries, either store, and calls to Redis that fail.
THEOREM KeepsThePromise == Spec => KeepsPromise
  <1>1. Spec => []Good
    BY RecordsHold, SureHolds, TypedAndListed, PTL DEF Good
  <1> QED BY <1>1, InitMapped, StepMapped, PTL DEF Spec, KeepsPromise, Promise!Spec, Promise!vars

===============================================================================
