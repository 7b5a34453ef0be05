---------------------------- MODULE Shutdown_proofs ----------------------------
(***************************************************************************)
(* Proofs about Bulkhead and Shutdown for any number of calls and sources, *)
(* any order in which Close visits the map and any number of requests that *)
(* outlast srv.Shutdown.                                                   *)
(***************************************************************************)
EXTENDS Shutdown, TLAPS

AfterStop == {"publisherClose", "poolClose", "telemetryShutdown", "exited"}
Chosen    == {"publish", "send"} \cup Returned

\* A call keeps its source, and from GetOrCreateSource on the queue that is
\* registered for it; its own queue is not in the map before that.
CallsOK ==
    /\ \A c \in Calls : pc[c] # "new" => source[c] \in Sources
    /\ \A c \in Calls : pc[c] \in Chosen => target[c] \in Calls /\ sources[source[c]] = target[c]
    /\ \A c \in Calls : pc[c] = "insert" => qstate[c] = "open"
    /\ \A c \in Calls : fate[c] # "none" <=> pc[c] = "accepted"
    /\ \A s \in Sources : sources[s] # None => pc[sources[s]] \in Chosen

\* The stages of run(): Close begins after the scheduler has stopped, and what
\* follows Close finds it done.
StageOK ==
    /\ stage \in {"serving", "httpShutdown"} => ~overrun
    /\ closing.pc # "no" => stage \in AfterStop
    /\ stage \in AfterStop \ {"publisherClose"} => closing.pc = "done"
    /\ backend = "closed" \/ pool = "closed" => closing.pc = "done"
    /\ stage \in AfterStop => \A c \in Retries : ~Active(c)
    /\ stage \notin {"serving", "httpShutdown"} /\ ~overrun =>
          \A c \in Calls \ Retries : ~Active(c)

\* A registered queue is closed only by Close; a closed queue is empty or being
\* drained; without late requests nothing is registered after Close.
QueuesOK ==
    /\ \A s \in Sources : sources[s] # None /\ qstate[sources[s]] = "closed" => closing.pc # "no"
    /\ \A e \in Calls : Unsettled(e) /\ qstate[target[e]] = "closed" =>
          closing.pc = "drain" /\ closing.queue = target[e]
    /\ closing.pc = "done" /\ ~overrun =>
          \A s \in Sources : sources[s] # None => qstate[sources[s]] = "closed"
    /\ \A e \in Calls : fate[e] = "lost" => LateQueue(e)

Inv == TypeOK /\ CallsOK /\ StageOK /\ QueuesOK /\ PanicNeedsOverrun

\* Before the first event nothing is registered and run() serves.
LEMMA InitInv == Init => Inv
  <1> SUFFICES ASSUME Init PROVE Inv
    OBVIOUS
  <1> USE BulkheadAssumption DEF Init, BInit
  <1>1. closing = [pc |-> "no", queue |-> None] /\ closing.pc = "no"
    BY DEF NotClosing
  <1>2. TypeOK
    <2>1. closing \in [pc : {"no", "close", "drain", "done"}, queue : Calls \cup {None}]
      BY <1>1
    <2>2. overrun \in BOOLEAN
      OBVIOUS
    <2>3. \A s \in Sources : sources[s] = None
      OBVIOUS
    <2> QED BY <2>1, <2>2, <2>3 DEF TypeOK, InPublish, Returned, Fates, Stages
  <1>3. CallsOK /\ PanicNeedsOverrun
    BY DEF CallsOK, PanicNeedsOverrun, Chosen, Returned
  <1>4. StageOK
    BY <1>1 DEF StageOK, AfterStop
  <1>5. QueuesOK
    BY <1>1 DEF QueuesOK, Unsettled
  <1> QED BY <1>2, <1>3, <1>4, <1>5 DEF Inv

\* A new call has no queue yet.
LEMMA ArriveInv ==
    ASSUME Inv, NEW c \in Calls, Arrive(c)
    PROVE  Inv'
  <1> USE BulkheadAssumption, ShutdownAssumption DEF Inv, Arrive
  <1>1. TypeOK'
    BY DEF TypeOK, CallsOK, Stages, InPublish, Returned, Fates, Chosen, env, bvars
  <1>2. CallsOK'
    BY DEF TypeOK, CallsOK, Chosen, Returned, InPublish, env, bvars
  <1>3. StageOK'
    BY DEF TypeOK, StageOK, Active, InPublish, AfterStop, env, bvars, Stages
  <1>4. QueuesOK'
    BY DEF TypeOK, CallsOK, StageOK, QueuesOK, LateQueue, Unsettled, Locked, Chosen, Returned,
           InPublish, Active, AfterStop, env, bvars
  <1>5. PanicNeedsOverrun'
    BY DEF TypeOK, CallsOK, StageOK, QueuesOK, PanicNeedsOverrun, Chosen, Returned, InPublish,
           Active, AfterStop, env, bvars, Stages
  <1> QED BY <1>1, <1>2, <1>3, <1>4, <1>5

\* Finding the queue, or building one that nobody else knows.
LEMMA LookupInv ==
    ASSUME Inv, NEW c \in Calls, Lookup(c), UNCHANGED env
    PROVE  Inv'
  <1> USE BulkheadAssumption, ShutdownAssumption DEF Inv, Lookup
  <1>1. TypeOK'
    BY DEF TypeOK, CallsOK, Stages, InPublish, Returned, Fates, Chosen, env, bvars
  <1>2. CallsOK'
    BY DEF TypeOK, CallsOK, Chosen, Returned, InPublish, env, bvars
  <1>3. StageOK'
    BY DEF TypeOK, StageOK, Active, InPublish, AfterStop, env, bvars, Stages
  <1>4. QueuesOK'
    BY DEF TypeOK, CallsOK, StageOK, QueuesOK, LateQueue, Unsettled, Locked, Chosen, Returned,
           InPublish, Active, AfterStop, env, bvars
  <1>5. PanicNeedsOverrun'
    BY DEF TypeOK, CallsOK, StageOK, QueuesOK, PanicNeedsOverrun, Chosen, Returned, InPublish,
           Active, AfterStop, env, bvars, Stages
  <1> QED BY <1>1, <1>2, <1>3, <1>4, <1>5

\* Registering it, or closing it and taking the registered one.
LEMMA InsertInv ==
    ASSUME Inv, NEW c \in Calls, Insert(c), UNCHANGED env
    PROVE  Inv'
  <1> USE BulkheadAssumption, ShutdownAssumption DEF Inv, Insert
  <1>1. TypeOK'
    BY DEF TypeOK, CallsOK, Stages, InPublish, Returned, Fates, Chosen, env, bvars
  <1>2. CallsOK'
    BY DEF TypeOK, CallsOK, Chosen, Returned, InPublish, env, bvars
  <1>3. StageOK'
    BY DEF TypeOK, StageOK, Active, InPublish, AfterStop, env, bvars, Stages
  <1>4. QueuesOK'
    BY DEF TypeOK, CallsOK, StageOK, QueuesOK, LateQueue, Unsettled, Locked, Chosen, Returned,
           InPublish, Active, AfterStop, env, bvars
  <1>5. PanicNeedsOverrun'
    BY DEF TypeOK, CallsOK, StageOK, QueuesOK, PanicNeedsOverrun, Chosen, Returned, InPublish,
           Active, AfterStop, env, bvars, Stages
  <1> QED BY <1>1, <1>2, <1>3, <1>4, <1>5

\* The checks of Publish.
LEMMA CheckInv ==
    ASSUME Inv, NEW c \in Calls, Check(c), UNCHANGED env
    PROVE  Inv'
  <1> USE BulkheadAssumption, ShutdownAssumption DEF Inv, Check
  <1>1. TypeOK'
    BY DEF TypeOK, CallsOK, Stages, InPublish, Returned, Fates, Chosen, env, bvars
  <1>2. CallsOK'
    BY DEF TypeOK, CallsOK, Chosen, Returned, InPublish, env, bvars
  <1>3. StageOK'
    BY DEF TypeOK, StageOK, Active, InPublish, AfterStop, env, bvars, Stages
  <1>4. QueuesOK'
    BY DEF TypeOK, CallsOK, StageOK, QueuesOK, LateQueue, Unsettled, Locked, Chosen, Returned,
           InPublish, Active, AfterStop, env, bvars
  <1>5. PanicNeedsOverrun'
    BY DEF TypeOK, CallsOK, StageOK, QueuesOK, PanicNeedsOverrun, Chosen, Returned, InPublish,
           Active, AfterStop, env, bvars, Stages
  <1> QED BY <1>1, <1>2, <1>3, <1>4, <1>5

\* The send: an open queue takes the event, a closed one makes it panic.
LEMMA SendInv ==
    ASSUME Inv, NEW c \in Calls, Send(c), UNCHANGED env
    PROVE  Inv'
  <1> USE BulkheadAssumption, ShutdownAssumption DEF Inv, Send
  <1>1. TypeOK'
    BY DEF TypeOK, CallsOK, Stages, InPublish, Returned, Fates, Chosen, env, bvars
  <1>2. CallsOK'
    BY DEF TypeOK, CallsOK, Chosen, Returned, InPublish, env, bvars
  <1>3. StageOK'
    BY DEF TypeOK, StageOK, Active, InPublish, AfterStop, env, bvars, Stages
  <1>4. QueuesOK'
    BY DEF TypeOK, CallsOK, StageOK, QueuesOK, LateQueue, Unsettled, Locked, Chosen, Returned,
           InPublish, Active, AfterStop, env, bvars
  <1>5. PanicNeedsOverrun'
    BY DEF TypeOK, CallsOK, StageOK, QueuesOK, PanicNeedsOverrun, Chosen, Returned, InPublish,
           Active, AfterStop, env, bvars, Stages
  <1> QED BY <1>1, <1>2, <1>3, <1>4, <1>5

\* A worker publishes.
LEMMA PublishInv ==
    ASSUME Inv, NEW c \in Calls, Publish(c)
    PROVE  Inv'
  <1> USE BulkheadAssumption, ShutdownAssumption DEF Inv, Publish
  <1>1. TypeOK'
    BY DEF TypeOK, CallsOK, Stages, InPublish, Returned, Fates, Chosen, env, bvars
  <1>2. CallsOK'
    BY DEF TypeOK, CallsOK, Chosen, Returned, InPublish, env, bvars
  <1>3. StageOK'
    BY DEF TypeOK, StageOK, Active, InPublish, AfterStop, env, bvars, Stages
  <1>4. QueuesOK'
    BY DEF TypeOK, CallsOK, StageOK, QueuesOK, LateQueue, Unsettled, Locked, Chosen, Returned,
           InPublish, Active, AfterStop, env, bvars
  <1>5. PanicNeedsOverrun'
    BY DEF TypeOK, CallsOK, StageOK, QueuesOK, PanicNeedsOverrun, Chosen, Returned, InPublish,
           Active, AfterStop, env, bvars, Stages
  <1> QED BY <1>1, <1>2, <1>3, <1>4, <1>5

\* A worker saves, or loses an event of a late queue.
LEMMA OnDLQInv ==
    ASSUME Inv, NEW c \in Calls, OnDLQ(c)
    PROVE  Inv'
  <1> USE BulkheadAssumption, ShutdownAssumption DEF Inv, OnDLQ
  <1>1. TypeOK'
    BY DEF TypeOK, CallsOK, Stages, InPublish, Returned, Fates, Chosen, env, bvars
  <1>2. CallsOK'
    BY DEF TypeOK, CallsOK, Chosen, Returned, InPublish, env, bvars
  <1>3. StageOK'
    BY DEF TypeOK, StageOK, Active, InPublish, AfterStop, env, bvars, Stages
  <1>4. QueuesOK'
    BY DEF TypeOK, CallsOK, StageOK, QueuesOK, LateQueue, Unsettled, Locked, Chosen, Returned,
           InPublish, Active, AfterStop, env, bvars
  <1>5. PanicNeedsOverrun'
    BY DEF TypeOK, CallsOK, StageOK, QueuesOK, PanicNeedsOverrun, Chosen, Returned, InPublish,
           Active, AfterStop, env, bvars, Stages
  <1> QED BY <1>1, <1>2, <1>3, <1>4, <1>5

\* The stages of run() around Close.
LEMMA StagesInv ==
    ASSUME Inv, Signal \/ HTTPStopped \/ SchedulerCancel \/ SchedulerStopped
    PROVE  Inv'
  <1> USE DEF Inv
  <1>1. /\ UNCHANGED <<sources, qstate, pc, source, target, fate, closing, backend, pool>>
        /\ stage \notin AfterStop
        /\ stage' \in Stages
    BY DEF Signal, HTTPStopped, SchedulerCancel, SchedulerStopped, bvars, AfterStop, Stages
  <1>2. closing.pc = "no" /\ backend = "open" /\ pool = "open"
    BY <1>1 DEF StageOK, TypeOK
  <1>3. overrun' \in BOOLEAN
    BY Zenon DEF TypeOK, Signal, HTTPStopped, SchedulerCancel, SchedulerStopped
  <1>4. TypeOK'
    BY <1>1, <1>3 DEF TypeOK
  <1>5. CallsOK'
    BY <1>1 DEF CallsOK
  <1>6. QueuesOK'
    BY <1>1, <1>2 DEF QueuesOK, LateQueue, Unsettled
  <1>7. PanicNeedsOverrun'
    <2>1. CASE HTTPStopped
      BY <1>1, <2>1 DEF PanicNeedsOverrun, StageOK, HTTPStopped
    <2>2. CASE Signal \/ SchedulerCancel \/ SchedulerStopped
      BY <1>1, <2>2 DEF PanicNeedsOverrun, Signal, SchedulerCancel, SchedulerStopped
    <2> QED BY <2>1, <2>2
  <1>8. StageOK'
    <2>1. CASE HTTPStopped
      <3>1. stage' = "schedulerStop"
        BY <2>1 DEF HTTPStopped
      <3>2. ~overrun' => \A c \in Calls \ Retries : ~Active(c)
        BY <2>1, Zenon DEF HTTPStopped
      <3> QED BY <1>1, <1>2, <3>1, <3>2 DEF StageOK, Active, AfterStop
    <2>2. CASE Signal
      BY <1>1, <1>2, <2>2 DEF StageOK, Active, AfterStop, Signal
    <2>3. CASE SchedulerCancel \/ SchedulerStopped
      BY <1>1, <1>2, <2>3 DEF StageOK, Active, AfterStop, SchedulerCancel, SchedulerStopped
    <2> QED BY <2>1, <2>2, <2>3
  <1> QED BY <1>4, <1>5, <1>6, <1>7, <1>8

\* Close takes a queue, drains it, and returns when all are closed.
LEMMA ClosePublisherInv ==
    ASSUME Inv, ClosePublisher
    PROVE  Inv'
  <1> USE BulkheadAssumption, ShutdownAssumption DEF Inv, ClosePublisher, CloseLock, CloseQueue, QueueDrained, CloseReturn, NotClosing, Holds, Unsettled
  <1>1. TypeOK'
    BY DEF TypeOK, CallsOK, Stages, InPublish, Returned, Fates, Chosen, env, bvars
  <1>2. CallsOK'
    BY DEF TypeOK, CallsOK, Chosen, Returned, InPublish, env, bvars
  <1>3. StageOK'
    BY DEF TypeOK, StageOK, Active, InPublish, AfterStop, env, bvars, Stages
  <1>4. QueuesOK'
    BY DEF TypeOK, CallsOK, StageOK, QueuesOK, LateQueue, Unsettled, Locked, Chosen, Returned,
           InPublish, Active, AfterStop, env, bvars
  <1>5. PanicNeedsOverrun'
    BY DEF TypeOK, CallsOK, StageOK, QueuesOK, PanicNeedsOverrun, Chosen, Returned, InPublish,
           Active, AfterStop, env, bvars, Stages
  <1> QED BY <1>1, <1>2, <1>3, <1>4, <1>5

\* What follows Close.
LEMMA AfterCloseInv ==
    ASSUME Inv, CloseBackend \/ ClosePool \/ Exit
    PROVE  Inv'
  <1> USE BulkheadAssumption, ShutdownAssumption DEF Inv, CloseBackend, ClosePool, Exit
  <1>1. TypeOK'
    BY DEF TypeOK, CallsOK, Stages, InPublish, Returned, Fates, Chosen, env, bvars
  <1>2. CallsOK'
    BY DEF TypeOK, CallsOK, Chosen, Returned, InPublish, env, bvars
  <1>3. StageOK'
    BY DEF TypeOK, StageOK, Active, InPublish, AfterStop, env, bvars, Stages
  <1>4. QueuesOK'
    BY DEF TypeOK, CallsOK, StageOK, QueuesOK, LateQueue, Unsettled, Locked, Chosen, Returned,
           InPublish, Active, AfterStop, env, bvars
  <1>5. PanicNeedsOverrun'
    BY DEF TypeOK, CallsOK, StageOK, QueuesOK, PanicNeedsOverrun, Chosen, Returned, InPublish,
           Active, AfterStop, env, bvars, Stages
  <1> QED BY <1>1, <1>2, <1>3, <1>4, <1>5

\* Every step keeps the invariant.
LEMMA NextInv == Inv /\ [Next]_vars => Inv'
  <1> SUFFICES ASSUME Inv, [Next]_vars PROVE Inv'
    OBVIOUS
  <1>1. ASSUME NEW c \in Calls, Arrive(c) \/ Call(c) \/ Worker(c) PROVE Inv'
    BY <1>1, ArriveInv, LookupInv, InsertInv, CheckInv, SendInv, PublishInv, OnDLQInv
       DEF Call, Worker
  <1>2. CASE Main
    BY <1>2, StagesInv, ClosePublisherInv, AfterCloseInv DEF Main
  <1>3. CASE UNCHANGED vars
    BY <1>3 DEF vars, Inv, TypeOK, CallsOK, StageOK, QueuesOK, PanicNeedsOverrun, Active,
                Unsettled, LateQueue
  <1> QED BY <1>1, <1>2, <1>3 DEF Next

\* The invariant holds in every reachable state.
LEMMA Invariance == Spec => []Inv
  BY InitInv, NextInv, PTL DEF Spec

\* An event in a queue when Close is done is late.
LEMMA UnsettledAfterClose ==
    ASSUME Inv, closing.pc = "done", NEW e \in Calls, Unsettled(e)
    PROVE  LateQueue(e)
  <1>1. pc[e] = "accepted"
    BY DEF Inv, CallsOK, Unsettled
  <1>2. target[e] \in Calls /\ source[e] \in Sources /\ sources[source[e]] = target[e]
    BY <1>1 DEF Inv, CallsOK, Chosen, Returned
  <1>3. qstate[target[e]] = "open"
    BY <1>2, BulkheadAssumption DEF Inv, TypeOK, QueuesOK
  <1> QED BY <1>2, <1>3, BulkheadAssumption DEF Inv, QueuesOK, LateQueue, TypeOK

\* Type correctness.
THEOREM TypeCorrect == Spec => []TypeOK
  <1>1. Inv => TypeOK BY DEF Inv
  <1> QED BY <1>1, Invariance, PTL

\* Double-checked creation never lets an event into a queue that is not in the
\* map.
THEOREM RegisteredQueuesHold == Spec => []OnlyRegisteredQueuesHold
  <1>1. Inv => OnlyRegisteredQueuesHold
    BY DEF Inv, CallsOK, OnlyRegisteredQueuesHold, Unsettled, Chosen, Returned
  <1> QED BY <1>1, Invariance, PTL

\* The Pub/Sub client is closed only after the queues are drained.
THEOREM BackendClosedLast == Spec => []BackendOutlivesQueues
  <1>1. Inv => BackendOutlivesQueues
    BY UnsettledAfterClose DEF Inv, StageOK, BackendOutlivesQueues
  <1> QED BY <1>1, Invariance, PTL

\* No accepted event is lost in a shutdown that all requests finish in time.
THEOREM ShutdownKeepsAccepted == Spec => []AcceptedSurvivesShutdown
  <1>1. ASSUME Inv, stage = "exited", NEW e \in Calls, pc[e] = "accepted"
        PROVE  fate[e] \in {"published", "saved"} \/ LateQueue(e)
    <2>1. closing.pc = "done"
      BY <1>1 DEF Inv, StageOK, AfterStop
    <2>2. fate[e] \in {"pending", "dlq", "published", "saved", "lost"}
      BY <1>1 DEF Inv, TypeOK, CallsOK, Fates
    <2>3. CASE fate[e] = "lost"
      BY <1>1, <2>3 DEF Inv, QueuesOK
    <2>4. CASE fate[e] \in {"pending", "dlq"}
      BY <1>1, <2>1, <2>4, UnsettledAfterClose DEF Unsettled
    <2> QED BY <2>2, <2>3, <2>4
  <1>2. Inv => AcceptedSurvivesShutdown
    BY <1>1 DEF AcceptedSurvivesShutdown
  <1> QED BY <1>2, Invariance, PTL

\* Only a request that outlasted srv.Shutdown can send on a closed channel.
THEOREM RetriesNeverPanic == Spec => []PanicNeedsOverrun
  <1>1. Inv => PanicNeedsOverrun BY DEF Inv
  <1> QED BY <1>1, Invariance, PTL
===============================================================================
