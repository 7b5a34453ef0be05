------------------------------- MODULE Shutdown -------------------------------
(***************************************************************************)
(* The shutdown of the gateway (cmd/server/main.go, run) around the        *)
(* bulkhead: on a signal the HTTP server stops taking requests and waits   *)
(* for those in flight, at most 10 seconds; then the deferred calls stop   *)
(* the retry scheduler, close the publisher (the queues, then the Pub/Sub  *)
(* client) and close the Postgres pool. Publish calls come from requests   *)
(* and from passes of the scheduler. A request makes one Publish call.     *)
(***************************************************************************)
EXTENDS Bulkhead

CONSTANT Retries           \* the Publish calls that the retry scheduler makes

ASSUME ShutdownAssumption == Retries \subseteq Calls

VARIABLES stage,           \* where run() is
          overrun,         \* requests were in flight when srv.Shutdown gave up
          backend,         \* whether the Pub/Sub client is open
          pool             \* whether the store of failed events can be written

vars == <<sources, qstate, pc, source, target, fate, closing, stage, overrun, backend, pool>>
env == <<stage, overrun, backend, pool>>

Stages == {"serving", "httpShutdown", "schedulerStop", "schedulerWait",
           "publisherClose", "poolClose", "telemetryShutdown", "exited"}

Active(c) == pc[c] \in InPublish

Init ==
    /\ BInit
    /\ stage = "serving"
    /\ overrun = FALSE
    /\ backend = "open"
    /\ pool = "open"

\* A request arrives while the server serves; a pass of the scheduler begins a
\* publish until Stop has cancelled its context.
Arrive(c) ==
    /\ pc[c] = "new"
    /\ IF c \in Retries THEN stage \in {"serving", "httpShutdown", "schedulerStop"}
       ELSE stage = "serving"
    /\ \E s \in Sources : source' = [source EXCEPT ![c] = s]
    /\ pc' = [pc EXCEPT ![c] = "lookup"]
    /\ UNCHANGED <<sources, qstate, target, fate, closing, env>>

\* A worker publishes an accepted event; with the client closed it can only fail.
Publish(e) ==
    /\ fate[e] = "pending"
    /\ \/ fate' = [fate EXCEPT ![e] = "dlq"]
       \/ backend = "open" /\ fate' = [fate EXCEPT ![e] = "published"]
    /\ UNCHANGED <<sources, qstate, pc, source, target, closing, env>>

\* OnDLQ saves the event; with the pool closed it is gone. The store is enabled
\* and works otherwise: its own errors are in IngestPipeline.
OnDLQ(e) ==
    /\ fate[e] = "dlq"
    /\ fate' = [fate EXCEPT ![e] = IF pool = "open" THEN "saved" ELSE "lost"]
    /\ UNCHANGED <<sources, qstate, pc, source, target, closing, env>>

\* SIGTERM, SIGINT or a server error.
Signal ==
    /\ stage = "serving"
    /\ stage' = "httpShutdown"
    /\ UNCHANGED <<bvars, overrun, backend, pool>>

\* srv.Shutdown returns: no request is in flight, or its context has ended. The
\* deduper and the Redis client are stopped, which neither queue nor store use.
HTTPStopped ==
    /\ stage = "httpShutdown"
    /\ overrun' = (\E c \in Calls \ Retries : Active(c))
    /\ stage' = "schedulerStop"
    /\ UNCHANGED <<bvars, backend, pool>>

\* retryScheduler.Stop: cancel ...
SchedulerCancel ==
    /\ stage = "schedulerStop"
    /\ stage' = "schedulerWait"
    /\ UNCHANGED <<bvars, overrun, backend, pool>>

\* Mutant of SchedulerStopped: Stop does not wait for the pass.
Mut_SchedulerStopped ==
    /\ stage = "schedulerWait"
    /\ stage' = "publisherClose"
    /\ UNCHANGED <<bvars, overrun, backend, pool>>

\* ... and wait until the pass is over (QuietAfterStop of RetryLeader).
SchedulerStopped ==
    /\ stage = "schedulerWait"
    /\ \A c \in Retries : ~Active(c)
    /\ stage' = "publisherClose"
    /\ UNCHANGED <<bvars, overrun, backend, pool>>

\* RuntimePublisher.Close, its closers in reverse: first the bulkhead.
ClosePublisher ==
    /\ stage = "publisherClose"
    /\ CloseLock \/ (\E s \in Sources : CloseQueue(s)) \/ QueueDrained \/ CloseReturn
    /\ UNCHANGED env

\* Mutant of CloseBackend: the closers run in the order they were added.
Mut_CloseBackend ==
    /\ \/ /\ stage = "publisherClose" /\ backend = "open"
          /\ backend' = "closed"
          /\ UNCHANGED stage
       \/ /\ stage = "publisherClose" /\ closing.pc = "done"
          /\ stage' = "poolClose"
          /\ UNCHANGED backend
    /\ UNCHANGED <<bvars, overrun, pool>>

\* Then the Pub/Sub client.
CloseBackend ==
    /\ stage = "publisherClose"
    /\ closing.pc = "done"
    /\ backend' = "closed"
    /\ stage' = "poolClose"
    /\ UNCHANGED <<bvars, overrun, pool>>

\* Mutant of ClosePool: the pool is closed when the publisher begins to close.
Mut_ClosePool ==
    /\ \/ /\ stage = "publisherClose" /\ pool = "open"
          /\ pool' = "closed"
          /\ UNCHANGED stage
       \/ /\ stage = "poolClose"
          /\ stage' = "telemetryShutdown"
          /\ UNCHANGED pool
    /\ UNCHANGED <<bvars, overrun, backend>>

\* pool.Close was deferred before the publisher's Close, so it runs after it.
ClosePool ==
    /\ stage = "poolClose"
    /\ pool' = "closed"
    /\ stage' = "telemetryShutdown"
    /\ UNCHANGED <<bvars, overrun, backend>>

\* telemetry.Shutdown, then run() returns and the process ends.
Exit ==
    /\ stage = "telemetryShutdown"
    /\ stage' = "exited"
    /\ UNCHANGED <<bvars, overrun, backend, pool>>

\* What run() leaves behind stops with the process.
Running   == stage # "exited"
Call(c)   == /\ Running
             /\ Lookup(c) \/ Insert(c) \/ Check(c) \/ Send(c)
             /\ UNCHANGED env
Worker(e) == Running /\ (Publish(e) \/ OnDLQ(e))
Main      == \/ Signal \/ HTTPStopped \/ SchedulerCancel \/ SchedulerStopped
             \/ ClosePublisher \/ CloseBackend \/ ClosePool \/ Exit

Next == \/ \E c \in Calls : Arrive(c) \/ Call(c) \/ Worker(c)
        \/ Main

Spec == Init /\ [][Next]_vars

\* Goroutines are scheduled, and publishes and saves return within their
\* timeouts. Nobody has to send an event or a signal; srv.Shutdown returns at
\* the latest after 10 s.
Fairness ==
    /\ \A c \in Calls : WF_vars(Call(c)) /\ WF_vars(Worker(c))
    /\ WF_vars(Main /\ stage # "serving")

FairSpec == Spec /\ Fairness

-------------------------------------------------------------------------------
(* Properties. *)

\* Every variable has its type; a queue is registered only once it is built.
TypeOK ==
    /\ sources \in [Sources -> Calls \cup {None}]
    /\ qstate \in [Calls -> {"absent", "open", "closed"}]
    /\ \A s \in Sources : sources[s] # None => qstate[sources[s]] # "absent"
    /\ pc \in [Calls -> {"new"} \cup InPublish \cup Returned]
    /\ source \in [Calls -> Sources \cup {None}]
    /\ target \in [Calls -> Calls \cup {None}]
    /\ fate \in [Calls -> Fates]
    /\ closing \in [pc : {"no", "close", "drain", "done"}, queue : Calls \cup {None}]
    /\ stage \in Stages
    /\ overrun \in BOOLEAN
    /\ backend \in {"open", "closed"}
    /\ pool \in {"open", "closed"}

\* However first events of a source race in GetOrCreateSource, all events of a
\* source go through the one registered queue, which Close finds: a queue that
\* lost the race never holds an event.
OnlyRegisteredQueuesHold ==
    \A e \in Calls : Unsettled(e) => sources[source[e]] = target[e]

\* The event was accepted after b.Close had gone through the map: by a request
\* that outlasted srv.Shutdown, in a queue that the request itself or another
\* one created after Close.
LateQueue(e) == overrun /\ closing.pc = "done" /\ qstate[target[e]] = "open"

\* While the Pub/Sub client is closed, only such late events are unsettled: the
\* queues are drained into an open backend.
BackendOutlivesQueues ==
    backend = "closed" => \A e \in Calls : Unsettled(e) => LateQueue(e)

\* At the end of the process every event whose Publish returned nil is published
\* or saved, except late ones; none at all is lost if all requests ended in time.
AcceptedSurvivesShutdown ==
    stage = "exited" => \A e \in Calls :
        pc[e] = "accepted" => fate[e] \in {"published", "saved"} \/ LateQueue(e)

\* A Publish call panics on a closed channel only if requests outlasted
\* srv.Shutdown: retries of the scheduler never do.
PanicNeedsOverrun ==
    \A c \in Calls : pc[c] = "panic" => overrun /\ c \notin Retries

\* A shutdown ends, with calls waiting for b.mu and queues to drain.
ShutdownCompletes == stage = "httpShutdown" ~> stage = "exited"
===============================================================================
