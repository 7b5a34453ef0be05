---------------------------- MODULE IngestPipeline ----------------------------
(***************************************************************************)
(* The way of a webhook event through the gateway: the handler that        *)
(* deduplicates and enqueues it (handlers/webhooks.go, publishAndAck), the *)
(* workers of the publisher and its OnDLQ hook (queue/async_publisher.go,  *)
(* cmd/server/main.go), the store of failed events, and the retry          *)
(* scheduler (retry/scheduler.go). A provider may deliver an event several *)
(* times, also concurrently.                                               *)
(*                                                                         *)
(* The publisher is the queue of EventQueue and AsyncPublisher: whether    *)
(* Publish refuses an event is left open (backpressure and breaker are     *)
(* modelled there), and it refuses when the buffer is full. It panics when *)
(* its channel is closed under it, which only a request that srv.Shutdown  *)
(* did not wait for can meet (PanicNeedsOverrun of Shutdown). The end of a *)
(* process, with what it has in memory, is outside.                        *)
(***************************************************************************)
EXTENDS FailStore

CONSTANTS Deliveries,      \* how often the provider may send each event
          Workers,
          None,            \* no event
          Buffer,          \* cap of the queue
          Retrying,        \* whether the retry scheduler runs
          MaxRetries,      \* RETRY_MAX_RETRIES
          ListLimit,       \* the limit processRetries lists with
          NotJSON,         \* events whose body is not JSON (a form-encoded delivery)
          Overrun,         \* events a request may still bring when its publisher is closed
          DeadlinesPass,   \* whether an event can wait past its request's deadline
          StoreErrors,     \* whether operations of the store can fail otherwise
          DedupErrors,     \* whether calls to Redis can fail, or run() has stopped the deduper
          MaxAttempts      \* bound: attempts of the scheduler per event

ASSUME PipelineAssumption ==
    /\ None \notin Events
    /\ Deliveries \in Nat
    /\ Buffer \in Nat \ {0}
    /\ Retrying \in BOOLEAN
    /\ MaxRetries \in Nat \ {0}
    /\ ListLimit \in Nat \ {0}
    /\ NotJSON \subseteq Events
    /\ Overrun \subseteq Events
    /\ DeadlinesPass \in BOOLEAN
    /\ StoreErrors \in BOOLEAN
    /\ DedupErrors \in BOOLEAN
    /\ MaxAttempts \in Nat

VARIABLES seen,            \* the keys the deduper holds
          stale,           \* those of them left behind: by a failed Forget, or because
                           \* Publish panicked before Forget was called
          req,             \* where each request is in publishAndAck, or its answer
          queue,           \* the events in the publisher's channel
          worker,          \* what each worker is doing, with which event
          recs,            \* the failed-event store
          sched,           \* the scheduler: its step and the records it still has to visit
          acked,           \* events some request was answered 202 for
          delivered,       \* events the backend has received
          attempts         \* scheduler publishes per event

vars == <<seen, stale, req, queue, worker, recs, sched, acked, delivered, attempts>>

Requests == Events \X (1..Deliveries)
InHandler == {"publish", "forget", "persist"}
Free == [pc |-> "free", ev |-> None]
Resting == [pc |-> "idle", todo |-> <<>>]

\* What Save leaves in the store. The file takes only JSON bodies; a query of the
\* table fails at once when the context it is given has expired. Both callers
\* only log the error.
SaveRefused(ev) == Backend = "file" /\ ev \in NotJSON
SaveMayFail     == StoreErrors \/ (Backend = "postgres" /\ DeadlinesPass)

SaveOutcomes(ev) ==
    (IF SaveRefused(ev) THEN {} ELSE {Save(recs, ev)})
    \cup (IF SaveRefused(ev) \/ SaveMayFail THEN {recs} ELSE {})

Init ==
    /\ seen = {}
    /\ stale = {}
    /\ req = [r \in Requests |-> "new"]
    /\ queue = <<>>
    /\ worker = [w \in Workers |-> Free]
    /\ recs = <<>>
    /\ sched = Resting
    /\ acked = {}
    /\ delivered = {}
    /\ attempts = [ev \in Events |-> 0]

-------------------------------------------------------------------------------
(* The webhook handler, one request <<ev, n>>. *)

\* deduper.Seen: a known key is answered 202 at once, a new one is marked. An error
\* of Redis lets the event pass, and Redis may have set the key.
HandleSeen(r) ==
    /\ req[r] = "new"
    /\ \/ /\ r[1] \in seen
          /\ req' = [req EXCEPT ![r] = "202"]
          /\ acked' = acked \cup {r[1]}
          /\ UNCHANGED seen
       \/ /\ r[1] \notin seen \/ DedupErrors
          /\ req' = [req EXCEPT ![r] = "publish"]
          /\ seen' \in {seen \cup {r[1]}} \cup (IF DedupErrors THEN {seen} ELSE {})
          /\ UNCHANGED acked
    /\ UNCHANGED <<stale, queue, worker, recs, sched, delivered, attempts>>

\* Publish returns nil and the handler answers 202.
HandleAccepted(r) ==
    /\ req[r] = "publish"
    /\ Len(queue) < Buffer
    /\ queue' = Append(queue, r[1])
    /\ req' = [req EXCEPT ![r] = "202"]
    /\ acked' = acked \cup {r[1]}
    /\ UNCHANGED <<seen, stale, worker, recs, sched, delivered, attempts>>

\* Publish returns an error (full, throttled or closed).
HandleRefused(r) ==
    /\ req[r] = "publish"
    /\ req' = [req EXCEPT ![r] = "forget"]
    /\ UNCHANGED <<seen, stale, queue, worker, recs, sched, acked, delivered, attempts>>

\* Publish sends on the closed channel: the panic leaves publishAndAck, before Forget
\* and Save, and Recoverer answers 500. A key of the event stays.
HandlePanics(r) ==
    /\ r[1] \in Overrun
    /\ req[r] = "publish"
    /\ req' = [req EXCEPT ![r] = "5xx"]
    /\ stale' = stale \cup ({r[1]} \cap seen)
    /\ UNCHANGED <<seen, queue, worker, recs, sched, acked, delivered, attempts>>

\* deduper.Forget: the key goes. The error of a DEL is dropped, a stopped deduper
\* does nothing: the key stays.
Forget(ev) == \/ seen' = seen \ {ev} /\ stale' = stale \ {ev}
              \/ DedupErrors /\ stale' = stale \cup ({ev} \cap seen) /\ UNCHANGED seen

\* forgetDedupKey
HandleForget(r) ==
    /\ req[r] = "forget"
    /\ Forget(r[1])
    /\ req' = [req EXCEPT ![r] = "persist"]
    /\ UNCHANGED <<queue, worker, recs, sched, acked, delivered, attempts>>

\* Mutant of HandlePersist: an event the provider was told to resend is not stored.
Mut_HandlePersist(r) ==
    /\ req[r] = "persist"
    /\ req' = [req EXCEPT ![r] = "5xx"]
    /\ UNCHANGED <<seen, stale, queue, worker, recs, sched, acked, delivered, attempts>>

\* persistFailedEvent under the request's own context, then the error response
\* (429, 500 or 503).
HandlePersist(r) ==
    /\ req[r] = "persist"
    /\ recs' \in SaveOutcomes(r[1])
    /\ req' = [req EXCEPT ![r] = "5xx"]
    /\ UNCHANGED <<seen, stale, queue, worker, sched, acked, delivered, attempts>>

\* A key's TTL passes.
Expire(ev) ==
    /\ ev \in seen
    /\ seen' = seen \ {ev}
    /\ stale' = stale \ {ev}
    /\ UNCHANGED <<req, queue, worker, recs, sched, acked, delivered, attempts>>

-------------------------------------------------------------------------------
(* The workers of the publisher. *)

Receive(w) ==
    /\ worker[w] = Free
    /\ queue # <<>>
    /\ worker' = [worker EXCEPT ![w] = [pc |-> "publish", ev |-> Head(queue)]]
    /\ queue' = Tail(queue)
    /\ UNCHANGED <<seen, stale, req, recs, sched, acked, delivered, attempts>>

\* safePublish: the envelope of a body that is not JSON cannot be marshalled.
PublishOK(w) ==
    /\ worker[w].pc = "publish"
    /\ worker[w].ev \notin NotJSON
    /\ delivered' = delivered \cup {worker[w].ev}
    /\ worker' = [worker EXCEPT ![w] = Free]
    /\ UNCHANGED <<seen, stale, req, queue, recs, sched, acked, attempts>>

\* An error, also one for an event the backend has received: the answer of
\* Pub/Sub can come after the timeout.
PublishFails(w) ==
    /\ worker[w].pc = "publish"
    /\ delivered' \in {delivered} \cup
                      (IF worker[w].ev \in NotJSON THEN {}
                       ELSE {delivered \cup {worker[w].ev}})
    /\ worker' = [worker EXCEPT ![w].pc = "dlqForget"]
    /\ UNCHANGED <<seen, stale, req, queue, recs, sched, acked, attempts>>

\* Mutant of DLQForget: the hook leaves the key with the deduper.
Mut_DLQForget(w) ==
    /\ worker[w].pc = "dlqForget"
    /\ worker' = [worker EXCEPT ![w].pc = "dlqSave"]
    /\ UNCHANGED <<seen, stale, req, queue, recs, sched, acked, delivered, attempts>>

\* The OnDLQ hook: Forget, then Save under a context derived from the event's
\* deadline.
DLQForget(w) ==
    /\ worker[w].pc = "dlqForget"
    /\ Forget(worker[w].ev)
    /\ worker' = [worker EXCEPT ![w].pc = "dlqSave"]
    /\ UNCHANGED <<req, queue, recs, sched, acked, delivered, attempts>>

DLQSave(w) ==
    /\ worker[w].pc = "dlqSave"
    /\ recs' \in SaveOutcomes(worker[w].ev)
    /\ worker' = [worker EXCEPT ![w] = Free]
    /\ UNCHANGED <<seen, stale, req, queue, sched, acked, delivered, attempts>>

-------------------------------------------------------------------------------
(* The retry scheduler: one pass visits the records listed at its start. *)

Visiting == Head(sched.todo)
NextVisit == LET rest == Tail(sched.todo)
             IN  IF rest = <<>> THEN Resting ELSE [pc |-> "visit", todo |-> rest]

\* A tick of the interval: processRetries lists the newest records.
SchedList ==
    /\ Retrying
    /\ sched.pc = "idle"
    /\ recs # <<>>
    /\ sched' = [pc |-> "visit", todo |-> ListRecent(recs, ListLimit)]
    /\ UNCHANGED <<seen, stale, req, queue, worker, recs, acked, delivered, attempts>>

\* An event with MaxRetries is deleted.
SchedExhausted ==
    /\ sched.pc = "visit"
    /\ Visiting.retries >= MaxRetries
    /\ recs' = Delete(recs, Visiting.ev)
    /\ sched' = NextVisit
    /\ UNCHANGED <<seen, stale, req, queue, worker, acked, delivered, attempts>>

\* An error of Delete or UpdateRetryCount is only logged.
SchedStoreError ==
    /\ StoreErrors
    /\ \/ sched.pc \in {"delete", "update"}
       \/ sched.pc = "visit" /\ Visiting.retries >= MaxRetries
    /\ sched' = NextVisit
    /\ UNCHANGED <<seen, stale, req, queue, worker, recs, acked, delivered, attempts>>

\* Its backoff has not passed yet, or the 30 s of this pass are over.
SchedSkip ==
    /\ sched.pc = "visit"
    /\ sched' \in (IF Visiting.retries < MaxRetries THEN {NextVisit} ELSE {}) \cup {Resting}
    /\ UNCHANGED <<seen, stale, req, queue, worker, recs, acked, delivered, attempts>>

\* retryEvent: Publish enqueues the event, or returns an error.
SchedPublish ==
    /\ sched.pc = "visit"
    /\ Visiting.retries < MaxRetries
    /\ attempts[Visiting.ev] < MaxAttempts
    /\ attempts' = [attempts EXCEPT ![Visiting.ev] = @ + 1]
    /\ \/ /\ Len(queue) < Buffer
          /\ queue' = Append(queue, Visiting.ev)
          /\ sched' = [sched EXCEPT !.pc = "delete"]
       \/ /\ sched' = [sched EXCEPT !.pc = "update"]
          /\ UNCHANGED queue
    /\ UNCHANGED <<seen, stale, req, worker, recs, acked, delivered>>

\* An enqueued event counts as retried: its records are deleted.
SchedDelete ==
    /\ sched.pc = "delete"
    /\ recs' = Delete(recs, Visiting.ev)
    /\ sched' = NextVisit
    /\ UNCHANGED <<seen, stale, req, queue, worker, acked, delivered, attempts>>

\* Mutant of SchedUpdate: the records go although Publish returned an error.
Mut_SchedUpdate ==
    /\ sched.pc = "update"
    /\ recs' = Delete(recs, Visiting.ev)
    /\ sched' = NextVisit
    /\ UNCHANGED <<seen, stale, req, queue, worker, acked, delivered, attempts>>

\* A refused event gets the next retry count.
SchedUpdate ==
    /\ sched.pc = "update"
    /\ recs' = UpdateRetryCount(recs, Visiting.ev, Visiting.retries + 1)
    /\ sched' = NextVisit
    /\ UNCHANGED <<seen, stale, req, queue, worker, acked, delivered, attempts>>

Handler(r) == \/ HandleSeen(r) \/ HandleAccepted(r) \/ HandleRefused(r)
              \/ HandlePanics(r) \/ HandleForget(r) \/ HandlePersist(r)
Worker(w)  == \/ Receive(w) \/ PublishOK(w) \/ PublishFails(w)
              \/ DLQForget(w) \/ DLQSave(w)
Scheduler  == \/ SchedList \/ SchedExhausted \/ SchedSkip
              \/ SchedPublish \/ SchedDelete \/ SchedUpdate \/ SchedStoreError

Next == \/ \E r \in Requests : Handler(r)
        \/ \E ev \in Events : Expire(ev)
        \/ \E w \in Workers : Worker(w)
        \/ Scheduler

Spec == Init /\ [][Next]_vars

-------------------------------------------------------------------------------
(* Properties. *)

\* Somebody will still deliver or store the event: a request in its handler, the
\* queue, a worker, or the failed-event store.
HeldSomewhere(ev) ==
    \/ \E r \in Requests : r[1] = ev /\ req[r] \in InHandler
    \/ \E i \in DOMAIN queue : queue[i] = ev
    \/ \E w \in Workers : worker[w].pc # "free" /\ worker[w].ev = ev
    \/ Has(recs, ev)

Accounted(ev) == ev \in delivered \/ HeldSomewhere(ev)

\* What has become of an event, and whether the configuration can lose it.
Fate(ev) == IF ev \in delivered THEN "delivered"
            ELSE IF HeldSomewhere(ev) THEN "held" ELSE "unknown"

MayLose(ev) == Retrying \/ ev \in Overrun \/ SaveRefused(ev) \/ SaveMayFail

Promise == INSTANCE IngestPromise
           WITH Lossy    <- {ev \in Events : MayLose(ev)},
                fate     <- [ev \in Events |-> Fate(ev)],
                promised <- acked

\* An event that any request was answered 202 for, as original or as duplicate, is
\* delivered or held by somebody: the duplicate's 202 does not depend on an original
\* that then fails without a trace. No event has MaxRetries in the run.
NoEventLost == \A ev \in acked : Accounted(ev)

\* The pipeline keeps the promise of IngestPromise: step by step an event is taken,
\* delivered or dropped, one at a time, and a 202 is for an event that somebody has.
\* Without the scheduler an event whose body the store takes, from a store that works,
\* is never dropped, and the 202 of a duplicate is true, also when calls to Redis fail
\* and other events are in a Publish that panics.
KeepsPromise == Promise!Spec

\* A Save of the event, by its handler or by OnDLQ, fails and is only logged.
SaveFailed(ev) ==
    /\ SaveRefused(ev) \/ SaveMayFail
    /\ recs' = recs
    /\ \/ \E r \in Requests : r[1] = ev /\ HandlePersist(r)
       \/ \E w \in Workers : worker[w].ev = ev /\ DLQSave(w)

\* The scheduler deletes the records of the event, because it has enqueued it or
\* because it gives it up.
Discarded(ev) == (SchedDelete \/ SchedExhausted) /\ Visiting.ev = ev

\* A request of the event is in the Publish that panics.
Panicked(ev) == \E r \in Requests : r[1] = ev /\ HandlePanics(r)

\* A redelivery of the event is answered 202 for a key that was left behind.
StaleAnswer(ev) ==
    ev \in stale /\ \E r \in Requests : r[1] = ev /\ HandleSeen(r) /\ req'[r] = "202"

\* With any store and deduper, with errors, with the scheduler and with requests that
\* outlast srv.Shutdown, an acknowledged event stops being delivered or held in four
\* ways only: its Save fails; the scheduler takes it for retried, or gives it up, and
\* deletes its records; its Publish panics; or its 202 is for a key that a failed
\* Forget or such a panic has left. No other step of anybody loses one while the
\* processes run, whichever steps of others come between.
LossesNamed ==
    [][\A ev \in acked' :
          \/ Accounted(ev)' \/ (ev \in acked /\ ~Accounted(ev))
          \/ SaveFailed(ev) \/ Discarded(ev) \/ Panicked(ev) \/ StaleAnswer(ev)]_vars

\* A key the deduper holds belongs to an event that is delivered or held, or it was
\* left behind by a failed Forget or by a Publish that panicked, also when keys expire,
\* Save fails, Seen fails with the key set or not, and the scheduler retries: but for
\* such a key a redelivery is swallowed only if the event does not need it.
MarkedIsHeld == \A ev \in seen \ stale : Accounted(ev)
===============================================================================
