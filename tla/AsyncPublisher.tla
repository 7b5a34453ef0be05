---------------------------- MODULE AsyncPublisher ----------------------------
(***************************************************************************)
(* The asynchronous publisher of the ingestion gateway                     *)
(* (internal/queue/async_publisher.go): HTTP handlers call Publish, which  *)
(* puts the event on a bounded channel without blocking; WorkerCount       *)
(* goroutines take events off the channel, hand them to the wrapped        *)
(* publisher and to the OnDLQ hook when that fails; Close closes the       *)
(* channel and waits for the workers.                                      *)
(*                                                                         *)
(* A step is what one goroutine does between two points where another can  *)
(* run: Publish has two, because it releases p.mu before the send.         *)
(***************************************************************************)
EXTENDS Integers, Sequences, FiniteSets

CONSTANTS Events,          \* the calls of Publish, each with the event it carries
          Workers,         \* the goroutines running run()
          Closers,         \* the goroutines that call Close
          None,            \* no event
          Buffer,          \* cap(p.ch)
          Enabled,         \* Backpressure.Enabled
          SoftLimit,       \* Backpressure.SoftLimitRatio, in percent
          HardLimit,       \* Backpressure.HardLimitRatio, in percent
          Budget,          \* Backpressure.FailureRatioThreshold, in percent
          FailureWindow,   \* Backpressure.FailureWindow
          MinSamples       \* Backpressure.MinSamples

\* What Config.Validate and withDefaults leave.
ASSUME OptionsAssumption ==
    /\ Workers # {}
    /\ None \notin Events
    /\ Buffer \in Nat \ {0}
    /\ Enabled \in BOOLEAN
    /\ SoftLimit \in 1..99
    /\ HardLimit \in 1..100
    /\ SoftLimit < HardLimit
    /\ Budget \in 1..100
    /\ FailureWindow \in Nat \ {0}
    /\ MinSamples \in 1..FailureWindow

VARIABLES ch,              \* the events in the channel, oldest first
          closed,          \* p.closed; the channel is closed in the same critical section
          pub,             \* where each Publish call is, or what it returned
          closer,          \* where each Close call is
          wpc,             \* where each worker is in its loop
          cur,             \* the event each worker is processing
          stats,           \* p.publishStats
          settled,         \* what became of an accepted event
          history          \* every result recorded, oldest first

vars == <<ch, closed, pub, closer, wpc, cur, stats, settled, history>>

PubStates == {"start", "admitted", "accepted",
              "ErrQueueClosed", "ErrQueueFull", "ErrQueueThrottled", "panic"}
Outcomes  == {"no", "published", "deadLettered", "hookPanicked"}
Busy      == {"publish", "recordOK", "recordErr", "dlq"}

-------------------------------------------------------------------------------
(* The ring of recent results (type publishWindow). *)

newPublishWindow ==
    [results |-> [i \in 0..(FailureWindow - 1) |-> FALSE],
     next |-> 0, count |-> 0, failures |-> 0]

\* Mutant of record: a full ring evicts its newest result.
Mut_recordEvictsNewest(w, success) ==
    LET full == w.count = FailureWindow
        slot == IF full THEN (w.next + FailureWindow - 1) % FailureWindow ELSE w.next
    IN  [results  |-> [w.results EXCEPT ![slot] = success],
         next     |-> (slot + 1) % FailureWindow,
         count    |-> IF full THEN w.count ELSE w.count + 1,
         failures |-> w.failures - (IF full /\ ~w.results[slot] THEN 1 ELSE 0)
                                 + (IF success THEN 0 ELSE 1)]

record(w, success) ==
    LET full    == w.count = FailureWindow
        evicted == IF full /\ ~w.results[w.next] THEN 1 ELSE 0
        added   == IF success THEN 0 ELSE 1
    IN  [results  |-> [w.results EXCEPT ![w.next] = success],
         next     |-> (w.next + 1) % FailureWindow,
         count    |-> IF full THEN w.count ELSE w.count + 1,
         failures |-> w.failures - evicted + added]

(* Backpressure. Ratios are fractions of integers, compared by cross        *)
(* multiplication: UsageRatio is depth / Buffer and FailureRatio            *)
(* failures / count (0 when nothing was recorded).                          *)

UsageAtLeast(depth, percent)  == 100 * depth >= percent * Buffer
UsageAbove(depth, percent)    == 100 * depth > percent * Buffer
FailuresAtLeast(w, percent)   == w.count > 0 /\ 100 * w.failures >= percent * w.count
FailuresAbove(w, percent)     == w.count > 0 /\ 100 * w.failures > percent * w.count

isHardLimited(depth) == Enabled /\ UsageAtLeast(depth, HardLimit)

\* usagePressure + failurePressure >= 1, where
\*   usagePressure   = (usage - soft) / (hard - soft),       clamped to 0..1
\*   failurePressure = (failureRatio - budget) / (1 - budget), clamped to 0..1,
\* multiplied by both denominators, Buffer and count.
pressureReached(depth, w) ==
    LET up    == (100 * depth - SoftLimit * Buffer) * (100 - Budget) * w.count
        down  == (100 * w.failures - Budget * w.count) * (HardLimit - SoftLimit) * Buffer
        whole == (HardLimit - SoftLimit) * (100 - Budget) * Buffer * w.count
    IN  UsageAtLeast(depth, HardLimit) \/ up + down >= whole

shouldThrottle(depth, w) ==
    /\ Enabled
    /\ UsageAbove(depth, SoftLimit)
    /\ w.count >= MinSamples
    /\ FailuresAtLeast(w, Budget)
    /\ pressureReached(depth, w)

\* Mutant of HealthCheck: one sample more than MinSamples is asked for.
Mut_HealthCheck ==
    IF closed THEN "closed"
    ELSE IF UsageAtLeast(Len(ch), HardLimit) THEN "usage critical"
    ELSE IF FailuresAbove(stats, Budget) /\ stats.count > MinSamples
         THEN "failure ratio high"
    ELSE "ok"

\* HealthCheck, the readiness probe of the queue: no state changes.
HealthCheck ==
    IF closed THEN "closed"
    ELSE IF UsageAtLeast(Len(ch), HardLimit) THEN "usage critical"
    ELSE IF FailuresAbove(stats, Budget) /\ stats.count >= MinSamples
         THEN "failure ratio high"
    ELSE "ok"

-------------------------------------------------------------------------------
Init ==
    /\ ch = <<>>
    /\ closed = FALSE
    /\ pub = [e \in Events |-> "start"]
    /\ closer = [k \in Closers |-> "idle"]
    /\ wpc = [w \in Workers |-> "receive"]
    /\ cur = [w \in Workers |-> None]
    /\ stats = newPublishWindow
    /\ settled = [e \in Events |-> "no"]
    /\ history = <<>>

\* Publish up to the send: under p.mu it sees whether the publisher is closed
\* and takes a snapshot; the limits are judged on that snapshot.
PublishCheck(e) ==
    /\ pub[e] = "start"
    /\ pub' = [pub EXCEPT ![e] =
                 IF closed THEN "ErrQueueClosed"
                 ELSE IF isHardLimited(Len(ch)) THEN "ErrQueueFull"
                 ELSE IF shouldThrottle(Len(ch), stats) THEN "ErrQueueThrottled"
                 ELSE "admitted"]
    /\ UNCHANGED <<ch, closed, closer, wpc, cur, stats, settled, history>>

\* Mutant of PublishSend: the default case of the select reports success.
Mut_PublishSendDrops(e) ==
    /\ pub[e] = "admitted"
    /\ ~closed
    /\ ch' = IF Len(ch) < Buffer THEN Append(ch, e) ELSE ch
    /\ pub' = [pub EXCEPT ![e] = "accepted"]
    /\ UNCHANGED <<closed, closer, wpc, cur, stats, settled, history>>

\* Mutant of PublishSend: Close leaves the channel open for late senders.
Mut_PublishSendLate(e) ==
    /\ pub[e] = "admitted"
    /\ Len(ch) < Buffer
    /\ ch' = Append(ch, e)
    /\ pub' = [pub EXCEPT ![e] = "accepted"]
    /\ UNCHANGED <<closed, closer, wpc, cur, stats, settled, history>>

\* The select: p.mu is no longer held. A send on a closed channel panics, also
\* as a select case with a default.
PublishSend(e) ==
    /\ pub[e] = "admitted"
    /\ \/ /\ closed
          /\ pub' = [pub EXCEPT ![e] = "panic"]
          /\ UNCHANGED ch
       \/ /\ ~closed
          /\ Len(ch) < Buffer
          /\ ch' = Append(ch, e)
          /\ pub' = [pub EXCEPT ![e] = "accepted"]
       \/ /\ ~closed
          /\ Len(ch) >= Buffer
          /\ pub' = [pub EXCEPT ![e] = "ErrQueueFull"]
          /\ UNCHANGED ch
    /\ UNCHANGED <<closed, closer, wpc, cur, stats, settled, history>>

\* Close: once.Do marks the publisher closed and closes the channel ...
CloseBegin(k) ==
    /\ closer[k] = "idle"
    /\ closed' = TRUE
    /\ closer' = [closer EXCEPT ![k] = "waiting"]
    /\ UNCHANGED <<ch, pub, wpc, cur, stats, settled, history>>

\* Mutant of CloseReturn: one of two concurrent Close calls takes the signal.
Mut_CloseReturn(k) ==
    /\ closer[k] = "waiting"
    /\ \A w \in Workers : wpc[w] = "exited"
    /\ \A j \in Closers \ {k} : closer[j] # "waiting"
    /\ closer' = [closer EXCEPT ![k] = "returned"]
    /\ UNCHANGED <<ch, closed, pub, wpc, cur, stats, settled, history>>

\* ... and wg.Wait returns when every worker has left its loop.
CloseReturn(k) ==
    /\ closer[k] = "waiting"
    /\ \A w \in Workers : wpc[w] = "exited"
    /\ closer' = [closer EXCEPT ![k] = "returned"]
    /\ UNCHANGED <<ch, closed, pub, wpc, cur, stats, settled, history>>

\* Mutant of Receive: the event is read but left in the channel.
Mut_Receive(w) ==
    /\ wpc[w] = "receive"
    /\ ch # <<>>
    /\ cur' = [cur EXCEPT ![w] = Head(ch)]
    /\ wpc' = [wpc EXCEPT ![w] = "publish"]
    /\ UNCHANGED <<ch, closed, pub, closer, stats, settled, history>>

\* run: the range loop takes the oldest event ...
Receive(w) ==
    /\ wpc[w] = "receive"
    /\ ch # <<>>
    /\ cur' = [cur EXCEPT ![w] = Head(ch)]
    /\ ch' = Tail(ch)
    /\ wpc' = [wpc EXCEPT ![w] = "publish"]
    /\ UNCHANGED <<closed, pub, closer, stats, settled, history>>

\* Mutant of Exit: a worker leaves as soon as the publisher is closed.
Mut_Exit(w) ==
    /\ wpc[w] = "receive"
    /\ closed
    /\ wpc' = [wpc EXCEPT ![w] = "exited"]
    /\ UNCHANGED <<ch, closed, pub, closer, cur, stats, settled, history>>

\* ... and ends when the channel is closed and empty (deferred wg.Done).
Exit(w) ==
    /\ wpc[w] = "receive"
    /\ closed
    /\ ch = <<>>
    /\ wpc' = [wpc EXCEPT ![w] = "exited"]
    /\ UNCHANGED <<ch, closed, pub, closer, cur, stats, settled, history>>

\* safePublish: the wrapped Publish returns nil, or an error, or panics, which
\* becomes an error.
safePublish(w) ==
    /\ wpc[w] = "publish"
    /\ \E result \in {"recordOK", "recordErr"} :
          wpc' = [wpc EXCEPT ![w] = result]
    /\ UNCHANGED <<ch, closed, pub, closer, cur, stats, settled, history>>

\* recordPublishResult; a success ends processQueuedEvent here.
RecordSuccess(w) ==
    /\ wpc[w] = "recordOK"
    /\ stats' = record(stats, TRUE)
    /\ history' = Append(history, TRUE)
    /\ settled' = [settled EXCEPT ![cur[w]] = "published"]
    /\ wpc' = [wpc EXCEPT ![w] = "receive"]
    /\ cur' = [cur EXCEPT ![w] = None]
    /\ UNCHANGED <<ch, closed, pub, closer>>

RecordFailure(w) ==
    /\ wpc[w] = "recordErr"
    /\ stats' = record(stats, FALSE)
    /\ history' = Append(history, FALSE)
    /\ wpc' = [wpc EXCEPT ![w] = "dlq"]
    /\ UNCHANGED <<ch, closed, pub, closer, cur, settled>>

\* Mutant of OnDLQ: without run's recover a panic in the hook ends the worker.
Mut_OnDLQ(w) ==
    /\ wpc[w] = "dlq"
    /\ \E result \in {"deadLettered", "hookPanicked"} :
          /\ settled' = [settled EXCEPT ![cur[w]] = result]
          /\ wpc' = [wpc EXCEPT ![w] = IF result = "hookPanicked" THEN "exited" ELSE "receive"]
    /\ cur' = [cur EXCEPT ![w] = None]
    /\ UNCHANGED <<ch, closed, pub, closer, stats, history>>

\* The OnDLQ hook returns, or panics and run's recover resumes the loop.
OnDLQ(w) ==
    /\ wpc[w] = "dlq"
    /\ \E result \in {"deadLettered", "hookPanicked"} :
          settled' = [settled EXCEPT ![cur[w]] = result]
    /\ wpc' = [wpc EXCEPT ![w] = "receive"]
    /\ cur' = [cur EXCEPT ![w] = None]
    /\ UNCHANGED <<ch, closed, pub, closer, stats, history>>

Publisher(e) == PublishCheck(e) \/ PublishSend(e)
Closer(k)    == CloseBegin(k) \/ CloseReturn(k)
Worker(w)    == \/ Receive(w) \/ Exit(w) \/ safePublish(w)
                \/ RecordSuccess(w) \/ RecordFailure(w) \/ OnDLQ(w)

Next == \/ \E e \in Events : Publisher(e)
        \/ \E k \in Closers : Closer(k)
        \/ \E w \in Workers : Worker(w)

Spec == Init /\ [][Next]_vars

\* Goroutines are scheduled: a worker that can move does (the wrapped Publish
\* returns within its 30 s context, and OnDLQ within its own 5 s context), a
\* Publish call that was admitted reaches its send, and wg.Wait returns once
\* it can. Nobody has to call Publish or Close.
Fairness == /\ \A w \in Workers : WF_vars(Worker(w))
            /\ \A e \in Events : WF_vars(PublishSend(e))
            /\ \A k \in Closers : WF_vars(CloseReturn(k))

FairSpec == Spec /\ Fairness

-------------------------------------------------------------------------------
(* Properties. *)

\* Every variable has its type: the channel never holds more than Buffer events
\* and the counters of publishWindow stay in range (a failures counter that was
\* decremented once too often would be negative).
TypeOK ==
    /\ ch \in Seq(Events)
    /\ Len(ch) <= Buffer
    /\ closed \in BOOLEAN
    /\ pub \in [Events -> PubStates]
    /\ closer \in [Closers -> {"idle", "waiting", "returned"}]
    /\ wpc \in [Workers -> Busy \cup {"receive", "exited"}]
    /\ cur \in [Workers -> Events \cup {None}]
    /\ stats.results \in [0..(FailureWindow - 1) -> BOOLEAN]
    /\ stats.next \in 0..(FailureWindow - 1)
    /\ stats.count \in 0..FailureWindow
    /\ stats.failures \in 0..FailureWindow
    /\ settled \in [Events -> Outcomes]
    /\ history \in Seq(BOOLEAN)

Queued(e)   == \E i \in DOMAIN ch : ch[i] = e
HeldBy(w,e) == wpc[w] \in Busy /\ cur[w] = e
Held(e)     == \E w \in Workers : HeldBy(w, e)

\* An event whose Publish returned nil is in the channel, or with a worker, or
\* settled (delivered to the wrapped publisher or given to OnDLQ): no order of
\* sends, receives, panics and Close loses one.
NoAcceptedEventLost ==
    \A e \in Events : pub[e] = "accepted" /\ settled[e] = "no" => Queued(e) \/ Held(e)

\* Nothing is processed twice or unasked: the events in the channel and with
\* the workers are all different, their Publish returned nil, and none of them
\* is settled yet; an event that was refused or not sent yet is never settled.
NoEventProcessedTwice ==
    /\ \A e \in Events : settled[e] # "no" => pub[e] = "accepted"
    /\ \A i \in DOMAIN ch : pub[ch[i]] = "accepted" /\ settled[ch[i]] = "no"
    /\ \A i, j \in DOMAIN ch : i # j => ch[i] # ch[j]
    /\ \A w \in Workers : wpc[w] \in Busy =>
          /\ cur[w] \in Events
          /\ pub[cur[w]] = "accepted"
          /\ settled[cur[w]] = "no"
          /\ ~Queued(cur[w])
    /\ \A v, w \in Workers :
          v # w /\ wpc[v] \in Busy /\ wpc[w] \in Busy => cur[v] # cur[w]

\* When any Close call has returned, every event whose Publish returned nil has
\* been settled, so the shutdown sequence may close the backend and the pool.
DrainedOnClose ==
    (\E k \in Closers : closer[k] = "returned")
        => \A e \in Events : pub[e] = "accepted" => settled[e] # "no"

\* publishWindow counts exactly the failures among the last FailureWindow
\* results recorded, whatever order the workers record them in; the failure
\* ratio that Publish throttles on is the ratio of that window.
WindowMatchesHistory ==
    LET n == Len(history)
        recent == {k \in 1..n : k > n - FailureWindow}
    IN  /\ stats.count = Cardinality(recent)
        /\ stats.failures = Cardinality({k \in recent : ~history[k]})

\* The counters of publishWindow agree with its ring: failures is the number of
\* failed results in the slots in use, and the ring fills from slot 0.
WindowConsistent ==
    /\ stats.failures = Cardinality({i \in 0..(stats.count - 1) : ~stats.results[i]})
    /\ stats.count < FailureWindow => stats.next = stats.count

\* A passing HealthCheck means that a Publish at that moment is not refused by
\* backpressure: the two read the same limits with different comparisons
\* (>= and > on the failure ratio), and the pressure sum closes the gap. It
\* needs a budget below 100%: at QUEUE_FAILURE_BUDGET_PERCENT=100 HealthCheck can
\* never report the failure ratio and Publish still throttles on it.
HealthyAdmits ==
    Budget < 100 /\ HealthCheck = "ok" =>
        /\ ~isHardLimited(Len(ch))
        /\ ~shouldThrottle(Len(ch), stats)

\* Every event whose Publish returned nil is eventually settled, also when the
\* wrapped publisher fails, when OnDLQ panics and when Close comes first.
AcceptedSettles == \A e \in Events : pub[e] = "accepted" ~> settled[e] # "no"

\* Every Close call eventually returns.
CloseReturns == \A k \in Closers : closer[k] = "waiting" ~> closer[k] = "returned"

-------------------------------------------------------------------------------
(* The publisher implements the abstract queue. *)

QueuePhase ==
    IF \E k \in Closers : closer[k] = "returned" THEN "closed"
    ELSE IF closed THEN "closing"
    ELSE "open"

QueueStatus ==
    [e \in Events |->
        CASE pub[e] \in {"start", "admitted"} -> "new"
          [] pub[e] = "accepted" -> IF settled[e] = "no" THEN "pending" ELSE "settled"
          [] OTHER -> "refused"]

Abstract == INSTANCE EventQueue WITH phase <- QueuePhase, status <- QueueStatus

\* Every behaviour of the publisher is a behaviour of the abstract queue:
\* accepted only while open, settled once and only after being accepted, closed
\* only when nothing accepted is pending.
ImplementsEventQueue == Abstract!QSpec
===============================================================================
