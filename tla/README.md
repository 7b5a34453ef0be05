# TLA+ models of the TeamPulse Bridge ingestion gateway

The gateway (`services/ingestion-gateway`, Go) receives webhooks from Slack,
Teams, GitHub and GitLab, checks and deduplicates them, puts them into an
in-memory queue and publishes them to Pub/Sub (or a log). Events that cannot be
published go to a store of failed events, from where a retry scheduler or an
administrator replays them. These modules model its queue, circuit breaker,
failed-event store, the way of an event through all of them, the election
of the instance that retries, the shutdown of the process, the chain of middleware and
limiters in front of the handlers, replays by hand and their audit, the configuration
and its reload, and the second process that stores the published events in Postgres.
Paths below are relative to `services/ingestion-gateway` unless they start with a dot.

## 1. Inventory

| Component | State | Operations | What is hard | What makes it correct |
|---|---|---|---|---|
| Asynchronous publisher `internal/queue/async_publisher.go` | channel, `closed`, failure window, worker goroutines | Publish, Close, run, processQueuedEvent, HealthCheck | Publish races Close; workers, hooks that panic; ratios at their limits | accepted events are settled once; Close drains; readiness and admission agree |
| Circuit breaker `internal/platform/resilience/circuit_breaker.go` and its wrappers in `queue` and `failstore` | state, failures, last failure | Allow, RecordSuccess, RecordFailure, Execute | results of old calls arrive in a new state; panics | state and counter agree; a failed probe reopens; it recovers |
| Failed-event store, file `internal/failstore/file_store.go` | one JSONL file | Save, GetByID, ListRecent, Delete, UpdateRetryCount | short writes, crashes between write and rename, several lines of one event | a saved event is found until it is deleted; a deleted one is gone |
| Failed-event store, Postgres `internal/failstore/postgres_store.go` | table `failed_events` | the same | expired contexts, conflicts | one row per event |
| Webhook handlers `internal/handlers/webhooks.go` | none of their own | publishAndAck for four sources | the steps Seen, Publish, Forget, Save interleave with other requests for the same event | a 202 means delivered or kept |
| Deduplication `internal/dedup` | keys with a TTL, in memory or Redis | Seen, Forget, cleanup, Stop | duplicates during the original's publish; expiry | a key only suppresses what is not needed |
| Retry scheduler `internal/retry/scheduler.go` | running, stopped, the records of the current pass | Start, Stop, run, processRetries, retryEvent | races with the workers' dead-letter hook; Stop during a pass | no event is lost by retrying; Stop waits |
| Leader election `internal/retry/leader.go` | a Redis key with a TTL | IsLeader, TryClaim, Renew | three separate round trips, lost answers, crashes | one instance retries; somebody does |
| Wiring and shutdown `cmd/server/main.go`, `internal/queue/factory.go` | closers | OnDLQ, signal handling, RuntimePublisher.Close | order of Stop and Close calls | nothing accepted is dropped by a shutdown |
| Bulkhead `internal/queue/bulkhead.go` | one publisher per source | GetOrCreateSource, Publish, Close | double-checked creation, Publish after Close | sources do not disturb each other; Close closes all |
| Rate limiters `internal/httpx`, `internal/handlers/ui_rate.go` | windows per key, in memory or Redis | Allow, cleanup | clock read outside the lock, sweeps, failing Redis | at most `limit` requests per window; nobody is refused early |
| Middleware `internal/httpx/middleware.go`, `cmd/server/main.go` | none | API version, chaos, time limit, rate limits, admin checks | order of the chain; two prefixes for one route | nothing reaches a handler past a check |
| Replay by hand `internal/handlers/admin.go`, `cmd/replay` | none | replay, batch replay, command | partial batches, contexts that end, the scheduler next to it | each event at most once per request; reply and audit say what happened |
| Replay audit `internal/replayaudit` | records in a file or a table | Save, List with a cursor | records stamped before the lock, equal times, short writes | paging misses and repeats nothing |
| Security audit `internal/securityaudit` | records in a file or a table | Save, prune, ListRecent | pruning by the time of an older record, torn lines | a refusal stays until it expires |
| Event store `internal/eventstore`, `cmd/eventstore` | table of events | consume, ack, nack | redelivery, poison messages, stop and crash | each event stored once, acked only when stored |
| Configuration `internal/config` | current settings | Load, Validate, watch, flags | half-written files, reads between writes, dropped events | always valid; a file touched after the start takes effect once it is at rest |
| Health, signatures, schemas | none that outlives a request | | pure functions | a check a request passes or not, in `Gateway` |
| Scrubbing, UI pages, other tools, observability | none | | regular expressions, static pages, one-shot programs | not modelled, see section 8 |

Interaction: a handler calls `deduper.Seen`, then `publisher.Publish` (bulkhead,
asynchronous publisher, breaker, backend); a worker's failure calls `OnDLQ`
(main.go), which calls `deduper.Forget` and `failedStore.Save`; the scheduler
reads and changes the same store and calls the same `Publish`; the lease in
Redis decides which instance's scheduler does so. In front of the handlers every
request goes through one chain of middleware that shares the limiters and the security
audit. A replay reads the failed-event store, calls `Publish` and saves an audit record.
What Pub/Sub accepted is delivered to the event-store process until that acknowledges it.

`PROJECT.json` lists all components, the hazards with their source lines, and
the source lines of every definition.

## 2. Modules

| Module | Models | Extends |
|---|---|---|
| `EventQueue` | the abstract promise of the queue to its callers | |
| `AsyncPublisher` | `async_publisher.go` | instantiates `EventQueue` for the refinement |
| `AsyncPublisher_proofs` | theorems about it | `AsyncPublisher` |
| `CircuitBreaker` | the breaker with overlapping calls | |
| `FailStore` | what the two stores compute, as operators on sequences of records | |
| `FileStore` | the file with short writes, errors and crashes | `FailStore` |
| `IngestPromise` | the abstract promise of the gateway to a provider about its events | |
| `IngestPipeline` | handler, deduper, queue, workers, OnDLQ, store, scheduler together | `FailStore`; instantiates `IngestPromise` for the refinement |
| `IngestPipeline_proofs` | theorems about both | `FileStore`, `IngestPipeline` |
| `RetryLeader`, `RetryLeader_proofs` | lease, scheduler loop and lifecycle on several instances | |
| `Bulkhead` | `bulkhead.go`: creation, use and closing of one queue per source | |
| `Shutdown`, `Shutdown_proofs` | `run()` from the signal to the end of the process, around the bulkhead | `Bulkhead` |
| `EventConsumer`, `EventConsumer_proofs` | the event-store process under Pub/Sub redelivery | |
| `Config` | settings, their sources and defaults, `Validate`, as operators | |
| `ConfigWatcher` | start with the configuration, reload of the file | `Config` |
| `Platform_proofs` | theorems about the two small modules, which share nothing | `CircuitBreaker`, `ConfigWatcher` |
| `ReplayAudit` | what Save and List of the replay audit compute | |
| `AdminReplay`, `AdminReplay_proofs` | replay API, replay command, replay audit and its reader | `ReplayAudit` |
| `RateLimiter` | the limiters' tables and Redis counters, as operators | |
| `SecurityAudit` | Save, prune and ListRecent of the security audit, as operators | |
| `Gateway`, `Gateway_proofs` | the chain of middleware, the handlers' checks, limiters and security audit together | `RateLimiter`, `SecurityAudit` |
| `MCConfigWatcher`, `MCAdminReplay`, `MCGateway` | files and environments, requests and queries for TLC | the module each is named after |

Operators named `Mut_X` stand before X and are X with a plausible mistake; they
show that a property would notice it. They are not part of the specifications.

### AsyncPublisher

`pub[e]` is where the Publish call of event `e` stands: `PublishCheck` is the
part under `p.mu.RLock` with the backpressure decision on that snapshot,
`PublishSend` the `select` that sends. They are separate actions because the
lock is released between them. `ch` is the channel, `closed` the flag and the
closed channel, `wpc[w]` and `cur[w]` the goroutine of `run` and its event: `Receive`, `safePublish`,
`RecordSuccess` or `RecordFailure`, `OnDLQ`, and `Exit` when the channel is closed
and empty. `CloseBegin` is the part under the lock, `CloseReturn` is `wg.Wait`.
`stats` is `publishWindow` (results, next, count, failures). Ratios are integers in
percent: `len/cap >= r/100` is written without division, so no rounding is lost;
`pressureReached` is `normalizedPressure(usage) + normalizedPressure(failures) >= 1`
over a common denominator. `history` holds all results, for comparison with the
window; `settled` what became of an accepted event.
A hook or a backend that panics is one of the outcomes.

### CircuitBreaker

`call[c]` is a caller inside or outside the wrapped call; `since` is the time
since the last failure, counted up to the recovery delay. `Allow`, `RecordSuccess`
and `RecordFailure` are the critical sections; `Panic` is a wrapped call that never
records. Both wrappers (publisher and store) are `Execute` around a call. `Breaker` stands in front of
names that other modules have too (`BreakerSpec`). `failures` grows while calls that started earlier keep failing; `MaxFailures` bounds it.

### FailStore and FileStore

A store is a sequence of records, oldest first, each with its event and its
retry count. The file store appends, deletes every record of an event, updates
the first, and lists the last `limit` records, each event once with its newest
record. The table has one row per event. `FileStore` adds lines that are not
JSON, an unfinished last line (`open`), the two halves of a rewrite (`op`), and
`failures`. A crash is a failure after which the next process finds the same
file. A line too long for the scanner is a member of `Long`. What a scan keeps of the
lines is written by rank: `Picked(s, S)` has at `k` what `s` has at the `k`-th place of `S`. `File` stands in
front of names that `IngestPipeline` has too (`FileInit`, `FileSpec`), because one module
has the proofs about both.

### IngestPromise and IngestPipeline

`IngestPromise` keeps for each event what has become of it (`fate`: unknown, held or
delivered) and which events were answered 202 (`promised`). An event is taken, delivered
or dropped, one at a time; only those of `Lossy` may be dropped, or answered 202 while they
are unknown. In `IngestPipeline` the fate is `Fate` and `Lossy` is `MayLose`: with the
scheduler any event, without it those whose Save can be refused or fail, and those of `Overrun`.

`req[r]` is where request `r = <<event, n>>` stands in `publishAndAck`:
`HandleSeen`, then `HandleAccepted`, or `HandleRefused`, `HandleForget` and `HandlePersist`, or
`HandlePanics`: Publish sends on the channel that Close has just closed, the panic leaves
`publishAndAck` before Forget and Save, and `Recoverer` answers 500. The dedup key stays and nobody holds
the event. Only a request that `srv.Shutdown` did not wait for gets there (`PanicNeedsOverrun` of
`Shutdown`); `Overrun` is the set of events that can have such a request. A redelivery can reach another
instance, which shares the keys through Redis, or another such request of the same process.
`worker[w]` goes through `Receive`, `PublishOK` or `PublishFails`, `DLQForget`,
`DLQSave`. `sched` is the scheduler's pass over the records it listed. Every call to
the deduper and the store is a step of its own, so all interleavings of handlers,
workers and scheduler are there. Whether Publish refuses is open, since
`AsyncPublisher` and `CircuitBreaker` model the reasons. `PublishFails` may or may
not have delivered the event. `Save` can fail as the constants say: a body that is
not JSON in the file store, a passed deadline in Postgres, or any error with
`StoreErrors`. `acked` and `delivered` record history, `attempts` counts towards a bound.
`stale` are the keys that were left behind, by a failed Forget or by a panic.
With `DedupErrors` a call to Redis can fail: `HandleSeen` then lets the event pass, with the key set or not
(fail-open), and `Forget` leaves the key behind. A Redis deduper that `run()` has stopped
answers in the same way; Stop of the memory deduper only ends its cleanup.

### RetryLeader

`holder` and `left` are the Redis key and its remaining TTL; `loop[i]` is the
goroutine of `run`: `TickerFires`, `IsLeader`, then `RenewOK`/`RenewFails` or
`ClaimOK`/`ClaimFails`, the pass, `PassEnds`. A failing call may have been executed by
Redis. `Advance` lets time pass and expires the key; a pass lasts at most
`PassTime`, since its context ends after 30 s, and the TTL is 2 minutes.

### Bulkhead and Shutdown

`pc[c]` is where Publish call `c` stands: `Lookup` (the read lock, and the queue that
is built without a lock), `Insert` (the second look under the write lock),
`Check` and `Send`. A call may build one queue, named by the call; `qstate` says
whether it is open, `sources` is the map, `target[c]` the queue the call got. A queue
here keeps the promise of `EventQueue`, which `AsyncPublisher` implements: it
refuses for reasons that are left open, accepts while it is open, panics after Close (the
late send), and its Close returns when what it accepted is settled (`fate`). `CloseLock`, `CloseQueue`,
`QueueDrained` and `CloseReturn` are Close, which visits the map in any order and
holds `b.mu` (`Locked`) all the while.

`stage` follows `run()`: `Signal`, `HTTPStopped` (all requests are over, or 10 s are and
`overrun` is set), then the deferred calls in reverse order: `SchedulerCancel` and
`SchedulerStopped`, `ClosePublisher` (the steps of the bulkhead's Close), `CloseBackend`, `ClosePool`, `Exit`. Calls in
`Retries` are made by the scheduler, the others by requests; both go on
until the process ends. A call that outlasts Close can register a queue that nobody closes (`LateQueue`);
the properties name that exception and show there is no other.

### EventConsumer

Pub/Sub is external: `published`, `attempt` and `acked` are its state, `Deliver` hands a
message it has no Ack for to any free handler, also while another handler still has it.
`pc[h]` is `handleMessage`: `DropInvalid`, `SaveOK` or `SaveFails`, then `AckRecorded` or
`AckLost`. A Nack and a return without Ack are the same for the model: the message stays
unacknowledged. `Upsert` is `ON CONFLICT`; `stored[m]` is the attempt that wrote
the row, so that a changed row would show. A failing Save may have written the row.
`proc` follows `run()`; `Crash` ends it at any point.

### Config and ConfigWatcher

A source of settings is a function from names to raw values: `{}` for a text that is
empty or does not parse, `{v}` for one that yields `v`. `LoadFromEnv` and `LoadFromMap`
say which source or default wins, for each group of settings; `Validate` has one
operator per group of checks and keeps the code's early return;
`configsEqual` compares what the code compares, which is everything but the level.
`ConfigWatcher` splits a reload where the file or a reader may come between: `TakeEvent`,
`ReadFile`, `StoreConfig` (Validate, compare, Store) and `OnChange`. `WriteBegin` truncates the file
and writes any part of it, `WriteEnd` the rest, `Replace` renames another file over it.
`events` is the watcher's queue with a capacity; `overflow` marks a dropped event.

### ReplayAudit and AdminReplay

The audit is a set of records with a time and a random id, ordered by both; the random
ids make records of the same time come in any order. `List` is the page after a
cursor: the file store looks the cursor's record up among the sorted records, Postgres asks
for the rows after the cursor's key. Sorted lists are written by rank: the k-th record is the one
with k - 1 before it. `AdminReplay` follows each request: `Begin`, `NextEvent`,
`executeReplay` (load, headers, dry run), `Publish`, `Stamp` (time and id), `SaveOK` or
`SaveFails`, `Respond`. `Stamp` is separate because the record is built before the
lock is taken. `runReplay` and `runReplayPublish` are the command. `StoreChanges` is the scheduler or OnDLQ, `browser` the
operator's paging with what was there when it began.

### RateLimiter, SecurityAudit and Gateway

`RateLimiter` has the in-memory table (window start, count, a sweep every `CleanupN`
calls), the Redis counters with their expiry, and the limiter of the smoke tests.
`SecurityAudit` has the file with its torn last line and the pruning that
rewrites it, and the table; what pruning and a listing keep (`LiveLines`) is written by rank too. `Gateway` follows each request through the chain: `APIVersionMiddleware`,
`Chaos`, `RateLimit`, `SourceRateLimit`, `RequireAdmin`, then the handler of its path. `reading[r]` is
the clock the request read before it waits for the limiter's lock, so a reading can
be old when it is used. `Record` answers and saves a security event (`SaveOK`,
`SaveFails`), `Answer` only answers. A request says which checks it
fails (`bad`). `UISmoke` sends the wrapped delivery through the whole chain again. After
Publish `IngestPipeline` goes on. `admitted`, `late`, `failedOpen` and `forwarded` record history.

## 3. Runs

| Run | Shows |
|---|---|
| `async_publisher` | no accepted event is lost or processed twice, Close drains and returns, every accepted event is settled, the window equals the history of results, a passing HealthCheck admits, and `EventQueue` is implemented |
| `circuit_breaker` | closed exactly while failures are below the threshold, a failed probe reopens, the breaker recovers when the backend does |
| `file_store` | a failed Save spoils at most one other record, a failed rewrite none; deleted events stay deleted; ListRecent lists each recent event once with its newest record |
| `ingest` | file store, no scheduler, errors of Redis: `IngestPromise` is implemented; a 202 for the event with a JSON body, no request of which outlasts `srv.Shutdown`, means that it is delivered or held; the other event, whose body the file refuses and whose Publish may panic, is dropped only after somebody held it |
| `ingest_retry` | Postgres, store errors, passed deadlines, errors of Redis, scheduler, a Publish that panics: but for a key that a failed Forget or such a panic has left, the deduper never swallows a redelivery of an event nobody holds; an acknowledged event is lost in four ways only: by a failed Save, by a Delete of the scheduler after an enqueue or after the last retry, by a Publish of it that panics, or by a 202 for such a key |
| `ingest_retry_loss` | violation: the scheduler's Delete after a successful enqueue removes the record OnDLQ has just saved |
| `retry_leader` | passes of two instances never overlap, none runs after Stop returned, Stop returns, passes go on after crashes |
| `shutdown` | racing first events share one queue; queues drain into an open backend; no accepted event is lost and no send panics unless a request outlasted `srv.Shutdown`; retries never panic; the shutdown ends |
| `event_consumer` | what is acknowledged is in the table, pool and client outlive the handlers, every message the table can hold is acknowledged in the end, whatever is redelivered, lost or killed |
| `config_watcher` | a running gateway has a valid configuration whatever is in the file, the logger follows it, and a valid file that was touched after the start and has come to rest is the one in use |
| `admin_replay` | no request publishes an event twice; a reply claims what was published and no more; the audit misses only what failed Saves and crashes explain; paging through the audit misses and repeats nothing that was there |
| `gateway` | a window admits at most the quota, up to late readings, restarts and a failing Redis; a refusal means a used quota; nothing gets past a check; refusals and flag changes stay in the security audit until they expire |

The violation is the finding in `PROJECT.json`, with the line of the document that
says otherwise. Type invariants are not among the runs' properties; those of `AsyncPublisher`,
`CircuitBreaker`, `IngestPipeline`, `RetryLeader`, `Shutdown`, `EventConsumer`, `Gateway` and `AdminReplay` are
proved (section 4).

Deadlock checking is off where the system may stop: when all Publish calls
and Close calls are over, all deliveries or requests are answered, the bounds on failures
or changes are used up, all instances have stopped or crashed, or the process has ended.
The breaker never stops, nor does the event consumer, which has a message that is Nacked for ever.

### Bounds

- `AsyncPublisher`: three events, two workers, two closers, a buffer of two and a
  window of two. Three events fill the buffer with a worker busy and evict the
  oldest result from the window; two closers make the second Close wait. Limits of
  30, 90 and 50 percent reach every branch of the backpressure decision. The theorems
  cover all other sizes.
- `CircuitBreaker`: three callers, threshold two: two probes and one old call are
  in flight together. `MaxFailures` = 5 exceeds the threshold by the number of
  callers, so every late failure is counted.
- `FileStore`: `MaxLines` and `MaxFailures` allow an unfinished line, records before
  and after it, several records of one event, and a rewrite of all of that.
- `IngestPipeline`: two events sent twice each, one of them not JSON, and two workers without the
  scheduler; one event sent three times with it. `MaxAttempts` = 2 is one attempt
  more than `MaxRetries`, so exhaustion and a repeated retry both happen. Publish may panic for the event
  that is not JSON in `ingest` and for the only event of `ingest_retry`. In `ingest_retry_loss`
  `MaxRetries` is 3, so no event is given up, and nothing fails but the publish.
- `RetryLeader`: two instances, a TTL of 3 and a pass of 2, the tightest ratio the
  assumption `PassTime < TTL` admits. The safety theorems cover any number.
- `Shutdown`: three calls, one of them of the scheduler, and two sources: two calls
  race for one source while the third is in another queue or arrives late.
  The theorems cover all numbers.
- `EventConsumer`: a good message, an invalid one and one the column refuses, two
  handlers and three faults: one message is with both handlers while a crash, a stop
  or a lost answer falls between Save and Ack, and the refused one keeps
  coming back. Attempts are counted up to two, enough to tell a first insert from a later one.
- `ConfigWatcher`: three environments (production, development, one that must not
  start) and four files, each written whole or up to any subset of its settings.
  Two changes of the file, the second during the reload of the first,
  and an event queue of two, which overflows.
- `AdminReplay`: five pairs of requests, with a batch that names an event twice next to the
  command, and requests that are refused; both audit stores; one
  earlier audit record with the middle id of three, so that new ones sort before and after
  it; one change of the store, one fault, pages of one record.
- `Gateway`: nine triples of requests, both limiters and both audit stores; windows,
  retention and pruning interval of one unit and a clock up to 2, so that windows end,
  records expire and are pruned; quotas of 2 (general) and 1 (admin, source, smoke), a sweep on every
  second call, one fault.

### Fairness

- `AsyncPublisher`: goroutines that can run do run (workers, the send after the
  check, `wg.Wait`). Nobody has to call Publish or Close.
- `CircuitBreaker`: time passes, wrapped calls return because they have timeouts, and
  callers keep calling; without callers an open breaker changes nothing.
- `RetryLeader`: time passes, the ticker fires, calls return. Strong fairness of
  `ExitLoop`: Go's `select` chooses at random among ready cases, so a tick does not
  win for ever against a cancelled context. Strong fairness of `RenewOK` and
  `ClaimOK`: Redis does not fail for ever.
- `Shutdown`: calls inside Publish and workers are scheduled (publishes and saves
  have timeouts), and `run()` goes on after the signal; `srv.Shutdown` returns after
  10 s at the latest. Nobody has to send an event or the signal.
- `EventConsumer`: the process is started again, steps of a handler end, and strong fairness of `Deliver` for each message: Pub/Sub
  redelivers what is not acknowledged, and does not let one message starve another.
  The insert has no timeout of its own (`cmd/eventstore/main.go` sets one only for the checks at
  start), so that it ends is an assumption about the driver and the connection.
- `ConfigWatcher`: the goroutine of the loop runs, and a write that was begun is finished.
- `AdminReplay`, `Gateway`, `FileStore`, `IngestPipeline`: none, they state safety only.

## 4. Proofs

All theorems hold for every value of the constants within the named
assumptions and are checked by TLAPS.

- `AsyncPublisher_proofs`. The inductive invariant is `TypeOK`,
  `NoAcceptedEventLost`, `NoEventProcessedTwice`, `ShutdownOrder` and
  `WindowConsistent`. `ShutdownOrder` is needed for Close: a worker leaves only when
  the channel is closed and empty, and nothing is sent after that.
  `NoEventProcessedTwice` is needed so that a worker that settles its event does
  not settle one in the channel. Theorems: `TypeCorrect`, `AcceptedNeverLost`,
  `ProcessedOnce`, `CloseDrains`, `WindowCounts` (the counter is the number of failed
  slots: `RecordWindow` shows that eviction and insertion change both equally),
  `WindowIsHistory` (`RingHolds`: counting back from `next`, slot for slot, the ring is the end
  of the history, so the slot that is overwritten holds the oldest result of a full window),
  `HealthCheckAdmits` (arithmetic on the ratios; the budget must be below 100 percent:
  at 100, which `Config.Validate` allows, HealthCheck never reports the failure ratio
  and Publish still throttles on it) and `Refinement`, by the mapping
  `QueuePhase`, `QueueStatus`.
- `Platform_proofs`, breaker. `BreakerTypeOK` and `ClosedIffBelowThreshold` together are
  inductive; the half-open theorem follows, because half-open means that the
  counter is still at the threshold.
- `IngestPipeline_proofs`. `MarkedIsHeld` is not inductive: a worker between
  Publish and Forget holds the event, but so does one between Forget and Save, and
  only the first may leave a marked event unheld next. `MarkedIsPending` says that a
  marked event is delivered, or with somebody who has not yet called Forget, unless its key was left
  behind by a failed Forget or by a panic (`stale`). `MarkedHeld` holds for every store, with errors and the scheduler.
  `LossesAreNamed` says which steps can lose an acknowledged event, in every configuration: a Save that
  fails (`SaveFailed`), a Delete of the scheduler after an enqueue or after the last retry (`Discarded`), a Publish
  that panics (`Panicked`), and a 202 for a key that was left behind (`StaleAnswer`). `Kept` is shown of every step: what
  is held stays accounted for but for the first three, and a request is answered 202 only for an
  event that is accounted for, a duplicate on the strength of the mark (`MarkedIsHeld`), but for the
  fourth. The records must be
  records (`Recorded`), so that Save, Delete and UpdateRetryCount touch the events they say
  (`SaveAdds`, `WithoutRecords`, `UpdateKeeps`, for both stores).
  A stale key would seem to make a 202 worthless. It does not where nothing can lose the event: the original ends in
  the queue or in the store. `Sure` says that a key, stale or not, and a 202 are for an event that
  is accounted for, unless the configuration can lose the event (`MayLose`); it is inductive with `NoPass`
  (no pass without a scheduler) and `Kept`. `AcknowledgedNeverLost` follows, event by event: delivered or held, or one
  of `MayLose`. Such are all events with the scheduler or with a store that fails, those without a
  JSON body with the file, all with Postgres where deadlines pass (with the file they may pass, because
  `FileStore.Save` ignores its context), and those of `Overrun`. Where no event is one of `MayLose`, this is `NoEventLost`.
  `TypesHold` and `VisitsStored` need each other: that a pass has records to visit rests on `Listed` (the events
  still to be visited have a record each and are different, so deleting the records of one leaves those of
  the others; with the table no event has two rows), and `ListRows` shows that a listing begins such a pass.
  `KeepsThePromise` is the refinement of `IngestPromise` and takes all of the above: every step `Concerns` one
  event, nobody else's fate changes (`OthersSame`), and its own moves as the promise allows (`Fair`, `Acks`).
  `Sure` justifies the 202 of a duplicate, `Listed` that the scheduler publishes or deletes only
  what is held, `SaveMoves` that a handler or a worker lets an event go only where `MayLose` says so.
  About `FileStore`: `FileOK` is the types, `RewriteOK` (the holder of the lock will write back what
  it read, without the deleted event or with the new count) and `DeletedOK`, from which `DeletedIsGone`
  follows. `LossIsBounded` counts what a failed write leaves behind. A record is safe on a line that is
  finished; the text of an unfinished last line may be complete and still be spoiled by
  the next Save, so it does not count (`Unsafe`), and the line is a debt of one record (`Pledge`).
  `LossOK` says that both together do not exceed `failures`. It assumes `Long = {}`: after a line
  the scanner cannot take nothing is found any more. `ListingIsExact` is about the two operators of
  `ListRecent`: `Deduplicated` (each event of the last lines once) and `Latest` (with the
  newest record); it assumes the file store, since the table has one row per event anyway.
  Lemmas: `NthOf` (a finite set of places has one for each rank, in order), `PickedElems`
  (so what is picked out of a sequence is what stands at the places, in order).
- `RetryLeader_proofs`. `LeaseCoversPass`: an instance inside a pass is the
  holder, and lease and pass began together (`left = TTL - age`). Mutual exclusion follows
  because the key has one value. It needs `PassTime < TTL` and distinct instance
  ids (hostnames). `StopIsFinal` is about `wg.Wait`.
- `Shutdown_proofs`. The invariant is `TypeOK`, `CallsOK` (from GetOrCreateSource on
  a call's queue is the registered one, and the map never changes for a source that has
  one), `StageOK` (Close begins after the scheduler is quiet; what follows finds it done),
  `QueuesOK` (a closed queue that still holds an event is the one being drained) and
  `PanicNeedsOverrun`. `RegisteredQueuesHold` follows from `CallsOK`, `BackendClosedLast` and
  `ShutdownKeepsAccepted` from `QueuesOK`: once Close is done, only a queue that is still open
  holds anything, and such a queue needs an overrun. That a retry never panics rests on
  `StageOK`: no retry is inside Publish when the first queue is closed.

- `EventConsumer_proofs`. The invariant is `TypeOK`, `HandlesPublished`, `AckJustified` and
  `HandlersInsideReceive`. `AckJustified` adds to `AckedIsStored` that a handler about to acknowledge a
  valid message has it in the table: Save and Ack are two steps, and others run between
  them. `HandlersInsideReceive` says that pool and client are open until Receive has returned, and that
  no handler runs after. `RowsNeverChange` follows from `Upsert` and the types. No assumption beyond
  `ConsumerAssumption`.
- `Platform_proofs`, watcher. `CurrentAlwaysValid` and `LevelMatchesCurrent` are inductive
  with two additions: the loop exists only in a process that is up, and at `notify` the
  configuration read last is the one stored. `Validate` and
  `LoadFromMap` stay unexpanded, so the theorems hold for whatever `Validate` checks.
- `Gateway_proofs`. How often a key was admitted in a window cannot be read off its counter,
  because counters are begun again, swept, expire and are lost. `QuotaInv` says, for each
  limiter, what a counter that is there, and one that is not, leaves to be admitted. In memory:
  no window after the one being counted has used anything of the limit, and without a counter none that
  is still on time has. In Redis: the counter of a window is made during the window and outlives it.
  Smoke tests: a period begins with a call, so it overlaps two windows, which
  costs one quota more (`Overlap`). Calls with an old reading, restarts of the process
  and Redis failing open come on top (`Extra`); `AdmissionsBounded` names them and shows there
  is nothing else. `RefusalsNotEarly` uses the other direction, that a counter never exceeds the
  admissions, and that nobody still in the chain has been refused (`NotRefused`). `GateIsKept` rests on
  `GateInv`: a request past a step has passed its check (`Passed`), also on its second way through the chain
  inside a smoke test. `AuditIsKept`: `AuditInv` says that a line of the audit is the record of a request that is
  over, that nobody has two, and that no record is stamped after the clock. So pruning by
  the time of any record drops only what is expired by now (`Prunes`), and a listing as long as the number of requests
  drops nothing (`Lists`). `GoneOK` counts: answered records that are missing before they expire, and one more
  for part of a line at the end of the file, are at most two for a failed Save and one for a
  restart; with a table one for a failed Save.
- `AdminReplay_proofs`. `TypeInv` adds to the types what each place of a request says about its
  state (`Phase`). `PublishedOnce`: what was published and what is still to come are
  disjoint, and neither repeats (`OnceOK`); `NamedOnceOK` shows that `normalizeReplayEventIDs`
  returns each id once. `AuditKeepsUp`: `LossesExplained` counts part of a line at the end
  of the file as a debt of one record, because the next Save pays it; without the debt the count is not
  inductive. `MissingBound` then maps every other missing record to the request about to write it.
  `RepliesAreTrue`: `TellOK` says that each outcome is counted once, that a dry run publishes
  nothing, and that as long as no event failed each of them is published or still to come.
  `PagesAreExact`: `IdsOK` (ids in the audit and in Saves under way never repeat) makes the
  order of a query total, `BrowseOK` says that the cursor is the last record of the pages and still
  there, and what was there at the start is in the pages or after the cursor. Lemmas: `Ranks` (a
  finite set with a total order has one element for each rank), `Sorted` (so a list written by
  rank is sorted and complete), `PageCut` (a stretch of it keeps the order and skips nothing),
  `FilePages` and `PostgresPages` (both stores return such a stretch after the cursor, found by its place or by
  its key) and `TurnPage` (appending one to the pages keeps `BrowseOK`).

Every invariant and every action property that a passing run checks is the statement of one of these theorems;
`KeepsPromise` of `ingest` too. `NoEventLost`, which `ingest_retry_loss` violates,
is proved for the events that are not of `MayLose` (`AcknowledgedNeverLost`).
Only model-checked: the liveness properties (`AcceptedSettles`, `CloseReturns`, `Recovers`, `RetriesGoOn`,
`StopTerminates`, `ShutdownCompletes`, `EventuallyAcked`, `Converges`), because fairness and ENABLED are
out of the prover's reach. Operators that filter a sequence are written by rank rather than with `SelectSeq`
or a fold, about which the library has no theorems; TLC runs the same definitions.
`NthOf` stands in two modules of proofs, which share no module below them.

## 5. Assumptions behind the models

- `IngestPipeline`: a command to Redis is executed at most once per call, and not after the call has returned. The
  client's own repetition of a `SETNX` whose answer was lost could answer an original as its own
  duplicate; `redis.go` does not look at that, and neither does the model.
- `AsyncPublisher`: `SoftLimit < HardLimit`, `Budget`, `FailureWindow` and
  `MinSamples` in the ranges that `internal/config` validates and `withDefaults` leaves.
- In-memory state is lost when the gateway process dies; the queue makes no promise
  about that, so the end of a process, by a crash or at the end of `run()`, is outside `IngestPipeline`. What a
  shutdown does with accepted events is in `Shutdown` (`AcceptedSurvivesShutdown`).
- `IngestPipeline`: a Publish of the handler panics only in a request that `srv.Shutdown` did not wait for
  (`PanicNeedsOverrun`, `RetriesNeverPanic`); other panics in a handler are outside.
- The lease's clock and the pass's clock run at the same speed.
- `Shutdown`: the bulkhead is enabled, the store of failed events is enabled and works
  while its pool is open (a file needs no pool), and a request makes one Publish call. Close of a
  queue returns nil, so `RuntimePublisher.Close` always reaches the backend.

- `Gateway`: the Redis limiter's `INCR` is executed at most once per call; `NoEarlyRefusal` rests on that. If the client
  repeated an `INCR` whose answer was lost, one request would use two of its quota.
- `Config`: `ENVIRONMENT` is one of a few classes of values. The code looks for words in it (`IsNonProdEnvironment`),
  and so the classes stand for what those words decide.
- `Gateway`: no trusted proxy between a browser and the smoke tests, so the wrapped delivery has
  the address of the outer request.
  Nothing is assumed about the limits but that they are natural numbers. Requests are finitely many, and only calls
  of the admin API set a flag (`AuditAssumption`).
- `FileStore`: `LossIsBounded` assumes `Long = {}`, `ListingIsExact` `Backend = "file"`.
- `AdminReplay`: audit ids never repeat (they end in random bits), page limits are positive
  (`parseAdminReplayAuditQuery` sets a default), requests and events are finitely many.
- `ConfigWatcher`: the file is a regular file; a directory of symbolic links (a
  ConfigMap) is outside, see below.

## 6. Limits of what is shown

Facts about the code that the models show or leave out, for a reader of the properties:

- A Publish that passed the `closed` check before Close sends on a closed channel and panics
  (`async_publisher.go:117`); `internal/queue/async_publisher_test.go:133` expects
  `ErrQueueClosed`. `AsyncPublisher` has the panic as an outcome, `PanicNeedsOverrun` says when
  it can happen in the process. The event's dedup key then stays and the event is not saved (`HandlePanics` of
  `IngestPipeline`), so a redelivery can be answered 202 although nobody has the event:
  `LossesNamed` and `MarkedIsHeld` name it, `KeepsPromise` excepts the events of `Overrun`.
- A success of a call that began before the breaker opened closes it without a probe
  (`circuit_breaker.go:51`), where `.opencode/plans/scalability-architecture.md:234-235` lets
  only a half-open breaker close.
- After a short write the next Save returns nil for a record nobody can read
  (`file_store.go:114`); `LossBoundedByFailures` counts it.
- OnDLQ saves under the deadline that made the publish fail (`cmd/server/main.go:337`); with
  Postgres that Save fails too. `ingest_retry` has it, `LossesNamed` counts it as a failed Save, and
  `AcknowledgedNeverLost` excepts all events for Postgres; the file store ignores its context.
- The scheduler lists the 50 newest records (`scheduler.go:120`); older events wait.
- Forget is unconditional (`memory.go:66`): a late one removes the key of a newer attempt.
- `configsEqual` omits the level, so a file that changes nothing else changes nothing. A
  setting with a default that the file does not name gets the default on a reload, whatever the
  environment says. Overflow of the event queue is only logged. A file that is not touched after the start is not looked
  at again (`Converges` is about one that is). A ConfigMap
  update, which swaps a symbolic link, never reloads. Without required secrets `Validate`
  returns at `config.go:350`, before the checks of chaos and source limits. Stop does not
  wait for a reload. `Config` has all of this that is about values.
- A body with an escaped NUL is refused by the column for ever and Nacked for ever
  (`Refused`); `EventuallyAcked` shows that it does not starve other messages.
- Only the prefix `/admin` has the admin quota; `/api/v1/admin` has the general one. The Redis limiter fails
  open. The Postgres security audit is never pruned. A line above the scanner's limit
  makes every later Save of the file audits fail. Setting a flag and its audit record are two
  steps, and no code reads the flags.
- A batch that is cut short answers 202 for what it did; when it did nothing it answers 202 with
  status `failed`. Two operators, or an operator and the scheduler, can publish
  the same event; `PublishedOncePerRequest` is about one request. The replay
  command leaves no audit record.

- A body that is not JSON, from a source without a schema, is answered 202 and can
  neither be put into the Pub/Sub envelope nor saved to the file store
  (`file_store.go:71`). `AcknowledgedNeverLost` therefore excepts the events of
  `NotJSON` for the file; `LossesAreNamed` has it as a failed Save (`SaveRefused`), and
  `KeepsPromise` lets such an event be dropped.
- A line above 2 MiB (`file_store.go:145`) makes every later scan fail; `file_store`
  assumes `Long = {}`.
- The scheduler's attempts are not bounded by its maximum: an event that fails after it
  was enqueued comes back with retry count 0 from the file store. No bound is stated.
- A failing Redis `DEL` in Forget, or a Redis deduper that was stopped before the workers were drained
  (`main.go:668`), leaves the key behind until its TTL passes (`stale`): a redelivery of the event is then
  answered 202 although the gateway may have nothing of it.

## 7. Plan

Done: everything above. Next, if the code calls for it:

1. `Shutdown` with the deduper: a Forget of a worker after `run()` has stopped it, which
   `IngestPipeline` has as a failed call at any time.
2. A crash of the process in `IngestPipeline`, with what the file or the table still has.

## 8. Not modelled, and why

- Pages, styles and scripts of the user interface (`ui_assets.go`, most of `admin_ui.go`): string
  constants without state.
- `doctor`, `fixturelint` and other checks of an installation or of test data: sequential
  programs that run once.
- Transformation and scrubbing, the redaction of previews: regular expressions over bytes.
- HMAC, JSON and JWT parsing: a request has passed such a check or not. JSON schemas likewise.
- Metrics, traces, logs and error texts: no control state. The level of the logger is in
  `ConfigWatcher`.
- Creation of tables and clients at start: a start that fails ends the process (`StartFails`,
  `Boot`).
- `CleanupStale` and `RequireCSRF`, which nothing calls.
- Kubernetes and Terraform files and load tests: not program logic.
