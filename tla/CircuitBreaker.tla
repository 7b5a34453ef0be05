---------------------------- MODULE CircuitBreaker ----------------------------
(***************************************************************************)
(* The circuit breaker in front of the Pub/Sub backend and of the failed-  *)
(* event store (internal/platform/resilience/circuit_breaker.go, used by   *)
(* CircuitBreakerPublisher and, through Execute, by CircuitBreakerStore).   *)
(*                                                                         *)
(* Allow, RecordSuccess and RecordFailure each hold cb.mu, but the wrapped *)
(* call runs between them without it: results arrive in any order, and a   *)
(* result may come from a call that started before the breaker opened.     *)
(***************************************************************************)
EXTENDS Integers, FiniteSets

CONSTANTS Callers,         \* goroutines that use the breaker
          Threshold,       \* cb.threshold
          RecoveryDelay,   \* cb.recoveryDelay, in clock ticks
          MaxFailures      \* bound on cb.failures

ASSUME BreakerAssumption ==
    /\ Threshold \in Nat \ {0}
    /\ RecoveryDelay \in Nat
    /\ MaxFailures \in Nat
    /\ MaxFailures >= Threshold

VARIABLES state,           \* cb.state
          failures,        \* cb.failures
          since,           \* ticks since cb.lastFailure, counted up to RecoveryDelay + 1
          call             \* where each caller is: in the wrapped call, or its last result

breakerVars == <<state, failures, since, call>>

Results == {"none", "ok", "failed", "ErrCircuitOpen", "panic"}

\* NewCircuitBreaker: lastFailure is the zero time, long past.
BreakerInit == /\ state = "closed"
        /\ failures = 0
        /\ since = RecoveryDelay + 1
        /\ call = [c \in Callers |-> "none"]

Elapsed == since > RecoveryDelay

\* Mutant of Allow: entering half-open forgets the failures counted so far.
Mut_AllowResets(c) ==
    /\ call[c] # "inFlight"
    /\ \/ /\ state \in {"closed", "half-open"}
          /\ call' = [call EXCEPT ![c] = "inFlight"]
          /\ UNCHANGED <<state, failures, since>>
       \/ /\ state = "open" /\ Elapsed
          /\ state' = "half-open"
          /\ failures' = 0
          /\ call' = [call EXCEPT ![c] = "inFlight"]
          /\ UNCHANGED since
       \/ /\ state = "open" /\ ~Elapsed
          /\ call' = [call EXCEPT ![c] = "ErrCircuitOpen"]
          /\ UNCHANGED <<state, failures, since>>

\* Mutant of Allow: a rejected call counts as a failure just seen.
Mut_AllowRestarts(c) ==
    /\ call[c] # "inFlight"
    /\ \/ /\ state \in {"closed", "half-open"}
          /\ call' = [call EXCEPT ![c] = "inFlight"]
          /\ UNCHANGED <<state, failures, since>>
       \/ /\ state = "open" /\ Elapsed
          /\ state' = "half-open"
          /\ call' = [call EXCEPT ![c] = "inFlight"]
          /\ UNCHANGED <<failures, since>>
       \/ /\ state = "open" /\ ~Elapsed
          /\ call' = [call EXCEPT ![c] = "ErrCircuitOpen"]
          /\ since' = 0
          /\ UNCHANGED <<state, failures>>

\* Allow and, when it returns true, the start of the wrapped call. Half-open
\* admits every caller, as closed does.
Allow(c) ==
    /\ call[c] # "inFlight"
    /\ \/ /\ state \in {"closed", "half-open"}
          /\ call' = [call EXCEPT ![c] = "inFlight"]
          /\ UNCHANGED <<state, failures, since>>
       \/ /\ state = "open" /\ Elapsed
          /\ state' = "half-open"
          /\ call' = [call EXCEPT ![c] = "inFlight"]
          /\ UNCHANGED <<failures, since>>
       \/ /\ state = "open" /\ ~Elapsed
          /\ call' = [call EXCEPT ![c] = "ErrCircuitOpen"]
          /\ UNCHANGED <<state, failures, since>>

\* Mutant of RecordSuccess: the failures counted so far are kept.
Mut_RecordSuccessKeeps(c) ==
    /\ call[c] = "inFlight"
    /\ state' = "closed"
    /\ call' = [call EXCEPT ![c] = "ok"]
    /\ UNCHANGED <<failures, since>>

\* The wrapped call returns nil: RecordSuccess, in whatever state.
RecordSuccess(c) ==
    /\ call[c] = "inFlight"
    /\ failures' = 0
    /\ state' = "closed"
    /\ call' = [call EXCEPT ![c] = "ok"]
    /\ UNCHANGED since

\* The wrapped call returns an error: RecordFailure.
RecordFailure(c) ==
    /\ call[c] = "inFlight"
    /\ failures < MaxFailures
    /\ failures' = failures + 1
    /\ since' = 0
    /\ state' = IF failures + 1 >= Threshold THEN "open" ELSE state
    /\ call' = [call EXCEPT ![c] = "failed"]

\* The wrapped call panics: Execute and Publish record neither result.
Panic(c) ==
    /\ call[c] = "inFlight"
    /\ call' = [call EXCEPT ![c] = "panic"]
    /\ UNCHANGED <<state, failures, since>>

\* Time passes; beyond RecoveryDelay more of it makes no difference to Allow.
Tick == /\ ~Elapsed
        /\ since' = since + 1
        /\ UNCHANGED <<state, failures, call>>

Return(c) == RecordSuccess(c) \/ RecordFailure(c) \/ Panic(c)

BreakerNext == \/ \E c \in Callers : Allow(c) \/ Return(c)
               \/ Tick

BreakerSpec == BreakerInit /\ [][BreakerNext]_breakerVars

\* Time passes, wrapped calls return (they run under a context with a timeout),
\* and callers keep calling: webhooks keep arriving.
BreakerFairness ==
    /\ WF_breakerVars(Tick)
    /\ \A c \in Callers : WF_breakerVars(Allow(c)) /\ WF_breakerVars(Return(c))

FairBreakerSpec == BreakerSpec /\ BreakerFairness

-------------------------------------------------------------------------------
(* Properties. *)

\* Every variable has its type; failures is never negative.
BreakerTypeOK ==
    /\ state \in {"closed", "open", "half-open"}
    /\ failures \in 0..MaxFailures
    /\ since \in 0..(RecoveryDelay + 1)
    /\ call \in [Callers -> Results \cup {"inFlight"}]

\* The breaker lets calls through unconditionally exactly while fewer than
\* Threshold failures were recorded since the last success: Allow, RecordSuccess
\* and RecordFailure keep cb.state and cb.failures in step although results of
\* old calls arrive in any state.
ClosedIffBelowThreshold == state = "closed" <=> failures < Threshold

\* A failure recorded while half-open opens the breaker again at once, however
\* many probes are in flight: RecordFailure has no half-open case of its own and
\* relies on the counter having been kept.
ProbeFailureReopens ==
    [][state = "half-open" /\ failures' > failures => state' = "open"]_breakerVars

\* The breaker does not stay open for good: if from some point on no wrapped
\* call fails or panics, the breaker is closed again after every opening.
Recovers ==
    <>[][~\E c \in Callers : RecordFailure(c) \/ Panic(c)]_breakerVars
        => [](state # "closed" => <>(state = "closed"))
===============================================================================
