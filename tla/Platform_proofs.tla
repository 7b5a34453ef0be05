---------------------------- MODULE Platform_proofs ----------------------------
(***************************************************************************)
(* Proofs about two mechanisms every part of the gateway relies on: the    *)
(* circuit breaker, for every number of callers, every threshold of at     *)
(* least one and every recovery delay, and the reload of the               *)
(* configuration, for every set of environments, file contents and writes. *)
(* What Validate and LoadFromMap compute is not expanded: the theorems     *)
(* about the reload hold whatever settings there are.                      *)
(***************************************************************************)
EXTENDS CircuitBreaker, ConfigWatcher, TLAPS

-------------------------------------------------------------------------------
(* The circuit breaker. *)

BreakerInv == BreakerTypeOK /\ ClosedIffBelowThreshold

\* A new breaker is closed with no failures.
LEMMA BreakerInitInv == BreakerInit => BreakerInv
  BY BreakerAssumption
     DEF BreakerInit, BreakerInv, BreakerTypeOK, ClosedIffBelowThreshold, Results

\* Each critical section keeps state and counter in step.
LEMMA BreakerNextInv == BreakerInv /\ [BreakerNext]_breakerVars => BreakerInv'
  <1> SUFFICES ASSUME BreakerInv, [BreakerNext]_breakerVars PROVE BreakerInv'
    OBVIOUS
  <1> USE BreakerAssumption DEF BreakerInv, BreakerTypeOK, ClosedIffBelowThreshold, Results
  <1>1. ASSUME NEW c \in Callers, Allow(c) PROVE BreakerInv'
    BY <1>1 DEF Allow, Elapsed
  <1>2. ASSUME NEW c \in Callers, RecordSuccess(c) PROVE BreakerInv'
    BY <1>2 DEF RecordSuccess
  <1>3. ASSUME NEW c \in Callers, RecordFailure(c) PROVE BreakerInv'
    BY <1>3 DEF RecordFailure
  <1>4. ASSUME NEW c \in Callers, Panic(c) PROVE BreakerInv'
    BY <1>4 DEF Panic
  <1>5. CASE Tick
    BY <1>5 DEF Tick, Elapsed
  <1>6. CASE UNCHANGED breakerVars
    BY <1>6 DEF breakerVars
  <1>7. QED
    BY <1>1, <1>2, <1>3, <1>4, <1>5, <1>6 DEF BreakerNext, Return

\* The invariant holds in every reachable state.
LEMMA BreakerInvariance == BreakerSpec => []BreakerInv
  BY BreakerInitInv, BreakerNextInv, PTL DEF BreakerSpec

\* Type correctness.
THEOREM BreakerTypeCorrect == BreakerSpec => []BreakerTypeOK
  <1>1. BreakerInv => BreakerTypeOK
    BY DEF BreakerInv
  <1>2. QED
    BY <1>1, BreakerInvariance, PTL

\* The breaker is closed exactly while fewer than Threshold failures were
\* recorded since the last success.
THEOREM StateMatchesCounter == BreakerSpec => []ClosedIffBelowThreshold
  <1>1. BreakerInv => ClosedIffBelowThreshold
    BY DEF BreakerInv
  <1>2. QED
    BY <1>1, BreakerInvariance, PTL

\* A failure recorded while half-open opens the breaker again.
THEOREM HalfOpenFailureReopens == BreakerSpec => ProbeFailureReopens
  <1>1. ASSUME BreakerInv, [BreakerNext]_breakerVars
        PROVE  [state = "half-open" /\ failures' > failures => state' = "open"]_breakerVars
    <2> SUFFICES ASSUME state = "half-open", failures' > failures, BreakerNext
                 PROVE  state' = "open"
      BY <1>1 DEF breakerVars, BreakerInv, BreakerTypeOK
    <2>1. failures >= Threshold /\ failures \in Nat
      BY <1>1, BreakerAssumption DEF BreakerInv, BreakerTypeOK, ClosedIffBelowThreshold
    <2>2. PICK c \in Callers : RecordFailure(c)
      BY <2>1 DEF BreakerNext, Return, Allow, RecordSuccess, Panic, Tick
    <2>3. QED
      BY <2>1, <2>2, BreakerAssumption DEF RecordFailure
  <1>2. QED
    BY <1>1, BreakerInvariance, PTL DEF BreakerSpec, ProbeFailureReopens

-------------------------------------------------------------------------------
(* The reload of the configuration. *)

(* The loop runs in a process that is up, its onChange is called with the
   configuration just stored, and otherwise the level is that of the current
   configuration. *)
WatcherInv ==
    /\ CurrentAlwaysValid
    /\ LevelMatchesCurrent
    /\ loop # "none" => proc = "up"
    /\ loop = "notify" => newCfg = current

(* Changes of the file touch neither the configuration nor the loop. *)
LEMMA FileSteps ==
    ASSUME WatcherInv, NEW f \in Contents,
           WriteBegin(f) \/ Replace(f) \/ WriteEnd \/ Remove
    PROVE  WatcherInv'
BY DEF WatcherInv, CurrentAlwaysValid, LevelMatchesCurrent, WriteBegin, Replace, WriteEnd, Remove

(* The inductive invariant holds in every reachable state. *)
THEOREM WatcherInvariance == Spec => []WatcherInv
<1> USE DEF WatcherInv, CurrentAlwaysValid, LevelMatchesCurrent
<1>1. Init => WatcherInv
    BY DEF Init
<1>2. WatcherInv /\ [Next]_vars => WatcherInv'
  <2> SUFFICES ASSUME WatcherInv, [Next]_vars PROVE WatcherInv'
      OBVIOUS
  <2>1. ASSUME NEW f \in Contents, WriteBegin(f) \/ Replace(f) PROVE WatcherInv'
      BY <2>1, FileSteps
  <2>2. CASE WriteEnd \/ Remove
      BY <2>2 DEF WriteEnd, Remove
  <2>3. CASE Boot
      BY <2>3 DEF Boot
  <2>4. CASE StartWatcher
      BY <2>4 DEF StartWatcher
  <2>5. CASE Stop
      BY <2>5 DEF Stop
  <2>6. CASE TakeEvent
      BY <2>6 DEF TakeEvent
  <2>7. CASE ExitLoop
      BY <2>7 DEF ExitLoop
  <2>8. CASE ReadFile
      BY <2>8 DEF ReadFile
  <2>9. CASE StoreConfig
      BY <2>9 DEF StoreConfig
  <2>10. CASE OnChange
      BY <2>10 DEF OnChange
  <2>11. CASE UNCHANGED vars
      BY <2>11 DEF vars
  <2> QED BY <2>1, <2>2, <2>3, <2>4, <2>5, <2>6, <2>7, <2>8, <2>9, <2>10, <2>11 DEF Next, Loop
<1> QED BY <1>1, <1>2, PTL DEF Spec

(* CurrentAlwaysValid: a gateway that is up never has a configuration that
   Validate rejects, whatever the reloads read. *)
THEOREM ReloadKeepsValid == Spec => []CurrentAlwaysValid
<1>1. WatcherInv => CurrentAlwaysValid
    BY DEF WatcherInv
<1> QED BY WatcherInvariance, <1>1, PTL

(* LevelMatchesCurrent: outside the step from Store to onChange the logger
   has the level of the current configuration. *)
THEOREM LevelFollowsStore == Spec => []LevelMatchesCurrent
<1>1. WatcherInv => LevelMatchesCurrent
    BY DEF WatcherInv
<1> QED BY WatcherInvariance, <1>1, PTL
===============================================================================
