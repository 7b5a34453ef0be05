------------------------------ MODULE RetryLeader ------------------------------
(***************************************************************************)
(* Who runs the retry scheduler: the lease in Redis (retry/leader.go) and  *)
(* the scheduler's loop and lifecycle (retry/scheduler.go: Start, Stop,    *)
(* run), on several instances of the gateway. What a pass does with the    *)
(* records is in IngestPipeline; here it is an interval of time.           *)
(*                                                                         *)
(* Time is discrete. IsLeader, Renew and TryClaim are separate round trips *)
(* to Redis, so anything can happen between them; each is atomic there. A  *)
(* call can fail, before or after Redis has executed it.                   *)
(***************************************************************************)
EXTENDS Integers

CONSTANTS Instances,       \* the replicas, each with its own instance id (hostname)
          None,            \* no leader
          TTL,             \* the lease, 2 minutes
          PassTime         \* longest time from the lease's start to the end of the pass

\* The context of a pass ends after 30 seconds, a quarter of the lease.
ASSUME LeaseAssumption ==
    /\ None \notin Instances
    /\ TTL \in Nat
    /\ PassTime \in Nat
    /\ PassTime < TTL

VARIABLES ctl,             \* Scheduler.running and stopped, per instance
          loop,            \* where the goroutine of run is
          stop,            \* where the instance's Stop call is
          holder,          \* the value of the key teampulse:retry_leader
          left,            \* its remaining TTL
          age              \* time since the running pass got its lease

vars == <<ctl, loop, stop, holder, left, age>>

LoopStates == {"none", "select", "isLeader", "renew", "claim", "processing", "exited", "dead"}

Init ==
    /\ ctl = [i \in Instances |-> "new"]
    /\ loop = [i \in Instances |-> "none"]
    /\ stop = [i \in Instances |-> "no"]
    /\ holder = None
    /\ left = 0
    /\ age = [i \in Instances |-> 0]

-------------------------------------------------------------------------------
(* The lifecycle. *)

Start(i) ==
    /\ ctl[i] = "new"
    /\ loop[i] = "none"
    /\ ctl' = [ctl EXCEPT ![i] = "running"]
    /\ loop' = [loop EXCEPT ![i] = "select"]
    /\ UNCHANGED <<stop, holder, left, age>>

\* Mutant of Stop: the run context is not cancelled.
Mut_Stop(i) ==
    /\ ctl[i] # "new"
    /\ stop[i] # "waiting"
    /\ loop[i] # "dead"
    /\ stop' = [stop EXCEPT ![i] = "waiting"]
    /\ UNCHANGED <<ctl, loop, holder, left, age>>

\* Stop, called after Start: marks the scheduler and cancels the run context. A
\* second call only waits.
Stop(i) ==
    /\ ctl[i] # "new"
    /\ stop[i] # "waiting"
    /\ loop[i] # "dead"
    /\ ctl' = [ctl EXCEPT ![i] = "stopped"]
    /\ stop' = [stop EXCEPT ![i] = "waiting"]
    /\ UNCHANGED <<loop, holder, left, age>>

\* Mutant of StopReturns: Stop does not wait for the goroutine.
Mut_StopReturns(i) ==
    /\ stop[i] = "waiting"
    /\ stop' = [stop EXCEPT ![i] = "returned"]
    /\ UNCHANGED <<ctl, loop, holder, left, age>>

\* wg.Wait in Stop.
StopReturns(i) ==
    /\ stop[i] = "waiting"
    /\ loop[i] = "exited"
    /\ stop' = [stop EXCEPT ![i] = "returned"]
    /\ UNCHANGED <<ctl, loop, holder, left, age>>

\* run's select. A tick that is already in the ticker's channel can still win
\* against ctx.Done() after Stop.
TickerFires(i) ==
    /\ loop[i] = "select"
    /\ loop' = [loop EXCEPT ![i] = "isLeader"]
    /\ UNCHANGED <<ctl, stop, holder, left, age>>

ExitLoop(i) ==
    /\ loop[i] = "select"
    /\ ctl[i] = "stopped"
    /\ loop' = [loop EXCEPT ![i] = "exited"]
    /\ UNCHANGED <<ctl, stop, holder, left, age>>

\* The process dies; nothing releases its lease.
Crash(i) ==
    /\ loop[i] \notin {"none", "exited", "dead"}
    /\ loop' = [loop EXCEPT ![i] = "dead"]
    /\ UNCHANGED <<ctl, stop, holder, left, age>>

-------------------------------------------------------------------------------
(* The lease. *)

\* IsLeader reads the key; an error counts as not being the leader.
IsLeader(i) ==
    /\ loop[i] = "isLeader"
    /\ \/ holder = i /\ loop' = [loop EXCEPT ![i] = "renew"]
       \/ loop' = [loop EXCEPT ![i] = "claim"]
    /\ UNCHANGED <<ctl, stop, holder, left, age>>

\* Mutant of RenewOK: EXPIRE without comparing the key's value.
Mut_RenewAny(i) ==
    /\ loop[i] = "renew"
    /\ holder # None
    /\ left' = TTL
    /\ loop' = [loop EXCEPT ![i] = "processing"]
    /\ age' = [age EXCEPT ![i] = 0]
    /\ UNCHANGED <<ctl, stop, holder>>

\* Renew: the script extends the lease if the key still holds this instance's
\* id. Then the pass begins.
RenewOK(i) ==
    /\ loop[i] = "renew"
    /\ holder = i
    /\ left' = TTL
    /\ loop' = [loop EXCEPT ![i] = "processing"]
    /\ age' = [age EXCEPT ![i] = 0]
    /\ UNCHANGED <<ctl, stop, holder>>

\* Renew returns false: the key holds something else, or the call failed, maybe
\* after the script ran. The tick is skipped.
RenewFails(i) ==
    /\ loop[i] = "renew"
    /\ left' \in {left} \cup (IF holder = i THEN {TTL} ELSE {})
    /\ loop' = [loop EXCEPT ![i] = "select"]
    /\ UNCHANGED <<ctl, stop, holder, age>>

\* Mutant of ClaimOK: SETNX without an expiry.
Mut_ClaimOK(i) ==
    /\ loop[i] = "claim"
    /\ holder = None
    /\ holder' = i
    /\ left' = 0
    /\ loop' = [loop EXCEPT ![i] = "processing"]
    /\ age' = [age EXCEPT ![i] = 0]
    /\ UNCHANGED <<ctl, stop>>

\* TryClaim: SETNX with the TTL. Then the pass begins.
ClaimOK(i) ==
    /\ loop[i] = "claim"
    /\ holder = None
    /\ holder' = i
    /\ left' = TTL
    /\ loop' = [loop EXCEPT ![i] = "processing"]
    /\ age' = [age EXCEPT ![i] = 0]
    /\ UNCHANGED <<ctl, stop>>

\* TryClaim returns false: the key exists, or the call failed, maybe after
\* Redis set the key.
ClaimFails(i) ==
    /\ loop[i] = "claim"
    /\ \/ UNCHANGED <<holder, left>>
       \/ holder = None /\ holder' = i /\ left' = TTL
    /\ loop' = [loop EXCEPT ![i] = "select"]
    /\ UNCHANGED <<ctl, stop, age>>

\* processRetries returns.
PassEnds(i) ==
    /\ loop[i] = "processing"
    /\ loop' = [loop EXCEPT ![i] = "select"]
    /\ UNCHANGED <<ctl, stop, holder, left, age>>

Running(i) == loop[i] = "processing"

\* Time passes: the lease runs down and Redis drops the key at zero. A pass is
\* over within PassTime, because its context ends.
Advance ==
    /\ left > 0 \/ \E i \in Instances : Running(i)
    /\ \A i \in Instances : Running(i) => age[i] < PassTime
    /\ age' = [i \in Instances |-> IF Running(i) THEN age[i] + 1 ELSE age[i]]
    /\ left' = IF left > 0 THEN left - 1 ELSE 0
    /\ holder' = IF left = 1 THEN None ELSE holder
    /\ UNCHANGED <<ctl, loop, stop>>

Lifecycle(i) == \/ Start(i) \/ Stop(i) \/ StopReturns(i)
                \/ TickerFires(i) \/ ExitLoop(i) \/ Crash(i) \/ PassEnds(i)
Lease(i)     == IsLeader(i) \/ RenewOK(i) \/ RenewFails(i) \/ ClaimOK(i) \/ ClaimFails(i)

Next == (\E i \in Instances : Lifecycle(i) \/ Lease(i)) \/ Advance

Spec == Init /\ [][Next]_vars

\* Time passes, the ticker fires, calls of Redis return and passes end. Redis
\* does not fail for ever: a claim or a renewal that is possible again and again
\* succeeds at last. Nobody has to start or stop an instance.
Fairness ==
    /\ WF_vars(Advance)
    /\ \A i \in Instances :
          /\ WF_vars(TickerFires(i) \/ ExitLoop(i))
          /\ WF_vars(Lease(i))
          /\ WF_vars(PassEnds(i))
          /\ WF_vars(StopReturns(i))
          /\ SF_vars(ExitLoop(i))
          /\ SF_vars(RenewOK(i))
          /\ SF_vars(ClaimOK(i))

FairSpec == Spec /\ Fairness

-------------------------------------------------------------------------------
(* Properties. *)

\* Every variable has its type: the lease never lasts longer than TTL.
TypeOK ==
    /\ ctl \in [Instances -> {"new", "running", "stopped"}]
    /\ loop \in [Instances -> LoopStates]
    /\ stop \in [Instances -> {"no", "waiting", "returned"}]
    /\ holder \in Instances \cup {None}
    /\ left \in 0..TTL
    /\ age \in [Instances -> 0..PassTime]

\* At most one instance is inside processRetries, although IsLeader and Renew
\* are two round trips, leases expire between them, claims succeed without the
\* caller learning it and instances crash.
OneInstanceRetries ==
    \A i, j \in Instances : Running(i) /\ Running(j) => i = j

\* When Stop has returned, the instance runs no pass and never will: shutdown may
\* go on to close the publisher that retryEvent publishes to.
QuietAfterStop ==
    \A i \in Instances : stop[i] = "returned" => loop[i] \in {"exited", "dead"}

\* While some instance keeps running, passes keep happening, whatever instance
\* crashed or stopped while it held the lease.
RetriesGoOn ==
    (\E i \in Instances : <>[](ctl[i] = "running" /\ loop[i] # "dead"))
        => []<>(\E i \in Instances : Running(i))

\* Every Stop call returns, unless the process dies first.
StopTerminates ==
    \A i \in Instances : stop[i] = "waiting" ~> stop[i] = "returned" \/ loop[i] = "dead"
===============================================================================
