-------------------------- MODULE RetryLeader_proofs --------------------------
(***************************************************************************)
(* Proofs about RetryLeader for any number of instances and any TTL that   *)
(* is longer than a pass.                                                  *)
(***************************************************************************)
EXTENDS RetryLeader, TLAPS

\* Why two passes cannot overlap: the instance in a pass holds the lease, and
\* lease and pass were begun together, so the lease outlasts the pass.
LeaseCoversPass ==
    \A i \in Instances : Running(i) => holder = i /\ left = TTL - age[i]

Inv == TypeOK /\ LeaseCoversPass /\ QuietAfterStop

\* Initially there is no lease and no pass.
LEMMA InitInv == Init => Inv
  BY LeaseAssumption
     DEF Init, Inv, TypeOK, LeaseCoversPass, QuietAfterStop, Running, LoopStates

\* Steps that leave lease and passes alone, or end a pass.
LEMMA LifecycleInv ==
    ASSUME Inv, NEW i \in Instances, Lifecycle(i)
    PROVE  Inv'
  <1>1. TypeOK'
    BY DEF Lifecycle, Inv, TypeOK, LoopStates, Start, Stop, StopReturns,
           TickerFires, ExitLoop, Crash, PassEnds
  <1>2. UNCHANGED <<holder, left, age>> /\ \A j \in Instances : Running(j)' => Running(j)
    BY DEF Lifecycle, Inv, TypeOK, Running, Start, Stop, StopReturns,
           TickerFires, ExitLoop, Crash, PassEnds
  <1>3. LeaseCoversPass'
    BY <1>2 DEF Inv, LeaseCoversPass
  <1>4. QuietAfterStop'
    BY DEF Lifecycle, Inv, TypeOK, QuietAfterStop, Start, Stop, StopReturns,
           TickerFires, ExitLoop, Crash, PassEnds
  <1> QED BY <1>1, <1>3, <1>4 DEF Inv

\* A lease step of i changes the lease only if nobody else holds it, so no other
\* instance is in a pass.
LEMMA LeaseInv ==
    ASSUME Inv, NEW i \in Instances, Lease(i)
    PROVE  Inv'
  <1>1. TypeOK'
    BY LeaseAssumption
       DEF Lease, Inv, TypeOK, LoopStates, IsLeader, RenewOK, RenewFails, ClaimOK, ClaimFails
  <1>2. QuietAfterStop'
    BY DEF Lease, Inv, TypeOK, QuietAfterStop,
           IsLeader, RenewOK, RenewFails, ClaimOK, ClaimFails
  <1>3. LeaseCoversPass'
    <2>1. CASE IsLeader(i)
      BY <2>1 DEF IsLeader, Inv, TypeOK, LeaseCoversPass, Running
    <2>2. CASE RenewOK(i) \/ ClaimOK(i)
      <3>1. holder \in {i, None} /\ holder' = i /\ left' = TTL /\ age'[i] = 0
        BY <2>2 DEF RenewOK, ClaimOK, Inv, TypeOK
      <3>2. \A j \in Instances : j # i => Running(j)' = Running(j)
        BY <2>2 DEF RenewOK, ClaimOK, Inv, TypeOK, Running
      <3>3. \A j \in Instances : j # i => ~Running(j)
        BY <3>1, LeaseAssumption DEF Inv, LeaseCoversPass
      <3> QED BY <3>1, <3>2, <3>3, LeaseAssumption DEF LeaseCoversPass
    <2>3. CASE RenewFails(i) \/ ClaimFails(i)
      <3>1. \/ UNCHANGED <<holder, left>>
            \/ \A j \in Instances : j # i => ~Running(j)
        BY <2>3, LeaseAssumption DEF RenewFails, ClaimFails, Inv, LeaseCoversPass
      <3>2. UNCHANGED age /\ ~Running(i)'
            /\ \A j \in Instances : j # i => Running(j)' = Running(j)
        BY <2>3 DEF RenewFails, ClaimFails, Inv, TypeOK, Running
      <3> QED BY <3>1, <3>2 DEF Inv, LeaseCoversPass
    <2> QED BY <2>1, <2>2, <2>3 DEF Lease
  <1> QED BY <1>1, <1>2, <1>3 DEF Inv

\* When time passes during a pass, the lease still has more than one tick left.
LEMMA AdvanceInv ==
    ASSUME Inv, Advance
    PROVE  Inv'
  <1>1. TypeOK'
    BY LeaseAssumption DEF Advance, Inv, TypeOK
  <1>2. LeaseCoversPass'
    <2> SUFFICES ASSUME NEW i \in Instances, Running(i)'
                 PROVE  holder' = i /\ left' = TTL - age'[i]
      BY DEF LeaseCoversPass
    <2>1. Running(i)
      BY DEF Advance, Running
    <2>2. age[i] \in Nat /\ age[i] < PassTime /\ holder = i /\ left = TTL - age[i]
      BY <2>1 DEF Advance, Inv, TypeOK, LeaseCoversPass
    <2>3. left > 1 /\ age'[i] = age[i] + 1
      BY <2>1, <2>2, LeaseAssumption DEF Advance
    <2> QED BY <2>2, <2>3, LeaseAssumption DEF Advance
  <1>3. QuietAfterStop'
    BY DEF Advance, Inv, QuietAfterStop
  <1> QED BY <1>1, <1>2, <1>3 DEF Inv

\* Every step keeps the invariant.
LEMMA NextInv == Inv /\ [Next]_vars => Inv'
  <1> SUFFICES ASSUME Inv, [Next]_vars PROVE Inv'
    OBVIOUS
  <1>1. CASE \E i \in Instances : Lifecycle(i) \/ Lease(i)
    BY <1>1, LifecycleInv, LeaseInv
  <1>2. CASE Advance
    BY <1>2, AdvanceInv
  <1>3. CASE UNCHANGED vars
    BY <1>3 DEF vars, Inv, TypeOK, LeaseCoversPass, QuietAfterStop, Running
  <1> QED BY <1>1, <1>2, <1>3 DEF Next

\* The invariant holds in every reachable state.
LEMMA Invariance == Spec => []Inv
  BY InitInv, NextInv, PTL DEF Spec

\* Every reachable state has the types of TypeOK.
THEOREM TypeCorrect == Spec => []TypeOK
  <1>1. Inv => TypeOK
    BY DEF Inv
  <1> QED BY <1>1, Invariance, PTL

\* Two instances are never inside processRetries together (leader.go), provided
\* that a pass is shorter than the lease: 30 seconds against 2 minutes.
THEOREM MutualExclusion == Spec => []OneInstanceRetries
  <1>1. Inv => OneInstanceRetries
    BY DEF Inv, LeaseCoversPass, OneInstanceRetries
  <1> QED BY <1>1, Invariance, PTL

\* After Scheduler.Stop has returned the instance runs no pass any more.
THEOREM StopIsFinal == Spec => []QuietAfterStop
  <1>1. Inv => QuietAfterStop
    BY DEF Inv
  <1> QED BY <1>1, Invariance, PTL
===============================================================================
