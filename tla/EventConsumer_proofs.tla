------------------------ MODULE EventConsumer_proofs ------------------------
(***************************************************************************)
(* Proofs about EventConsumer, for every set of messages, every number of  *)
(* handlers and every number of faults.                                    *)
(***************************************************************************)
EXTENDS EventConsumer, TLAPS

USE ConsumerAssumption

(* A handler that is about to acknowledge has stored its message or found it
   invalid; Pub/Sub acknowledges only what a handler acknowledged. *)
AckJustified ==
    /\ \A h \in Handlers : pc[h] = "ack" => msg[h] \in Invalid \/ stored[msg[h]] # 0
    /\ AckedIsStored

(* Handlers run only inside Receive. *)
HandlersInsideReceive ==
    /\ proc \in {"running", "draining"} => pool /\ client
    /\ proc \in {"down", "closing"} => \A h \in Handlers : pc[h] = "idle"

(* A handler holds a message that Pub/Sub has. *)
HandlesPublished == \A h \in Handlers : pc[h] # "idle" => msg[h] \in published

IInv == TypeOK /\ HandlesPublished /\ AckJustified /\ HandlersInsideReceive

(* Init establishes the inductive invariant. *)
LEMMA InitIInv == Init => IInv
<1> SUFFICES ASSUME Init PROVE IInv
    OBVIOUS
<1>1. pool \in BOOLEAN /\ client \in BOOLEAN
    BY DEF Init
<1>2. TypeOK
    BY <1>1 DEF Init, TypeOK, Handlers
<1>3. HandlesPublished /\ AckJustified /\ HandlersInsideReceive
    BY DEF Init, HandlesPublished, AckJustified, AckedIsStored, HandlersInsideReceive
<1> QED BY <1>2, <1>3 DEF IInv

(* A busy handler that goes on keeps its message. *)
LEMMA HandlerGoesOn ==
    ASSUME TypeOK, HandlesPublished, NEW h \in Handlers, pc[h] # "idle",
           NEW to \in {"idle", "ack"}, pc' = [pc EXCEPT ![h] = to],
           UNCHANGED <<msg, published>>
    PROVE  pc' \in [Handlers -> {"idle", "received", "ack"}] /\ HandlesPublished'
<1>1. pc \in [Handlers -> {"idle", "received", "ack"}]
    BY DEF TypeOK
<1>2. \A k \in Handlers : pc'[k] # "idle" => pc[k] # "idle"
    BY <1>1
<1> QED BY <1>1, <1>2 DEF HandlesPublished

(* A row is written with an attempt. *)
LEMMA UpsertTypes ==
    ASSUME TypeOK, NEW h \in Handlers, Upsert(h)
    PROVE  stored' \in [Messages -> 0..MaxAttempt]
<1>1. tried[h] \in 0..MaxAttempt /\ stored \in [Messages -> 0..MaxAttempt] /\ msg[h] \in Messages
    BY DEF TypeOK
<1> QED BY <1>1 DEF Upsert

(* Every step of every actor keeps the types and a published message in
   every busy handler. *)
LEMMA NextTypeOK == TypeOK /\ HandlesPublished /\ [Next]_vars => TypeOK' /\ HandlesPublished'
<1> SUFFICES ASSUME TypeOK, HandlesPublished, [Next]_vars
             PROVE  TypeOK' /\ HandlesPublished'
    OBVIOUS
<1>1. ASSUME NEW m \in Messages, Publish(m) PROVE TypeOK' /\ HandlesPublished'
    BY <1>1 DEF Publish, TypeOK, HandlesPublished
<1>2. ASSUME NEW m \in Messages, NEW h \in Handlers, Deliver(m, h)
      PROVE  TypeOK' /\ HandlesPublished'
  <2>1. PICK n \in 1..MaxAttempt : attempt' = [attempt EXCEPT ![m] = n] /\ tried' = [tried EXCEPT ![h] = n]
    <3>1. attempt[m] \in 0..MaxAttempt
      BY DEF TypeOK
    <3>2. (IF attempt[m] < MaxAttempt THEN attempt[m] + 1 ELSE MaxAttempt) \in 1..MaxAttempt
      BY <3>1
    <3> QED BY <1>2, <3>2, Zenon DEF Deliver
  <2>2. attempt' \in [Messages -> 0..MaxAttempt] /\ tried' \in [Handlers -> 1..MaxAttempt]
    <3>1. n \in 0..MaxAttempt
      OBVIOUS
    <3> QED BY <2>1, <3>1 DEF TypeOK
  <2>3. /\ m \in published
        /\ pc' = [pc EXCEPT ![h] = "received"] /\ msg' = [msg EXCEPT ![h] = m]
        /\ UNCHANGED <<published, acked, stored, proc, pool, client, faults>>
    BY <1>2 DEF Deliver
  <2>4. /\ pc' \in [Handlers -> {"idle", "received", "ack"}] /\ msg' \in [Handlers -> Messages]
        /\ \A k \in Handlers : k # h => pc'[k] = pc[k] /\ msg'[k] = msg[k]
        /\ msg'[h] = m
    BY <2>3 DEF TypeOK
  <2>5. HandlesPublished'
    BY <2>3, <2>4 DEF HandlesPublished
  <2> QED BY <2>2, <2>3, <2>4, <2>5 DEF TypeOK
<1>3. ASSUME NEW h \in Handlers, AckRecorded(h) \/ AckLost(h)
      PROVE  TypeOK' /\ HandlesPublished'
  <2>1. /\ pc[h] # "idle" /\ pc' = [pc EXCEPT ![h] = "idle"]
        /\ acked' \in {acked, acked \cup {msg[h]}} /\ faults' \in {faults, faults + 1}
        /\ faults' # faults => faults < MaxFaults
        /\ UNCHANGED <<published, attempt, stored, msg, tried, proc, pool, client>>
    BY <1>3 DEF AckRecorded, AckLost, Fault
  <2>2. pc' \in [Handlers -> {"idle", "received", "ack"}] /\ HandlesPublished'
    BY <2>1, HandlerGoesOn
  <2>3. acked' \subseteq published
    BY <2>1 DEF TypeOK, HandlesPublished
  <2>4. faults' \in 0..MaxFaults
    BY <2>1 DEF TypeOK
  <2> QED BY <2>1, <2>2, <2>3, <2>4 DEF TypeOK
<1>4. ASSUME NEW h \in Handlers, DropInvalid(h) PROVE TypeOK' /\ HandlesPublished'
  <2>1. /\ pc[h] # "idle" /\ pc' = [pc EXCEPT ![h] = "ack"]
        /\ UNCHANGED <<published, attempt, acked, stored, msg, tried, proc, pool, client, faults>>
    BY <1>4 DEF DropInvalid
  <2>2. pc' \in [Handlers -> {"idle", "received", "ack"}] /\ HandlesPublished'
    BY <2>1, HandlerGoesOn
  <2> QED BY <2>1, <2>2 DEF TypeOK
<1>5. ASSUME NEW h \in Handlers, SaveOK(h) PROVE TypeOK' /\ HandlesPublished'
  <2>1. /\ pc[h] # "idle" /\ pc' = [pc EXCEPT ![h] = "ack"] /\ Upsert(h)
        /\ UNCHANGED <<published, attempt, acked, msg, tried, proc, pool, client, faults>>
    BY <1>5 DEF SaveOK
  <2>2. pc' \in [Handlers -> {"idle", "received", "ack"}] /\ HandlesPublished'
    BY <2>1, HandlerGoesOn
  <2> QED BY <2>1, <2>2, UpsertTypes DEF TypeOK
<1>6. ASSUME NEW h \in Handlers, SaveFails(h) PROVE TypeOK' /\ HandlesPublished'
  <2>1. /\ pc[h] # "idle" /\ pc' = [pc EXCEPT ![h] = "idle"]
        /\ stored' = stored \/ Upsert(h)
        /\ faults' = faults \/ (faults < MaxFaults /\ faults' = faults + 1)
        /\ UNCHANGED <<published, attempt, acked, msg, tried, proc, pool, client>>
    BY <1>6 DEF SaveFails, Fault
  <2>2. pc' \in [Handlers -> {"idle", "received", "ack"}] /\ HandlesPublished'
    BY <2>1, HandlerGoesOn
  <2>3. stored' \in [Messages -> 0..MaxAttempt]
    BY <2>1, UpsertTypes DEF TypeOK
  <2>4. faults' \in 0..MaxFaults
    BY <2>1 DEF TypeOK
  <2> QED BY <2>1, <2>2, <2>3, <2>4 DEF TypeOK
<1>7. CASE Start \/ StartFails \/ Cancel \/ ReceiveReturns \/ ClosePool \/ Crash
  <2> USE DEF TypeOK, HandlesPublished, Handlers, Fault
  <2>1. pool' \in BOOLEAN /\ client' \in BOOLEAN
    BY <1>7 DEF Start, StartFails, Cancel, ReceiveReturns, ClosePool, Crash
  <2>2. /\ faults' \in 0..MaxFaults
        /\ proc' \in {"down", "running", "draining", "closing"}
        /\ UNCHANGED <<published, attempt, acked, stored, msg, tried>>
    BY <1>7 DEF Start, StartFails, Cancel, ReceiveReturns, ClosePool, Crash
  <2>3. pc' = pc \/ pc' = [h \in Handlers |-> "idle"]
    BY <1>7 DEF Start, StartFails, Cancel, ReceiveReturns, ClosePool, Crash
  <2>4. /\ pc' \in [Handlers -> {"idle", "received", "ack"}]
        /\ \A h \in Handlers : pc'[h] = pc[h] \/ pc'[h] = "idle"
    BY <2>3
  <2>5. TypeOK'
    BY <2>1, <2>2, <2>4
  <2>6. HandlesPublished'
    <3>1. \A h \in Handlers : pc'[h] # "idle" => pc[h] # "idle" /\ msg'[h] = msg[h]
      BY <2>2, <2>4
    <3> QED BY <2>2, <2>4, <3>1
  <2> QED BY <2>5, <2>6
<1>8. CASE UNCHANGED vars
    BY <1>8 DEF vars, TypeOK, HandlesPublished
<1> QED BY <1>1, <1>2, <1>3, <1>4, <1>5, <1>6, <1>7, <1>8 DEF Next

(* Only a stored or invalid message comes to the point of being
   acknowledged, and rows are never removed. *)
LEMMA NextAckJustified == TypeOK /\ AckJustified /\ [Next]_vars => AckJustified'
<1> SUFFICES ASSUME TypeOK, AckJustified, [Next]_vars PROVE AckJustified'
    OBVIOUS
<1> USE DEF TypeOK, AckJustified, AckedIsStored, Handlers
<1>1. ASSUME NEW m \in Messages, Publish(m) PROVE AckJustified'
    BY <1>1 DEF Publish
<1>2. ASSUME NEW m \in Messages, NEW h \in Handlers, Deliver(m, h) PROVE AckJustified'
    BY <1>2 DEF Deliver
<1>3. ASSUME NEW h \in Handlers, AckRecorded(h) \/ AckLost(h) PROVE AckJustified'
  <2>1. CASE AckRecorded(h)
    BY <2>1 DEF AckRecorded
  <2>2. CASE AckLost(h)
    BY <2>2 DEF AckLost
  <2> QED BY <1>3, <2>1, <2>2
<1>4. ASSUME NEW h \in Handlers, DropInvalid(h) PROVE AckJustified'
    BY <1>4 DEF DropInvalid, DecodeRawWebhookEnvelope
<1>5. ASSUME NEW h \in Handlers, SaveOK(h) PROVE AckJustified'
  <2>1. stored'[msg[h]] # 0 /\ \A m \in Messages : stored[m] # 0 => stored'[m] # 0
    BY <1>5 DEF SaveOK, Upsert
  <2>2. UNCHANGED <<acked, msg>> /\ pc' = [pc EXCEPT ![h] = "ack"]
    BY <1>5 DEF SaveOK
  <2> QED BY <2>1, <2>2
<1>6. ASSUME NEW h \in Handlers, SaveFails(h) PROVE AckJustified'
  <2>1. \A m \in Messages : stored[m] # 0 => stored'[m] # 0
    BY <1>6 DEF SaveFails, Upsert
  <2>2. UNCHANGED <<acked, msg>> /\ pc' = [pc EXCEPT ![h] = "idle"]
    BY <1>6 DEF SaveFails
  <2> QED BY <2>1, <2>2
<1>7. CASE Start \/ StartFails \/ Cancel \/ ReceiveReturns \/ ClosePool
    BY <1>7 DEF Start, StartFails, Cancel, ReceiveReturns, ClosePool
<1>8. CASE Crash
    BY <1>8 DEF Crash
<1>9. CASE UNCHANGED vars
    BY <1>9 DEF vars
<1> QED BY <1>1, <1>2, <1>3, <1>4, <1>5, <1>6, <1>7, <1>8, <1>9 DEF Next

(* Receive waits for its handlers before run goes on to the deferred calls. *)
LEMMA NextHandlersInside ==
    TypeOK /\ HandlersInsideReceive /\ [Next]_vars => HandlersInsideReceive'
<1> SUFFICES ASSUME TypeOK, HandlersInsideReceive, [Next]_vars
             PROVE  HandlersInsideReceive'
    OBVIOUS
<1> USE DEF TypeOK, HandlersInsideReceive, Handlers
<1>1. ASSUME NEW m \in Messages, Publish(m) PROVE HandlersInsideReceive'
    BY <1>1 DEF Publish
<1>2. ASSUME NEW m \in Messages, NEW h \in Handlers, Deliver(m, h)
      PROVE  HandlersInsideReceive'
    BY <1>2 DEF Deliver
<1>3. ASSUME NEW h \in Handlers,
             AckRecorded(h) \/ AckLost(h) \/ DropInvalid(h) \/ SaveOK(h) \/ SaveFails(h)
      PROVE  HandlersInsideReceive'
    BY <1>3 DEF AckRecorded, AckLost, DropInvalid, SaveOK, SaveFails
<1>4. CASE Start \/ StartFails \/ Cancel \/ ReceiveReturns \/ ClosePool \/ Crash
    BY <1>4 DEF Start, StartFails, Cancel, ReceiveReturns, ClosePool, Crash
<1>5. CASE UNCHANGED vars
    BY <1>5 DEF vars
<1> QED BY <1>1, <1>2, <1>3, <1>4, <1>5 DEF Next

(* The inductive invariant holds in every reachable state. *)
THEOREM Invariance == Spec => []IInv
<1>1. IInv /\ [Next]_vars => IInv'
    BY NextTypeOK, NextAckJustified, NextHandlersInside DEF IInv
<1> QED BY InitIInv, <1>1, PTL DEF Spec

(* AckedIsStored: an acknowledged valid envelope is in webhook_events,
   however handlers, redeliveries, errors and crashes interleave. *)
THEOREM AcknowledgedStored == Spec => []AckedIsStored
<1>1. IInv => AckedIsStored
    BY DEF IInv, AckJustified
<1> QED BY Invariance, <1>1, PTL

(* OpenWhileHandling: no handler of Receive works on a closed pool or
   client. *)
THEOREM ResourcesOpen == Spec => []OpenWhileHandling
<1>1. IInv => OpenWhileHandling
    BY DEF IInv, TypeOK, HandlersInsideReceive, OpenWhileHandling
<1> QED BY Invariance, <1>1, PTL

(* RowsStable: a row of webhook_events is never changed or removed. *)
THEOREM RowsNeverChange == Spec => RowsStable
<1>1. ASSUME TypeOK, NEW h \in Handlers, Upsert(h), NEW m \in Messages, stored[m] # 0
      PROVE  stored'[m] = stored[m]
    BY <1>1 DEF TypeOK, Upsert
<1>2. [Next]_vars => stored' = stored \/ \E h \in Handlers : Upsert(h)
  <2>1. ASSUME Next PROVE stored' = stored \/ \E h \in Handlers : Upsert(h)
    BY <2>1 DEF Next, Publish, Deliver, AckRecorded, AckLost, DropInvalid, SaveOK, SaveFails,
                Start, StartFails, Cancel, ReceiveReturns, ClosePool, Crash
  <2> QED BY <2>1 DEF vars
<1>3. IInv /\ [Next]_vars
        => [\A m \in Messages : stored[m] # 0 => stored'[m] = stored[m]]_vars
  <2> SUFFICES ASSUME IInv, [Next]_vars, NEW m \in Messages, stored[m] # 0
               PROVE  stored'[m] = stored[m]
    OBVIOUS
  <2>1. TypeOK
    BY DEF IInv
  <2> QED BY <1>1, <1>2, <2>1
<1> QED BY Invariance, <1>3, PTL DEF Spec, RowsStable

=============================================================================
