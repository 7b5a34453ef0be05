--------------------------- MODULE EventConsumer ---------------------------
(***************************************************************************)
(* The event-store process: it receives the envelopes that the gateway     *)
(* published to Pub/Sub and inserts them into the table webhook_events     *)
(* (cmd/eventstore/main.go, internal/eventstore).                          *)
(*                                                                         *)
(* Pub/Sub is external: it redelivers a message until it has recorded an   *)
(* Ack, may deliver it to several handlers at once, and may lose an Ack.   *)
(* The process may crash at any point and is started again.                *)
(***************************************************************************)
EXTENDS Integers, FiniteSets

CONSTANTS
    Messages,        \* the Pub/Sub messages
    Invalid,         \* those whose envelope does not decode or validate
    Refused,         \* valid ones the JSONB column refuses (an escaped NUL)
    MaxOutstanding,  \* EVENTSTORE_MAX_OUTSTANDING_MESSAGES: concurrent handlers
    MaxAttempt,      \* bound: delivery attempts are counted up to here
    MaxFaults        \* bound: database errors, lost answers, crashes, stops

ASSUME ConsumerAssumption ==
    /\ Invalid \subseteq Messages
    /\ Refused \subseteq Messages \ Invalid
    /\ MaxOutstanding \in Nat \ {0}
    /\ MaxAttempt \in Nat \ {0}
    /\ MaxFaults \in Nat

Handlers == 1..MaxOutstanding

VARIABLES
    published,   \* messages in the subscription
    attempt,     \* deliveries of each message so far
    acked,       \* messages Pub/Sub delivers no more
    stored,      \* webhook_events: the attempt that inserted the row, 0 for none
    pc,          \* handleMessage, per handler: idle, received, or calling Ack
    msg,         \* the message of each handler
    tried,       \* and its delivery attempt
    proc,        \* run(): down, running, draining (ctx cancelled), closing
    pool,        \* the Postgres pool is open
    client,      \* the Pub/Sub client is open
    faults

vars == <<published, attempt, acked, stored, pc, msg, tried, proc, pool, client, faults>>

Valid == Messages \ (Invalid \cup Refused)

TypeOK ==
    /\ published \subseteq Messages
    /\ attempt \in [Messages -> 0..MaxAttempt]
    /\ acked \subseteq published
    /\ stored \in [Messages -> 0..MaxAttempt]
    /\ pc \in [Handlers -> {"idle", "received", "ack"}]
    /\ msg \in [Handlers -> Messages]
    /\ tried \in [Handlers -> 1..MaxAttempt]
    /\ proc \in {"down", "running", "draining", "closing"}
    /\ pool \in BOOLEAN
    /\ client \in BOOLEAN
    /\ faults \in 0..MaxFaults

Init ==
    /\ published = {}
    /\ attempt = [m \in Messages |-> 0]
    /\ acked = {}
    /\ stored = [m \in Messages |-> 0]
    /\ pc = [h \in Handlers |-> "idle"]
    /\ \E m \in Messages : msg = [h \in Handlers |-> m]
    /\ tried = [h \in Handlers |-> 1]
    /\ proc = "down"
    /\ pool = FALSE
    /\ client = FALSE
    /\ faults = 0

Fault == faults < MaxFaults /\ faults' = faults + 1

----------------------------------------------------------------------------
(* Pub/Sub *)

(* The gateway publishes an envelope. *)
Publish(m) ==
    /\ m \notin published
    /\ published' = published \cup {m}
    /\ UNCHANGED <<attempt, acked, stored, pc, msg, tried, proc, pool, client, faults>>

(* A message is handed to a free handler of the running Receive, again if
   it is still with another one: the lease may have expired. *)
Deliver(m, h) ==
    /\ proc = "running"
    /\ m \in published \ acked
    /\ pc[h] = "idle"
    /\ LET n == IF attempt[m] < MaxAttempt THEN attempt[m] + 1 ELSE MaxAttempt IN
        /\ attempt' = [attempt EXCEPT ![m] = n]
        /\ tried' = [tried EXCEPT ![h] = n]
    /\ pc' = [pc EXCEPT ![h] = "received"]
    /\ msg' = [msg EXCEPT ![h] = m]
    /\ UNCHANGED <<published, acked, stored, proc, pool, client, faults>>

AckRecorded(h) ==
    /\ pc[h] = "ack"
    /\ acked' = acked \cup {msg[h]}
    /\ pc' = [pc EXCEPT ![h] = "idle"]
    /\ UNCHANGED <<published, attempt, stored, msg, tried, proc, pool, client, faults>>

AckLost(h) ==
    /\ pc[h] = "ack"
    /\ Fault
    /\ pc' = [pc EXCEPT ![h] = "idle"]
    /\ UNCHANGED <<published, attempt, acked, stored, msg, tried, proc, pool, client>>

----------------------------------------------------------------------------
(* handleMessage *)

(* DecodeRawWebhookEnvelope: the envelope decodes and Validate accepts it. *)
DecodeRawWebhookEnvelope(m) == m \notin Invalid

Mut_DropInvalid(h) ==
    /\ pc[h] = "received"
    /\ ~DecodeRawWebhookEnvelope(msg[h])
    /\ pc' = [pc EXCEPT ![h] = "idle"]
    /\ UNCHANGED <<published, attempt, acked, stored, msg, tried, proc, pool, client, faults>>

(* An invalid envelope is dropped: it is acknowledged and not stored. *)
DropInvalid(h) ==
    /\ pc[h] = "received"
    /\ ~DecodeRawWebhookEnvelope(msg[h])
    /\ pc' = [pc EXCEPT ![h] = "ack"]
    /\ UNCHANGED <<published, attempt, acked, stored, msg, tried, proc, pool, client, faults>>

(* INSERT ... ON CONFLICT (message_id) DO UPDATE SET message_id: the row of
   the first insert stays as it is. *)
Upsert(h) ==
    stored' = [stored EXCEPT ![msg[h]] = IF @ = 0 THEN tried[h] ELSE @]

SaveOK(h) ==
    /\ pc[h] = "received"
    /\ DecodeRawWebhookEnvelope(msg[h])
    /\ msg[h] \notin Refused
    /\ proc = "running"      \* afterwards ctx is cancelled
    /\ Upsert(h)
    /\ pc' = [pc EXCEPT ![h] = "ack"]
    /\ UNCHANGED <<published, attempt, acked, msg, tried, proc, pool, client, faults>>

Mut_SaveFails(h) ==
    /\ pc[h] = "received"
    /\ DecodeRawWebhookEnvelope(msg[h])
    /\ \/ (msg[h] \in Refused \/ proc = "draining") /\ UNCHANGED faults
       \/ Fault
    /\ pc' = [pc EXCEPT ![h] = "ack"]
    /\ UNCHANGED <<published, attempt, acked, stored, msg, tried, proc, pool, client>>

(* Save returns an error and the message is Nacked: the column refuses the
   body, ctx is cancelled, or the database fails - with the row written
   when only the answer was lost. *)
SaveFails(h) ==
    /\ pc[h] = "received"
    /\ DecodeRawWebhookEnvelope(msg[h])
    /\ \/ /\ msg[h] \in Refused \/ proc = "draining"
          /\ UNCHANGED <<stored, faults>>
       \/ Fault /\ UNCHANGED stored
       \/ Fault /\ msg[h] \notin Refused /\ Upsert(h)
    /\ pc' = [pc EXCEPT ![h] = "idle"]
    /\ UNCHANGED <<published, attempt, acked, msg, tried, proc, pool, client>>

----------------------------------------------------------------------------
(* run *)

(* The pool, the table and the client are created, the subscription is
   checked, and Receive starts. *)
Start ==
    /\ proc = "down"
    /\ proc' = "running"
    /\ pool' = TRUE
    /\ client' = TRUE
    /\ UNCHANGED <<published, attempt, acked, stored, pc, msg, tried, faults>>

(* One of these steps fails: run returns the error, the deferred calls
   close what was opened. *)
StartFails ==
    /\ proc = "down"
    /\ Fault
    /\ UNCHANGED <<published, attempt, acked, stored, pc, msg, tried, proc, pool, client>>

(* SIGTERM, or a permanent error of Receive: ctx of the handlers ends. *)
Cancel ==
    /\ proc = "running"
    /\ Fault
    /\ proc' = "draining"
    /\ UNCHANGED <<published, attempt, acked, stored, pc, msg, tried, pool, client>>

Mut_ReceiveReturns ==
    /\ proc = "draining"
    /\ proc' = "closing"
    /\ client' = FALSE
    /\ UNCHANGED <<published, attempt, acked, stored, pc, msg, tried, pool, faults>>

(* Receive returns once its handlers have; then the client is closed. *)
ReceiveReturns ==
    /\ proc = "draining"
    /\ \A h \in Handlers : pc[h] = "idle"
    /\ proc' = "closing"
    /\ client' = FALSE
    /\ UNCHANGED <<published, attempt, acked, stored, pc, msg, tried, pool, faults>>

(* Then the pool, deferred first, is closed and the process ends. *)
ClosePool ==
    /\ proc = "closing"
    /\ proc' = "down"
    /\ pool' = FALSE
    /\ UNCHANGED <<published, attempt, acked, stored, pc, msg, tried, client, faults>>

(* The process is killed: handlers and connections are gone. *)
Crash ==
    /\ proc # "down"
    /\ Fault
    /\ proc' = "down"
    /\ pool' = FALSE
    /\ client' = FALSE
    /\ pc' = [h \in Handlers |-> "idle"]
    /\ UNCHANGED <<published, attempt, acked, stored, msg, tried>>

Next ==
    \/ \E m \in Messages : Publish(m)
    \/ \E m \in Messages, h \in Handlers : Deliver(m, h)
    \/ \E h \in Handlers :
          AckRecorded(h) \/ AckLost(h) \/ DropInvalid(h) \/ SaveOK(h) \/ SaveFails(h)
    \/ Start \/ StartFails \/ Cancel \/ ReceiveReturns \/ ClosePool \/ Crash

(* The process is restarted, the steps of a running process end, and Pub/Sub
   redelivers every message it has no Ack for whenever a handler is free. *)
Fairness ==
    /\ WF_vars(Start) /\ WF_vars(ReceiveReturns) /\ WF_vars(ClosePool)
    /\ \A h \in Handlers :
          /\ WF_vars(DropInvalid(h)) /\ WF_vars(AckRecorded(h))
          /\ WF_vars(SaveOK(h) \/ SaveFails(h))
    /\ \A m \in Messages : SF_vars(\E h \in Handlers : Deliver(m, h))

Spec == Init /\ [][Next]_vars /\ Fairness

----------------------------------------------------------------------------
(* Properties *)

(* What Pub/Sub delivers no more is in the table, unless its envelope is
   invalid: handleMessage acknowledges after Save has returned nil and at no
   other point, whatever crashes, errors and redeliveries come between. *)
AckedIsStored == \A m \in acked \ Invalid : stored[m] # 0

(* The row of a message is never changed or removed, although late and
   concurrent redeliveries save it again (ON CONFLICT DO UPDATE). *)
RowsStable == [][\A m \in Messages : stored[m] # 0 => stored'[m] = stored[m]]_vars

(* While handleMessage runs its pool and client are open: the deferred
   Closes of run come after Receive has waited for the handlers. *)
OpenWhileHandling == \A h \in Handlers : pc[h] # "idle" => pool /\ client

(* Once the faults have stopped every published message that the column can
   hold is acknowledged, so Nacked and orphaned deliveries are repeated, and
   messages that are refused for ever do not keep the others from the
   handlers. *)
EventuallyAcked == \A m \in Messages \ Refused : m \in published ~> m \in acked

=============================================================================
