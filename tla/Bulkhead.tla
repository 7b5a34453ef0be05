------------------------------- MODULE Bulkhead -------------------------------
(***************************************************************************)
(* The bulkhead (internal/queue/bulkhead.go): one asynchronous publisher   *)
(* per source, created at the first event of the source. b.mu is taken for *)
(* reading to look a queue up and for writing to register one; Close holds *)
(* it while it closes and drains the queues one after the other.           *)
(*                                                                         *)
(* A queue is the queue of EventQueue: it accepts while it is open, a send *)
(* to a closed one panics (AsyncPublisher), and its workers settle what it *)
(* has accepted. Each call may create one queue, named by the call. The    *)
(* actions here are steps of Shutdown, which adds the process around them. *)
(***************************************************************************)
EXTENDS Integers, FiniteSets

CONSTANTS Calls,           \* the Publish calls, each with its event
          Sources,
          None             \* no queue, no source

ASSUME BulkheadAssumption == None \notin Calls /\ None \notin Sources

VARIABLES sources,         \* b.sources: the queue registered for each source
          qstate,          \* whether each queue is absent, open or closed
          pc,              \* where each call is, or what it returned
          source,          \* the source of each call
          target,          \* the queue GetOrCreateSource returned to the call
          fate,            \* what became of each accepted event
          closing          \* where b.Close is, and which queue it is draining

bvars == <<sources, qstate, pc, source, target, fate, closing>>

Returned == {"accepted", "refused", "panic"}
InPublish == {"lookup", "insert", "publish", "send"}
Fates == {"none", "pending", "dlq", "published", "saved", "lost"}

NotClosing == [pc |-> "no", queue |-> None]
Locked == closing.pc \in {"close", "drain"}

Unsettled(e) == fate[e] \in {"pending", "dlq"}
Holds(q, e)  == target[e] = q /\ Unsettled(e)

BInit ==
    /\ sources = [s \in Sources |-> None]
    /\ qstate = [c \in Calls |-> "absent"]
    /\ pc = [c \in Calls |-> "new"]
    /\ source = [c \in Calls |-> None]
    /\ target = [c \in Calls |-> None]
    /\ fate = [c \in Calls |-> "none"]
    /\ closing = NotClosing

\* GetOrCreateSource under RLock; without a queue it builds one, with running
\* workers, before it takes the lock again.
Lookup(c) ==
    /\ pc[c] = "lookup"
    /\ ~Locked
    /\ LET q == sources[source[c]]
       IN  IF q # None
           THEN /\ target' = [target EXCEPT ![c] = q]
                /\ pc' = [pc EXCEPT ![c] = "publish"]
                /\ UNCHANGED qstate
           ELSE /\ qstate' = [qstate EXCEPT ![c] = "open"]
                /\ pc' = [pc EXCEPT ![c] = "insert"]
                /\ UNCHANGED target
    /\ UNCHANGED <<sources, source, fate, closing>>

\* Mutant of Insert: no second look at the map under the write lock.
Mut_Insert(c) ==
    /\ pc[c] = "insert"
    /\ ~Locked
    /\ sources' = [sources EXCEPT ![source[c]] = c]
    /\ target' = [target EXCEPT ![c] = c]
    /\ pc' = [pc EXCEPT ![c] = "publish"]
    /\ UNCHANGED <<qstate, source, fate, closing>>

\* GetOrCreateSource under the write lock: if another call has registered a queue
\* meanwhile, that one is used and the own one, still empty, is closed.
Insert(c) ==
    /\ pc[c] = "insert"
    /\ ~Locked
    /\ LET q == sources[source[c]]
       IN  IF q # None
           THEN /\ qstate' = [qstate EXCEPT ![c] = "closed"]
                /\ target' = [target EXCEPT ![c] = q]
                /\ UNCHANGED sources
           ELSE /\ sources' = [sources EXCEPT ![source[c]] = c]
                /\ target' = [target EXCEPT ![c] = c]
                /\ UNCHANGED qstate
    /\ pc' = [pc EXCEPT ![c] = "publish"]
    /\ UNCHANGED <<source, fate, closing>>

\* Publish: the bulkhead's hard limit, then the queue's own checks, refuse the
\* call or let it come to the send. Depths and ratios are in AsyncPublisher.
Check(c) ==
    /\ pc[c] = "publish"
    /\ \/ pc' = [pc EXCEPT ![c] = "refused"]
       \/ /\ qstate[target[c]] = "open"
          /\ pc' = [pc EXCEPT ![c] = "send"]
    /\ UNCHANGED <<sources, qstate, source, target, fate, closing>>

\* The send of the queue: accepted, refused by a full buffer, or a panic on the
\* closed channel.
Send(c) ==
    /\ pc[c] = "send"
    /\ IF qstate[target[c]] = "open"
       THEN \/ /\ pc' = [pc EXCEPT ![c] = "accepted"]
               /\ fate' = [fate EXCEPT ![c] = "pending"]
            \/ /\ pc' = [pc EXCEPT ![c] = "refused"]
               /\ UNCHANGED fate
       ELSE /\ pc' = [pc EXCEPT ![c] = "panic"]
            /\ UNCHANGED fate
    /\ UNCHANGED <<sources, qstate, source, target, closing>>

\* Close takes b.mu. closing.pc = "close": it is between two queues.
CloseLock ==
    /\ closing = NotClosing
    /\ closing' = [pc |-> "close", queue |-> None]
    /\ UNCHANGED <<sources, qstate, pc, source, target, fate>>

\* The next registered queue, in the order of the map, is closed.
CloseQueue(s) ==
    /\ closing.pc = "close"
    /\ sources[s] # None
    /\ qstate[sources[s]] = "open"
    /\ qstate' = [qstate EXCEPT ![sources[s]] = "closed"]
    /\ closing' = [pc |-> "drain", queue |-> sources[s]]
    /\ UNCHANGED <<sources, pc, source, target, fate>>

\* queue.Close returns when the workers have settled everything (DrainedOnClose
\* of AsyncPublisher).
QueueDrained ==
    /\ closing.pc = "drain"
    /\ \A e \in Calls : ~Holds(closing.queue, e)
    /\ closing' = [pc |-> "close", queue |-> None]
    /\ UNCHANGED <<sources, qstate, pc, source, target, fate>>

\* Mutant of CloseReturn: it waits for queues that are not registered, too.
Mut_CloseReturn ==
    /\ closing.pc = "close"
    /\ \A c \in Calls : qstate[c] # "open"
    /\ closing' = [pc |-> "done", queue |-> None]
    /\ UNCHANGED <<sources, qstate, pc, source, target, fate>>

\* All registered queues are closed: Close releases b.mu and returns nil.
CloseReturn ==
    /\ closing.pc = "close"
    /\ \A s \in Sources : sources[s] # None => qstate[sources[s]] = "closed"
    /\ closing' = [pc |-> "done", queue |-> None]
    /\ UNCHANGED <<sources, qstate, pc, source, target, fate>>
===============================================================================
