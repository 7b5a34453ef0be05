----------------------------- MODULE AdminReplay -----------------------------
(***************************************************************************)
(* Replaying failed events by hand: the admin API (ReplayFailedEvent and   *)
(* ReplayFailedEventsBatch in internal/handlers/admin.go), the command     *)
(* line (cmd/replay), the replay audit they leave (internal/replayaudit)   *)
(* and an operator who reads that audit page by page.                      *)
(*                                                                         *)
(* Requests run concurrently. Between any two of their steps the retry     *)
(* scheduler may remove an event from the failed-event store, a worker may *)
(* add one, the client may go away, a store may fail, the process may die. *)
(***************************************************************************)
EXTENDS ReplayAudit, Functions

CONSTANTS
    Events,      \* event ids
    Blank,       \* an event id of white space
    Requests,    \* replay requests to the API and runs of the replay command
    Plans,       \* what they ask for: [Requests -> [kind, ids, dry, denied, decodes]]
    Queries,     \* audit queries: [sort, limit, result]
    Backends,    \* stores of the replay audit: "file", "postgres"
    adminReplayBatchMaxEvents,
    AuditIDs,    \* ids of audit records, as numbers
    Earlier,     \* audit records the process finds when it starts
    MaxClock,    \* bound: time
    MaxChanges,  \* bound: changes of the failed-event store by others
    MaxFaults    \* bound: failures of a store and crashes

Statuses == {"accepted", "validated", "failed"}

(* Only a batch may name several events. *)
Plan ==
    {q \in [kind: {"single", "batch", "cli", "clifile"}, ids: Seq(Events \cup {Blank}),
            dry: BOOLEAN, denied: BOOLEAN, decodes: BOOLEAN] : q.kind # "batch" => Len(q.ids) = 1}

AuditRecord == [id: AuditIDs, at: 0 .. MaxClock, who: Requests, event: Events, result: Statuses]

(* Audit ids are random and never repeat; a query has a positive limit and  *)
(* one of the two orders (normalizeListQuery).                              *)
ASSUME ReplayAssumption ==
    /\ IsFiniteSet(Events) /\ Blank \notin Events
    /\ IsFiniteSet(Requests)
    /\ Plans \subseteq [Requests -> Plan]
    /\ Backends \subseteq {"file", "postgres"}
    /\ AuditIDs \subseteq Nat \ {0}
    /\ IsFiniteSet(Earlier) /\ \A a \in Earlier : a.id \in Nat \ {0} /\ a.at \in Nat
    /\ \A a, b \in Earlier : a.id = b.id => a = b
    /\ NoCursor \notin Earlier \cup AuditRecord
    /\ \A q \in Queries : q.limit \in Nat \ {0} /\ q.sort \in {"asc", "desc"}
    /\ {adminReplayBatchMaxEvents, MaxClock, MaxChanges, MaxFaults} \subseteq Nat

VARIABLES
    failed,     \* events in the failed-event store
    hasStore,   \* the failed-event store is configured
    changes,
    clock,
    plan, pc, ended,   \* per request: what it asks, where it is, its context is over
    todo,       \* the events it has still to replay
    stage,      \* the outcome of the current event
    rec,        \* the audit record it is saving
    results,    \* the outcomes of the events it has replayed
    reply,
    published,  \* events the publisher accepted, per request
    backend,    \* where the replay audit is kept
    audit,      \* its records
    torn,       \* the audit file ends in a part of a line
    saveErrors, \* audit Saves that returned an error
    crashes,
    faults,
    browser     \* the operator: state, query, cursor, pages so far, records at the start

request == <<plan, pc, ended, todo, stage, rec, results, reply>>
store == <<failed, hasStore, changes>>
auditVars == <<backend, audit, torn, saveErrors, crashes>>
vars == <<store, clock, request, published, auditVars, faults, browser>>

None == [id |-> 0, http |-> 0, status |-> "none"]
Idle == [state |-> "idle"]

Init ==
    /\ failed = Events
    /\ hasStore \in BOOLEAN
    /\ changes = 0 /\ clock = 0 /\ faults = 0 /\ saveErrors = 0 /\ crashes = 0
    /\ plan \in Plans
    /\ pc = [r \in Requests |-> "new"]
    /\ ended = [r \in Requests |-> FALSE]
    /\ todo = [r \in Requests |-> <<>>]
    /\ stage = [r \in Requests |-> None]
    /\ rec = [r \in Requests |-> None]
    /\ results = [r \in Requests |-> <<>>]
    /\ reply = [r \in Requests |-> None]
    /\ published = [r \in Requests |-> <<>>]
    /\ backend \in Backends
    /\ audit = Earlier
    /\ torn = FALSE
    /\ browser = Idle

Fault == faults < MaxFaults /\ faults' = faults + 1

----------------------------------------------------------------------------
(* A request *)

Mut_normalizeReplayEventIDs(raw) ==
    IF Blank \in Range(raw) \/ Cardinality(Range(raw)) > adminReplayBatchMaxEvents THEN <<>> ELSE raw

(* The ids of a batch, each once, in the order they are first named: the    *)
(* k-th is the one that k - 1 others are first named before.                *)
FirstNamed(raw) == {i \in DOMAIN raw : \A j \in 1 .. i - 1 : raw[j] # raw[i]}

NamedOnce(raw) ==
    [k \in 1 .. Cardinality(FirstNamed(raw)) |->
        raw[CHOOSE i \in FirstNamed(raw) : Cardinality({j \in FirstNamed(raw) : j < i}) = k - 1]]

(* The empty sequence stands for a request that is refused. *)
normalizeReplayEventIDs(raw) ==
    IF Blank \in Range(raw) \/ Len(NamedOnce(raw)) > adminReplayBatchMaxEvents THEN <<>> ELSE NamedOnce(raw)

replayStoreDependencyError == ~hasStore

decodeAdminJSONRequest(q) == q.decodes

(* Up to the first event: no store, an unreadable body, no valid ids. *)
Begin(r) ==
    LET ids == normalizeReplayEventIDs(plan[r].ids)
        Refuse(status) == /\ pc' = [pc EXCEPT ![r] = "done"]
                          /\ reply' = [reply EXCEPT ![r] = [http |-> status]]
                          /\ UNCHANGED todo
    IN  /\ pc[r] = "new" /\ plan[r].kind \in {"single", "batch"}
        /\ IF replayStoreDependencyError THEN Refuse(503)
           ELSE IF ~decodeAdminJSONRequest(plan[r]) \/ ids = <<>> THEN Refuse(400)
           ELSE /\ pc' = [pc EXCEPT ![r] = IF plan[r].kind = "batch" THEN "next" ELSE "load"]
                /\ todo' = [todo EXCEPT ![r] = ids]
                /\ UNCHANGED reply
        /\ UNCHANGED <<store, clock, plan, ended, stage, rec, results, published, auditVars, faults, browser>>

(* The client goes away or the request's time is over. *)
Cancel(r) ==
    /\ pc[r] \notin {"new", "done", "dead", "cli"} /\ ~ended[r]
    /\ ended' = [ended EXCEPT ![r] = TRUE]
    /\ UNCHANGED <<store, clock, plan, pc, todo, stage, rec, results, reply, published, auditVars, faults, browser>>

Outcome(r, status, http) ==
    /\ stage' = [stage EXCEPT ![r] = [event |-> Head(todo[r]), status |-> status, http |-> http]]
    /\ pc' = [pc EXCEPT ![r] = "audit"]

(* The batch looks at its context before each event and stops when it is    *)
(* over; a single replay does not look.                                     *)
NextEvent(r) ==
    /\ pc[r] = "next"
    /\ pc' = [pc EXCEPT ![r] = IF todo[r] = <<>> \/ ended[r] THEN "respond" ELSE "load"]
    /\ UNCHANGED <<store, clock, plan, ended, todo, stage, rec, results, reply, published, auditVars, faults, browser>>

(* The overrides name no header that must not be replaced. *)
cloneReplayHeaders(q) == ~q.denied

(* executeReplay up to the call of Publish: the event is read from the      *)
(* failed-event store, the overrides are checked, a dry run ends here. The  *)
(* read may fail, and does when the context is over and there is a record.  *)
executeReplay(r) ==
    /\ pc[r] = "load"
    /\ \/ /\ Head(todo[r]) \notin failed
          /\ Outcome(r, "failed", 404)
          /\ UNCHANGED faults
       \/ /\ Outcome(r, "failed", 500)
          /\ IF ended[r] THEN UNCHANGED faults ELSE Fault
       \/ /\ Head(todo[r]) \in failed /\ ~ended[r]
          /\ IF ~cloneReplayHeaders(plan[r]) THEN Outcome(r, "failed", 400)
             ELSE IF plan[r].dry THEN Outcome(r, "validated", 200)
             ELSE pc' = [pc EXCEPT ![r] = "publish"] /\ UNCHANGED stage
          /\ UNCHANGED faults
    /\ UNCHANGED <<store, clock, plan, ended, todo, rec, results, reply, published, auditVars, browser>>

Mut_Publish(r) ==
    /\ pc[r] = "publish"
    /\ published' = [published EXCEPT ![r] = Append(@, Head(todo[r]))]
    /\ IF ended[r]
       THEN /\ stage' = [stage EXCEPT ![r] = [event |-> Head(todo[r]), status |-> "accepted", http |-> 202]]
            /\ pc' = [pc EXCEPT ![r] = "respond"]
       ELSE Outcome(r, "accepted", 202)
    /\ UNCHANGED <<store, clock, plan, ended, todo, rec, results, reply, auditVars, faults, browser>>

(* publisher.Publish accepts the event or refuses it: throttled, full, or   *)
(* any other error. The event stays in the failed-event store either way.   *)
Publish(r) ==
    /\ pc[r] = "publish"
    /\ \/ /\ published' = [published EXCEPT ![r] = Append(@, Head(todo[r]))]
          /\ Outcome(r, "accepted", 202)
          /\ UNCHANGED faults
       \/ /\ \E http \in {429, 503, 500} : Outcome(r, "failed", http)
          /\ IF ended[r] THEN UNCHANGED faults ELSE Fault
          /\ UNCHANGED published
    /\ UNCHANGED <<store, clock, plan, ended, todo, rec, results, reply, auditVars, browser>>

(* Save builds the record, with its time and a random id, before it takes   *)
(* the lock or reaches the database.                                        *)
Stamp(r) ==
    /\ pc[r] = "audit"
    /\ \E id \in AuditIDs \ {a.id : a \in audit \cup Range(rec)} :
        rec' = [rec EXCEPT ![r] = [id |-> id, at |-> clock, who |-> r, event |-> stage[r].event,
                                   result |-> stage[r].status]]
    /\ pc' = [pc EXCEPT ![r] = "save"]
    /\ UNCHANGED <<store, clock, plan, ended, todo, stage, results, reply, published, backend, audit, torn,
                   saveErrors, crashes, faults, browser>>

(* executeReplay returns and its outcome is counted. *)
Return(r) ==
    /\ results' = [results EXCEPT ![r] = Append(@, stage[r].status)]
    /\ stage' = [stage EXCEPT ![r] = IF plan[r].kind = "batch" THEN None ELSE @]
    /\ todo' = [todo EXCEPT ![r] = Tail(@)]
    /\ pc' = [pc EXCEPT ![r] = IF plan[r].kind = "batch" THEN "next" ELSE "respond"]
    /\ rec' = [rec EXCEPT ![r] = None]
    /\ UNCHANGED <<store, clock, plan, ended, reply, published, backend, crashes, browser>>

(* A line written in full. After a part of a line it continues that part,   *)
(* and neither can be read.                                                 *)
AppendLine(line) ==
    /\ audit' = IF torn THEN audit ELSE audit \cup {line}
    /\ torn' = FALSE

SaveOK(r) ==
    /\ pc[r] = "save"
    /\ backend = "postgres" => ~ended[r]
    /\ AppendLine(rec[r])
    /\ Return(r)
    /\ UNCHANGED <<saveErrors, faults>>

(* The file could not be opened, written in full or synced; the database    *)
(* refused the row or its answer was lost, or the context is over. The      *)
(* error is logged and the replay goes on.                                  *)
SaveFails(r) ==
    /\ pc[r] = "save"
    /\ IF backend = "postgres" /\ ended[r] THEN UNCHANGED faults ELSE Fault
    /\ \/ AppendLine(rec[r])
       \/ backend = "file" /\ torn' = TRUE /\ UNCHANGED audit
       \/ UNCHANGED <<audit, torn>>
    /\ saveErrors' = saveErrors + 1
    /\ Return(r)

Count(r, status) == Cardinality({i \in DOMAIN results[r] : results[r][i] = status})

Summary(r) ==
    [processed |-> Len(results[r]), validated |-> Count(r, "validated"), published |-> Count(r, "accepted"),
     succeeded |-> Count(r, "validated") + Count(r, "accepted"), failed |-> Count(r, "failed")]

Mut_batchReplayStatus(sum) ==
    CASE sum.published > 0 -> "accepted"
      [] sum.failed = 0 /\ sum.validated > 0 -> "validated"
      [] OTHER -> "failed"

batchReplayStatus(sum) ==
    CASE sum.failed = 0 /\ sum.published > 0 -> "accepted"
      [] sum.failed = 0 /\ sum.published = 0 /\ sum.validated > 0 -> "validated"
      [] sum.failed = sum.processed -> "failed"
      [] OTHER -> "partial_failure"

batchReplayHTTPStatus(dry, sum) == IF sum.failed > 0 THEN 207 ELSE IF dry THEN 200 ELSE 202

Respond(r) ==
    /\ pc[r] = "respond"
    /\ pc' = [pc EXCEPT ![r] = "done"]
    /\ reply' = [reply EXCEPT ![r] =
                   IF plan[r].kind = "single" THEN [http |-> stage[r].http, status |-> stage[r].status]
                   ELSE [http |-> batchReplayHTTPStatus(plan[r].dry, Summary(r)),
                         status |-> batchReplayStatus(Summary(r)), summary |-> Summary(r)]]
    /\ UNCHANGED <<store, clock, plan, ended, todo, stage, rec, results, published, auditVars, faults, browser>>

----------------------------------------------------------------------------
(* The command: an event of the store, or of a file, goes to the publisher  *)
(* directly and nothing is written to the audit. It ends early when its     *)
(* arguments, its input or its publisher are not usable, or in a dry run.   *)

Exit(r, code) ==
    /\ pc' = [pc EXCEPT ![r] = "done"]
    /\ reply' = [reply EXCEPT ![r] = [exit |-> code]]

loadEventFromStore(q) == q.ids[1] \in failed

(* ParseInput: the file holds an envelope, or a body with a source. *)
loadEventFromFile(q) == q.decodes

runReplay(r) ==
    LET q      == plan[r]
        loaded == IF q.kind = "cli" THEN loadEventFromStore(q) ELSE loadEventFromFile(q)
    IN  /\ pc[r] = "new" /\ q.kind \in {"cli", "clifile"}
        /\ IF ~loaded THEN Exit(r, 1)
           ELSE IF q.dry THEN Exit(r, 0)
           ELSE pc' = [pc EXCEPT ![r] = "cli"] /\ UNCHANGED reply
        /\ UNCHANGED <<store, clock, plan, ended, todo, stage, rec, results, published, auditVars, faults, browser>>

runReplayPublish(r) ==
    /\ pc[r] = "cli"
    /\ \/ published' = [published EXCEPT ![r] = Append(@, plan[r].ids[1])] /\ Exit(r, 0) /\ UNCHANGED faults
       \/ Fault /\ Exit(r, 1) /\ UNCHANGED published
    /\ UNCHANGED <<store, clock, plan, ended, todo, stage, rec, results, auditVars, browser>>

----------------------------------------------------------------------------
(* Reading the audit: one List per page, each with the cursor of the last. *)

Turn(b, page) ==
    IF ~page.found THEN [b EXCEPT !.state = "refused"]
    ELSE [b EXCEPT !.got = @ \o page.records, !.cursor = page.next,
                   !.state = IF page.next = NoCursor THEN "end" ELSE "paging"]

FirstPage(q) ==
    /\ browser = Idle
    /\ browser' = Turn([state |-> "paging", query |-> q, cursor |-> NoCursor, got |-> <<>>,
                        there |-> Matching(audit, q)],
                       List(backend, audit, q, NoCursor))
    /\ UNCHANGED <<store, clock, request, published, auditVars, faults>>

NextPage ==
    /\ browser.state = "paging"
    /\ browser' = Turn(browser, List(backend, audit, browser.query, browser.cursor))
    /\ UNCHANGED <<store, clock, request, published, auditVars, faults>>

----------------------------------------------------------------------------
(* Everything else *)

(* The retry scheduler deletes an event it has published again or given     *)
(* up; OnDLQ saves one a worker could not publish.                          *)
StoreChanges ==
    /\ changes < MaxChanges /\ hasStore
    /\ changes' = changes + 1
    /\ \E e \in Events : failed' = IF e \in failed THEN failed \ {e} ELSE failed \cup {e}
    /\ UNCHANGED <<hasStore, clock, request, published, auditVars, faults, browser>>

Tick ==
    /\ clock < MaxClock
    /\ clock' = clock + 1
    /\ UNCHANGED <<store, request, published, auditVars, faults, browser>>

(* The process dies: its requests are gone, a line may be half written. *)
Crash ==
    /\ Fault /\ crashes' = crashes + 1
    /\ \E r \in Requests : pc[r] \notin {"new", "done", "dead", "cli"}
    /\ pc' = [r \in Requests |-> IF pc[r] \in {"new", "done", "cli"} THEN pc[r] ELSE "dead"]
    /\ \/ UNCHANGED <<audit, torn>>
       \/ \E r \in Requests : pc[r] = "save" /\ AppendLine(rec[r])
       \/ (\E r \in Requests : pc[r] = "save") /\ backend = "file" /\ torn' = TRUE /\ UNCHANGED audit
    /\ UNCHANGED <<store, clock, plan, ended, todo, stage, rec, results, reply, published, backend,
                   saveErrors, browser>>

Next ==
    \/ \E r \in Requests :
        \/ Begin(r) \/ Cancel(r) \/ NextEvent(r) \/ executeReplay(r) \/ Publish(r)
        \/ Stamp(r) \/ SaveOK(r) \/ SaveFails(r) \/ Respond(r)
        \/ runReplay(r) \/ runReplayPublish(r)
    \/ \E q \in Queries : FirstPage(q)
    \/ NextPage \/ StoreChanges \/ Tick \/ Crash

Spec == Init /\ [][Next]_vars

----------------------------------------------------------------------------
(* Properties *)

(* However often a batch names an event, and whatever happens to the store  *)
(* and the context meanwhile, one request hands it to the publisher once.   *)
PublishedOncePerRequest ==
    \A r \in Requests : Len(published[r]) = Cardinality(Range(published[r]))

(* What a client is told is what happened: the summary of a batch counts    *)
(* the events the publisher took, 202 for a single event means it was       *)
(* taken, and "accepted" for a batch that was not cut short means all of    *)
(* its events were.                                                         *)
ReplyTruthful ==
    \A r \in Requests :
        pc[r] = "done" /\ "status" \in DOMAIN reply[r] =>
            IF plan[r].kind = "single"
            THEN reply[r].http = 202 <=> published[r] # <<>>
            ELSE /\ reply[r].summary.published = Len(published[r])
                 /\ reply[r].summary.processed = reply[r].summary.succeeded + reply[r].summary.failed
                 /\ reply[r].status = "accepted" /\ ~ended[r] => Range(published[r]) = Range(plan[r].ids)

Missing ==
    {p \in Requests \X Events :
        /\ plan[p[1]].kind \in {"single", "batch"} /\ p[2] \in Range(published[p[1]])
        /\ ~\E a \in audit : a.who = p[1] /\ a.event = p[2] /\ a.result = "accepted"}

(* Requests between an accepted Publish and the end of its audit Save, or   *)
(* that the process took with it there.                                     *)
AtAudit ==
    {r \in Requests :
        pc[r] \in {"audit", "save", "dead"} /\ todo[r] # <<>> /\ stage[r].status = "accepted"}

(* The replay audit holds nothing that was not published, and lacks what    *)
(* was published only where a Save failed, or the process died, before the  *)
(* record was written; in the file a part of a line costs one record more.  *)
AuditMatchesPublishes ==
    /\ \A a \in audit \ Earlier : a.result = "accepted" => a.event \in Range(published[a.who])
    /\ Cardinality(Missing) <=
          Cardinality(AtAudit) + (IF backend = "file" THEN 2 * saveErrors + crashes ELSE saveErrors)

(* Reading the audit to its end gives, in the order asked for and without   *)
(* repetition, every record that was there when the reading began, in spite *)
(* of the records that are saved between two pages, some of them with an    *)
(* earlier time; and the cursor a page hands out is always accepted.        *)
PagingExact ==
    browser # Idle =>
        /\ browser.state # "refused"
        /\ \A i \in 1 .. Len(browser.got) - 1 : Before(browser.got[i], browser.got[i + 1], browser.query.sort)
        /\ browser.state = "end" => browser.there \subseteq Range(browser.got)
=============================================================================
