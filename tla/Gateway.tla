------------------------------- MODULE Gateway -------------------------------
(***************************************************************************)
(* A request on its way through the gateway: the chain of middleware that  *)
(* HandlerBuilder.Build puts around the routes (cmd/server/main.go,        *)
(* internal/httpx), the checks of the webhook handlers before an event is  *)
(* handed to the pipeline, the routes of the admin API that change flags,  *)
(* and the security audit record every refusal leaves.                     *)
(*                                                                         *)
(* Requests run concurrently and share the limiter and the audit store.    *)
(* Time passes between reading the clock and using the reading.            *)
(***************************************************************************)
EXTENDS RateLimiter, SecurityAudit, FiniteSets

CONSTANTS
    Requests,
    Plans,      \* the requests of a run, see Plan
    Deployments,  \* [limiter, store]: "memory" or "redis", "file" or "postgres"
    General, Admin, SourceLimit,  \* calls per window
    uiSmokeMaxRequestsPerMinute,
    CleanupN,   \* one admission in so many sweeps the table
    MaxSkew,    \* the age a Slack signature may have
    MaxClock,   \* bound: time
    MaxFaults   \* bound: failures of Redis and the store, cancellations, restarts

(* path is "webhook", "admin" (/admin/...), "adminV1" (/api/v1/admin/...),  *)
(* "smoke" (a delivery wrapped for /ui/smoke-test) or "other"; bad is the   *)
(* set of checks the request does not pass; probe is the registration       *)
(* message of a provider, if it is one; sent the time a Slack message was   *)
(* signed; set is TRUE for a POST to flags.                                 *)
Plan == [path : {"webhook", "admin", "adminV1", "smoke", "other"}, ip : STRING, source : STRING,
         bad : SUBSET {"version", "method", "body", "signature", "schema", "cidr", "jwt", "wrapper"},
         probe : BOOLEAN, sent : Int, set : BOOLEAN]

(* A limit of zero refuses every call. *)
ASSUME GatewayAssumption ==
    /\ Plans \subseteq [Requests -> Plan]
    /\ Deployments \subseteq [limiter : {"memory", "redis"}, store : {"file", "postgres"}]
    /\ General \in Nat /\ Admin \in Nat /\ SourceLimit \in Nat /\ uiSmokeMaxRequestsPerMinute \in Nat
    /\ CleanupN \in Nat \ {0} /\ MaxClock \in Nat /\ MaxFaults \in Nat

(* Flags are set through the admin API only. *)
ASSUME AuditAssumption ==
    /\ IsFiniteSet(Requests)
    /\ \A p \in Plans, r \in Requests : p[r].set => p[r].path \in {"admin", "adminV1"}

VARIABLES
    plan, pc, reading, ended, stamp, reply,  \* per request
    clock,
    limiter, table, hits,    \* the limiter in use, its counters, its admissions
    ui,                      \* the counters of the smoke tests
    store, st,               \* the audit store in use and its contents
    flag,                    \* a feature flag
    forwarded,               \* requests that reached publishAndAck's Publish or an admin route
    admitted, late,          \* per key: admissions by window; calls with a reading of an earlier window
    failedOpen, restarts, saveErrors, faults

request == <<plan, pc, reading, ended, stamp, reply>>
limits == <<limiter, table, hits, ui, admitted, late, failedOpen>>
auditVars == <<store, st, saveErrors>>
vars == <<request, clock, limits, auditVars, flag, forwarded, restarts, faults>>

Mut_isAdminPath(path) == path = "admin"

isAdminPath(path) == path \in {"admin", "adminV1"}

(* The keys of the two limiters in the chain. Only the unversioned prefix   *)
(* counts as admin here.                                                    *)
RateKey(q) == <<IF q.path = "admin" THEN "admin" ELSE "general", q.ip>>
RateLimitOf(q) == IF q.path = "admin" THEN Admin ELSE General
SourceKey(q) == <<"source", q.source, q.ip>>
UIKey(q) == <<"ui", q.ip>>

Keys == UNION {{RateKey(p[r]), SourceKey(p[r]), UIKey(p[r])} : p \in Plans, r \in Requests}

(* The windows of the smoke tests begin with a call: two of them may overlap  *)
(* one window of the others, unless time is counted in windows.               *)
LimitOf(key) ==
    CASE key[1] = "admin" -> Admin
      [] key[1] = "general" -> General
      [] key[1] = "source" -> SourceLimit
      [] OTHER -> uiSmokeMaxRequestsPerMinute * (IF WindowSec = 1 THEN 1 ELSE 2)

EmptyTable == [k \in {} |-> 0]
newUISmokeRateLimiter(now) == [entries |-> EmptyTable, cleaned |-> now]

Init ==
    /\ plan \in Plans
    /\ pc = [r \in Requests |-> "new"]
    /\ reading = [r \in Requests |-> 0]
    /\ ended = [r \in Requests |-> FALSE]
    /\ stamp = [r \in Requests |-> 0]
    /\ reply = [r \in Requests |-> 0]
    /\ clock = 0
    /\ \E d \in Deployments : limiter = d.limiter /\ store = d.store
    /\ table = EmptyTable /\ hits = 0 /\ ui = newUISmokeRateLimiter(0) /\ st = EmptyStore
    /\ flag = FALSE
    /\ forwarded = {}
    /\ admitted = [k \in Keys |-> [w \in 0 .. MaxClock |-> 0]]
    /\ late = [k \in Keys |-> 0]
    /\ failedOpen = 0 /\ restarts = 0 /\ saveErrors = 0 /\ faults = 0

Fault == faults < MaxFaults /\ faults' = faults + 1

Goto(r, label) == pc' = [pc EXCEPT ![r] = label] /\ UNCHANGED <<reply, stamp>>

(* A response without a security event. *)
Answer(r, status) ==
    /\ pc' = [pc EXCEPT ![r] = "done"]
    /\ reply' = [reply EXCEPT ![r] = status]
    /\ UNCHANGED stamp

(* recordSecurityEvent: the record gets its time, Save and then the         *)
(* response follow.                                                         *)
Record(r, status) ==
    /\ pc' = [pc EXCEPT ![r] = "audit"]
    /\ reply' = [reply EXCEPT ![r] = status]
    /\ stamp' = [stamp EXCEPT ![r] = clock]

----------------------------------------------------------------------------
(* The chain *)

APIVersionMiddleware(r) ==
    /\ pc[r] = "new"
    /\ IF "version" \in plan[r].bad THEN Answer(r, 406) ELSE Goto(r, "chaos")
    /\ UNCHANGED <<plan, reading, ended, clock, limits, auditVars, flag, forwarded, restarts, faults>>

(* A failure may be injected. Otherwise RateLimit reads the clock, before   *)
(* the limiter's lock and before the command to Redis.                      *)
Chaos(r) ==
    /\ pc[r] = "chaos"
    /\ \/ Fault /\ Answer(r, 500) /\ UNCHANGED reading
       \/ Goto(r, "rate") /\ reading' = [reading EXCEPT ![r] = clock] /\ UNCHANGED faults
    /\ UNCHANGED <<plan, ended, clock, limits, auditVars, flag, forwarded, restarts>>

(* The client goes away or RequestTimeout's time is over. *)
Cancel(r) ==
    /\ pc[r] \notin {"new", "done", "dead"} /\ ~ended[r]
    /\ Fault
    /\ ended' = [ended EXCEPT ![r] = TRUE]
    /\ UNCHANGED <<plan, pc, reading, stamp, reply, clock, limits, auditVars, flag, forwarded, restarts>>

CountCall(r, key, ok) ==
    /\ admitted' = IF ok THEN [admitted EXCEPT ![key][windowStart(reading[r])] = @ + 1] ELSE admitted
    /\ late' = IF windowStart(reading[r]) < windowStart(clock) THEN [late EXCEPT ![key] = @ + 1] ELSE late

(* The limiter answers, and the request goes on or is refused with 429.     *)
Allow(r, key, limit, then) ==
    LET memory == MemoryAllow(table, key, limit, reading[r], (hits + 1) % CleanupN = 0)
        redis  == RedisAllow(RedisExpired(table, clock), key, limit, reading[r], clock)
        answer == IF limiter = "memory" THEN memory ELSE redis
    IN  /\ IF answer.ok THEN Goto(r, then) ELSE Record(r, 429)
        /\ table' = answer.table
        /\ hits' = IF answer.ok THEN (hits + 1) % CleanupN ELSE hits
        /\ CountCall(r, key, answer.ok)
        /\ UNCHANGED <<limiter, ui, failedOpen, faults>>

(* Redis does not answer in time: the request goes on, counted or not. *)
AllowFailsOpen(r, key, limit, then) ==
    /\ limiter = "redis" /\ limit > 0
    /\ Fault
    /\ table' \in {table, RedisAllow(RedisExpired(table, clock), key, limit, reading[r], clock).table}
    /\ failedOpen' = failedOpen + 1
    /\ CountCall(r, key, TRUE)
    /\ Goto(r, then)
    /\ UNCHANGED <<limiter, hits, ui>>

AfterSource(q) == IF isAdminPath(q.path) THEN "auth" ELSE "handler"

AfterRate(q) == IF q.path = "webhook" THEN "source" ELSE AfterSource(q)

(* SourceRateLimit reads the clock again for its own call. *)
RateLimit(r) ==
    /\ pc[r] = "rate"
    /\ \/ Allow(r, RateKey(plan[r]), RateLimitOf(plan[r]), AfterRate(plan[r]))
       \/ AllowFailsOpen(r, RateKey(plan[r]), RateLimitOf(plan[r]), AfterRate(plan[r]))
    /\ reading' = [reading EXCEPT ![r] = IF plan[r].path = "webhook" /\ pc'[r] = "source" THEN clock ELSE 0]
    /\ UNCHANGED <<plan, ended, clock, auditVars, flag, forwarded, restarts>>

SourceRateLimit(r) ==
    /\ pc[r] = "source"
    /\ \/ Allow(r, SourceKey(plan[r]), SourceLimit, AfterSource(plan[r]))
       \/ AllowFailsOpen(r, SourceKey(plan[r]), SourceLimit, AfterSource(plan[r]))
    /\ reading' = [reading EXCEPT ![r] = 0]
    /\ UNCHANGED <<plan, ended, clock, auditVars, flag, forwarded, restarts>>

RequireAdminCIDRAllowlist(q) == isAdminPath(q.path) => "cidr" \notin q.bad

RequireAdminJWT(q) == isAdminPath(q.path) => "jwt" \notin q.bad

RequireAdmin(r) ==
    /\ pc[r] = "auth"
    /\ IF ~RequireAdminCIDRAllowlist(plan[r]) THEN Record(r, 403)
       ELSE IF ~RequireAdminJWT(plan[r]) THEN Record(r, 401)
       ELSE Goto(r, "handler")
    /\ UNCHANGED <<plan, reading, ended, clock, limits, auditVars, flag, forwarded, restarts, faults>>

----------------------------------------------------------------------------
(* The handlers *)

ValidateSlack(q) == "signature" \notin q.bad /\ clock - q.sent <= MaxSkew /\ q.sent - clock <= MaxSkew

Authentic(q) == IF q.source = "slack" THEN ValidateSlack(q) ELSE "signature" \notin q.bad

rejectMethod(q) == "method" \in q.bad

(* The body was read, within the limit. *)
readBody(q) == "body" \notin q.bad

ValidateSchema(q) == "schema" \notin q.bad

(* HandleSlack, HandleTeams, HandleGitHub, HandleGitLab up to Publish. A    *)
(* request whose context is over gets no response.                          *)
HandleWebhook(r) ==
    LET q == plan[r] IN
    /\ pc[r] = "handler" /\ q.path = "webhook"
    /\ IF rejectMethod(q) THEN Record(r, 405) /\ UNCHANGED forwarded
       ELSE IF ended[r] THEN Answer(r, 499) /\ UNCHANGED forwarded
       ELSE IF q.probe /\ q.source = "teams" THEN Answer(r, 200) /\ UNCHANGED forwarded
       ELSE IF ~readBody(q) THEN (\E status \in {400, 413} : Answer(r, status)) /\ UNCHANGED forwarded
       ELSE IF ~Authentic(q) THEN Record(r, 401) /\ UNCHANGED forwarded
       ELSE IF q.probe /\ q.source = "slack" THEN Answer(r, 200) /\ UNCHANGED forwarded
       ELSE IF ~ValidateSchema(q) THEN Answer(r, 400) /\ UNCHANGED forwarded
       ELSE Answer(r, 202) /\ forwarded' = forwarded \cup {r}
    /\ UNCHANGED <<plan, reading, ended, clock, limits, auditVars, flag, restarts, faults>>

(* FeatureFlags: a POST sets the flag and then saves an audit record; the   *)
(* other admin routes only read.                                            *)
HandleAdmin(r) ==
    LET q == plan[r] IN
    /\ pc[r] = "handler" /\ q.path \in {"admin", "adminV1"}
    /\ forwarded' = forwarded \cup {r}
    /\ IF ~q.set THEN Answer(r, 200) /\ UNCHANGED flag
       ELSE IF "body" \in q.bad THEN (\E status \in {400, 404} : Answer(r, status)) /\ UNCHANGED flag
       ELSE Record(r, 200) /\ flag' = ~flag
    /\ UNCHANGED <<plan, reading, ended, clock, limits, auditVars, restarts, faults>>

(* The 429 of the smoke tests leaves no security event and is told apart. *)
UISmoke429 == 1429

(* NewUISmokeTestProxy reads the clock for its own limiter, ... *)
UISmokeRead(r) ==
    /\ pc[r] = "handler" /\ plan[r].path = "smoke"
    /\ Goto(r, "smoke")
    /\ reading' = [reading EXCEPT ![r] = clock]
    /\ UNCHANGED <<plan, ended, clock, limits, auditVars, flag, forwarded, restarts, faults>>

(* ... and sends the wrapped delivery through the whole chain, from the     *)
(* same address; that response is the one kept in reply.                    *)
UISmoke(r) ==
    LET answer == uiAllow(ui, plan[r].ip, uiSmokeMaxRequestsPerMinute, reading[r]) IN
    /\ pc[r] = "smoke"
    /\ ui' = answer.table
    /\ IF answer.ok /\ "wrapper" \notin plan[r].bad
       THEN Goto(r, "new") /\ plan' = [plan EXCEPT ![r].path = "webhook"]
       ELSE Answer(r, IF answer.ok THEN 400 ELSE UISmoke429) /\ UNCHANGED plan
    /\ CountCall(r, UIKey(plan[r]), answer.ok)
    /\ reading' = [reading EXCEPT ![r] = 0]
    /\ UNCHANGED <<ended, clock, limiter, table, hits, failedOpen, auditVars, flag, forwarded, restarts, faults>>

(* Healthz looks at the queue, the failed-event store and Redis, Readyz at  *)
(* the queue and Redis only; a part that is not configured is left out.     *)
HandleHealth(r) ==
    LET looked == IF plan[r].probe THEN {"queue", "redis"} ELSE {"queue", "store", "redis"} IN
    /\ pc[r] = "handler" /\ plan[r].path = "other"
    /\ \/ Answer(r, 200) /\ UNCHANGED faults
       \/ (\E broken \in SUBSET looked : broken # {} /\ Answer(r, 503)) /\ Fault
    /\ UNCHANGED <<plan, reading, ended, clock, limits, auditVars, flag, forwarded, restarts>>

----------------------------------------------------------------------------
(* The security audit *)

Rec(r) == [who |-> r, at |-> stamp[r]]

Respond(r) ==
    /\ pc' = [pc EXCEPT ![r] = "done"]
    /\ UNCHANGED <<plan, reading, ended, stamp, reply, clock, limits, store, flag, forwarded, restarts>>

SaveOK(r) ==
    /\ pc[r] = "audit"
    /\ IF store = "file"
       THEN ~PruneBlocked(st, stamp[r], ended[r]) /\ st' = Saved(st, Rec(r))
       ELSE ~ended[r] /\ st' = AddLine(st, Rec(r))
    /\ Respond(r)
    /\ UNCHANGED <<saveErrors, faults>>

(* The error is logged and the response is the same. *)
SaveFails(r) ==
    LET blocked == IF store = "file" THEN PruneBlocked(st, stamp[r], ended[r]) ELSE ended[r] IN
    /\ pc[r] = "audit"
    /\ IF blocked THEN UNCHANGED faults ELSE Fault
    /\ st' \in IF store = "file" THEN FailedSaves(st, Rec(r), ended[r]) ELSE {st, AddLine(st, Rec(r))}
    /\ saveErrors' = saveErrors + 1
    /\ Respond(r)

----------------------------------------------------------------------------
(* Everything else *)

Tick ==
    /\ clock < MaxClock
    /\ clock' = clock + 1
    /\ UNCHANGED <<request, limits, auditVars, flag, forwarded, restarts, faults>>

(* The process dies and starts again: requests in flight are gone, so are   *)
(* the counters in memory, the flags and the time of the last pruning.      *)
Restart ==
    LET back(s) == [s EXCEPT !.pruned = NeverPruned] IN
    /\ Fault
    /\ restarts' = restarts + 1
    /\ pc' = [r \in Requests |-> IF pc[r] \in {"new", "done"} THEN pc[r] ELSE "dead"]
    /\ table' = IF limiter = "memory" THEN EmptyTable ELSE table
    /\ hits' = 0
    /\ ui' = newUISmokeRateLimiter(clock)
    /\ flag' = FALSE
    /\ \/ st' = back(st)
       \/ \E r \in Requests : pc[r] = "audit" /\ store = "file" /\ \E s \in FailedSaves(st, Rec(r), FALSE) : st' = back(s)
    /\ UNCHANGED <<plan, reading, ended, stamp, reply, clock, limiter, admitted, late, failedOpen, store, saveErrors,
                   forwarded>>

Next ==
    \/ \E r \in Requests :
        \/ APIVersionMiddleware(r) \/ Chaos(r) \/ Cancel(r) \/ RateLimit(r) \/ SourceRateLimit(r) \/ RequireAdmin(r)
        \/ HandleWebhook(r) \/ HandleAdmin(r) \/ HandleHealth(r) \/ UISmokeRead(r) \/ UISmoke(r)
        \/ SaveOK(r) \/ SaveFails(r)
    \/ Tick \/ Restart

Spec == Init /\ [][Next]_vars

----------------------------------------------------------------------------
(* Properties *)

(* In one window a key is admitted at most limit times, and again so often  *)
(* for each call that came with the reading of a window that was over, each *)
(* restart that emptied the counters in memory; what Redis did not answer   *)
(* for is on top. Sweeping the table never gives a client a new quota.      *)
AdmissionBound ==
    \A k \in Keys, w \in 0 .. MaxClock :
        admitted[k][w] <=
            LimitOf(k) * (1 + late[k] + (IF limiter = "memory" \/ k[1] = "ui" THEN restarts ELSE 0)) + failedOpen

(* A request is refused by a limiter only when its key has used up the      *)
(* quota of the window the request was counted in, however calls, windows   *)
(* and sweeps interleave.                                                   *)
NoEarlyRefusal ==
    [][\A r \in Requests :
          pc[r] \in {"rate", "source"} /\ reply'[r] = 429 =>
             LET k == IF pc[r] = "rate" THEN RateKey(plan[r]) ELSE SourceKey(plan[r])
             IN  admitted[k][windowStart(reading[r])] >= LimitOf(k)]_vars

(* What reaches the queue or an admin route has passed every check on its   *)
(* way: none of the middleware can be avoided by the form of the path.      *)
GateKept ==
    \A r \in forwarded :
        plan[r].bad \cap (IF plan[r].path = "webhook"
                          THEN {"version", "method", "body", "signature", "schema"}
                          ELSE {"version", "cidr", "jwt"}) = {}

Recorded == {r \in Requests : pc[r] = "done" /\ (reply[r] \in {401, 403, 405, 429} \/ (reply[r] = 200 /\ plan[r].set))}

(* Every refusal, and every change of a flag, that was answered is in the   *)
(* security audit until it expires: pruning, by the time of a record that   *)
(* was stamped before the lock was free, removes nothing that is still to   *)
(* be kept. Only failed Saves lose records, and a part of a line in the     *)
(* file the record that is written after it.                                *)
SecurityAuditKept ==
    LET listed  == ListRecent(st, clock, Cardinality(Requests))
        missing == {r \in Recorded : ~isExpired(Rec(r), clock) /\ \A i \in DOMAIN listed : listed[i].who # r}
    IN  Cardinality(missing) <= IF store = "file" THEN 2 * saveErrors + restarts ELSE saveErrors
=============================================================================
