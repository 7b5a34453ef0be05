------------------------------- MODULE Config -------------------------------
(***************************************************************************)
(* The gateway's configuration as a value: how it is put together from the *)
(* environment and a file, and what Validate accepts (internal/config).    *)
(*                                                                         *)
(* A source of settings (the environment, a parsed file) is a function     *)
(* from the names it holds to raw values.  A raw value is {} for a text    *)
(* that is empty or does not parse as the setting's type and {v} for one   *)
(* that yields v.  Rates are in hundredths, PORT is 0 when it is not a     *)
(* number, a secret is "ok" or "weak", a path or id may be "blank".        *)
(***************************************************************************)
EXTENDS Integers

The(S) == CHOOSE x \in S : TRUE

(* Settings with a default in the code; a source overrides the default with
   a value that is not empty and parses. *)
Defaults ==
    [PORT |-> 8080, QUEUE_BUFFER |-> 4096, QUEUE_WORKERS |-> 1,
     QUEUE_BULKHEAD_BUFFER_PER_SOURCE |-> 1024, REQUEST_TIMEOUT_SEC |-> 15,
     RATE_LIMIT_RPM |-> 300, ADMIN_RATE_LIMIT_RPM |-> 60, DEDUP_TTL_SEC |-> 300,
     REDIS_DB |-> 0, SECURITY_AUDIT_RETENTION_DAYS |-> 30,
     QUEUE_BACKPRESSURE_SOFT_LIMIT_PERCENT |-> 70,
     QUEUE_BACKPRESSURE_HARD_LIMIT_PERCENT |-> 90,
     QUEUE_FAILURE_BUDGET_PERCENT |-> 15, QUEUE_FAILURE_BUDGET_WINDOW |-> 100,
     QUEUE_FAILURE_BUDGET_MIN_SAMPLES |-> 20, QUEUE_THROTTLE_RETRY_AFTER_SEC |-> 5,
     SOURCE_RATE_LIMIT_DEFAULT |-> 100, RETRY_MAX_ATTEMPTS |-> 3, RETRY_INTERVAL_SEC |-> 10,
     PUBSUB_PUBLISH_TIMEOUT_SEC |-> 5, PUBSUB_PUBLISH_GOROUTINES |-> 0,
     PUBSUB_MAX_OUTSTANDING_MESSAGES |-> 0, PUBSUB_MAX_OUTSTANDING_BYTES |-> 0,
     CHAOS_ERROR_RATE |-> 0, CHAOS_LATENCY_RATE |-> 0,
     CHAOS_LATENCY_MIN_MS |-> 100, CHAOS_LATENCY_MAX_MS |-> 500,
     QUEUE_BULKHEAD_ENABLED |-> FALSE, REQUIRE_SECRETS |-> TRUE,
     ADMIN_AUTH_ENABLED |-> TRUE, RATE_LIMIT_ENABLED |-> TRUE, DEDUP_ENABLED |-> TRUE,
     FAILED_EVENT_STORE_ENABLED |-> TRUE, REPLAY_AUDIT_ENABLED |-> TRUE,
     SECURITY_AUDIT_ENABLED |-> TRUE, QUEUE_BACKPRESSURE_ENABLED |-> TRUE,
     SOURCE_RATE_LIMIT_ENABLED |-> TRUE, SCHEMA_VALIDATION_ENABLED |-> TRUE,
     RETRY_ENABLED |-> FALSE, PII_SCRUBBING_ENABLED |-> FALSE, CHAOS_ENABLED |-> FALSE,
     ENVIRONMENT |-> "dev", QUEUE_BACKEND |-> "log", RATE_LIMIT_BACKEND |-> "memory",
     PUBSUB_FLOW_CONTROL_BEHAVIOR |-> "ignore", LOG_LEVEL |-> "info",
     DEDUP_REDIS_PREFIX |-> "path", RATE_LIMIT_REDIS_PREFIX |-> "path", SCHEMA_PATH |-> "path",
     FAILED_EVENT_STORE_PATH |-> "path", REPLAY_AUDIT_PATH |-> "path",
     SECURITY_AUDIT_PATH |-> "path"]

WebhookSecrets ==
    {"SLACK_SIGNING_SECRET", "GITHUB_WEBHOOK_SECRET", "GITLAB_WEBHOOK_TOKEN", "TEAMS_CLIENT_STATE"}

AdminJWT == {"ADMIN_JWT_ISSUER", "ADMIN_JWT_AUDIENCE", "ADMIN_JWT_SECRET"}

(* Settings without a default: the file's text, even an empty one, or the
   environment's. *)
Texts ==
    WebhookSecrets \cup AdminJWT
        \cup {"PUBSUB_PROJECT_ID", "PUBSUB_TOPIC_ID", "REDIS_ADDR", "REDIS_PASSWORD", "DATABASE_URL"}

(* Lists: a set of entries, {} for none. *)
Lists == {"ADMIN_ALLOW_CIDRS", "TRUSTED_PROXY_CIDRS"}

Settings == DOMAIN Defaults \cup Texts \cup Lists \cup {"SOURCE_RATE_LIMITS"}

Has(source, k) == k \in DOMAIN source /\ source[k] # {}

(* get, getInt, getBool and getFloat of LoadFromMap. *)
get(f, k) == IF Has(f, k) THEN The(f[k]) ELSE Defaults[k]

getEnv(f, env, k) ==
    LET source == IF k \in DOMAIN f THEN f ELSE env
    IN  IF Has(source, k) THEN The(source[k]) ELSE ""

(* An empty list in the file is an empty list; one of separators only falls
   through to the environment. *)
getCSV(f, env, k) ==
    CASE k \in DOMAIN f /\ f[k] = {} -> {}
      [] Has(f, k) /\ The(f[k]) # {} -> The(f[k])
      [] OTHER -> IF Has(env, k) THEN The(env[k]) ELSE {}

(* Entries of SOURCE_RATE_LIMITS that are malformed or not positive are
   dropped; what is left is the set of limits. *)
parseSourceRateLimits(f, env) ==
    LET source == IF "SOURCE_RATE_LIMITS" \in DOMAIN f THEN f ELSE env
    IN  IF Has(source, "SOURCE_RATE_LIMITS")
        THEN {n \in The(source["SOURCE_RATE_LIMITS"]) : n > 0} ELSE {}

(* The configuration of a file f in the environment env: a setting with a
   default that f does not name gets the default, whatever env says. *)
LoadFromMap(f, env) ==
    [k \in Settings |->
        CASE k \in DOMAIN Defaults -> get(f, k)
          [] k \in Texts -> getEnv(f, env, k)
          [] k \in Lists -> getCSV(f, env, k)
          [] OTHER -> parseSourceRateLimits(f, env)]

(* At start the environment takes the place of the file. *)
LoadFromEnv(env) == LoadFromMap(env, env)

----------------------------------------------------------------------------

(* The code finds the first four as parts of the value: each stands for the
   values it is a part of. *)
IsNonProdEnvironment(e) == e \in {"dev", "test", "local", "ci", "staging", "sandbox"}

(* isWeakSecret, and secrets below 32 characters. *)
isWeakSecret(s) == s = "weak"

(* Settings checked whatever the others are; 0 stands for the default
   where the code says so. *)
Ranges ==
    [PORT |-> 1..65535, QUEUE_BUFFER |-> 1..1000000, QUEUE_WORKERS |-> 0..1024,
     QUEUE_BULKHEAD_BUFFER_PER_SOURCE |-> 0..1000000, REQUEST_TIMEOUT_SEC |-> 1..300,
     DEDUP_TTL_SEC |-> 0..86400, PUBSUB_PUBLISH_TIMEOUT_SEC |-> 0..300,
     PUBSUB_PUBLISH_GOROUTINES |-> 0..1024, PUBSUB_MAX_OUTSTANDING_MESSAGES |-> 0..10000000,
     PUBSUB_MAX_OUTSTANDING_BYTES |-> Nat, QUEUE_BACKEND |-> {"log", "pubsub"},
     RATE_LIMIT_BACKEND |-> {"blank", "memory", "redis"},
     PUBSUB_FLOW_CONTROL_BEHAVIOR |-> {"blank", "ignore", "block", "signal_error"}]

ValidLimits(c) ==
    c.RATE_LIMIT_ENABLED =>
        c.RATE_LIMIT_RPM \in 10..100000 /\ c.ADMIN_RATE_LIMIT_RPM \in 1..c.RATE_LIMIT_RPM

ValidStores(c) ==
    /\ c.FAILED_EVENT_STORE_ENABLED => c.FAILED_EVENT_STORE_PATH # "blank"
    /\ c.REPLAY_AUDIT_ENABLED => c.REPLAY_AUDIT_PATH # "blank"
    /\ c.SECURITY_AUDIT_ENABLED =>
          c.SECURITY_AUDIT_PATH # "blank" /\ c.SECURITY_AUDIT_RETENTION_DAYS \in 1..3650

ValidBackpressure(c) ==
    c.QUEUE_BACKPRESSURE_ENABLED =>
        /\ c.QUEUE_BACKPRESSURE_SOFT_LIMIT_PERCENT \in 1..99
        /\ c.QUEUE_BACKPRESSURE_HARD_LIMIT_PERCENT \in 1..100
        /\ c.QUEUE_BACKPRESSURE_HARD_LIMIT_PERCENT > c.QUEUE_BACKPRESSURE_SOFT_LIMIT_PERCENT
        /\ c.QUEUE_FAILURE_BUDGET_PERCENT \in 1..100
        /\ c.QUEUE_FAILURE_BUDGET_WINDOW \in 1..100000
        /\ c.QUEUE_FAILURE_BUDGET_MIN_SAMPLES \in 1..c.QUEUE_FAILURE_BUDGET_WINDOW
        /\ c.QUEUE_THROTTLE_RETRY_AFTER_SEC \in 1..300

ValidBackends(c) ==
    /\ "bad" \notin c.TRUSTED_PROXY_CIDRS
    /\ c.RATE_LIMIT_BACKEND = "redis" => c.REDIS_ADDR \notin {"", "blank"}
    /\ c.RATE_LIMIT_REDIS_PREFIX # "blank"
    /\ c.QUEUE_BACKEND = "pubsub" =>
          c.PUBSUB_PROJECT_ID \notin {"", "blank"} /\ c.PUBSUB_TOPIC_ID \notin {"", "blank"}

ValidAdmin(c) ==
    c.ADMIN_AUTH_ENABLED =>
        /\ \A k \in AdminJWT : c[k] # ""
        /\ ~isWeakSecret(c.ADMIN_JWT_SECRET)
        /\ "bad" \notin c.ADMIN_ALLOW_CIDRS
        /\ IsNonProdEnvironment(c.ENVIRONMENT) \/ c.ADMIN_ALLOW_CIDRS # {}

ValidSecrets(c) == \A k \in WebhookSecrets : c[k] # ""

ValidChaos(c) ==
    c.CHAOS_ENABLED =>
        /\ c.CHAOS_ERROR_RATE \in 0..100 /\ c.CHAOS_LATENCY_RATE \in 0..100
        /\ c.CHAOS_LATENCY_MAX_MS \in 0..30000
        /\ c.CHAOS_LATENCY_MIN_MS \in 0..c.CHAOS_LATENCY_MAX_MS

ValidSourceLimits(c) ==
    c.SOURCE_RATE_LIMIT_ENABLED =>
        \A n \in {c.SOURCE_RATE_LIMIT_DEFAULT} \cup c.SOURCE_RATE_LIMITS : n \in 1..1000000

(* Config.Validate; without required secrets it returns before the checks of
   the chaos settings and of the source limits. *)
Validate(c) ==
    /\ \A k \in DOMAIN Ranges : c[k] \in Ranges[k]
    /\ ValidLimits(c) /\ ValidStores(c) /\ ValidBackpressure(c) /\ ValidBackends(c)
    /\ ValidAdmin(c)
    /\ IF c.REQUIRE_SECRETS
       THEN ValidSecrets(c) /\ ValidChaos(c) /\ ValidSourceLimits(c)
       ELSE IsNonProdEnvironment(c.ENVIRONMENT)

(* configsEqual compares every setting but LOG_LEVEL. *)
configsEqual(a, b) == \A k \in Settings \ {"LOG_LEVEL"} : a[k] = b[k]

ParseLevel(s) == IF s \in {"debug", "warn", "error"} THEN s ELSE "info"

=============================================================================
