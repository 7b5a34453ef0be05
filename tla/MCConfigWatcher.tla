--------------------------- MODULE MCConfigWatcher ---------------------------
(* Environments and files for ConfigWatcher: a production process with all
   secrets, a development process without, and one that lacks its secrets;
   files that are valid in one of them, in both, only in part or as a whole. *)
EXTENDS ConfigWatcher

Production ==
    [k \in WebhookSecrets \cup AdminJWT \cup {"ENVIRONMENT", "ADMIN_ALLOW_CIDRS", "LOG_LEVEL"} |->
        CASE k = "ENVIRONMENT" -> {"production"}
          [] k = "ADMIN_ALLOW_CIDRS" -> {{"10.0.0.0/8"}}
          [] k = "LOG_LEVEL" -> {"warn"}
          [] OTHER -> {"ok"}]

Development ==
    [REQUIRE_SECRETS |-> {FALSE}, ADMIN_AUTH_ENABLED |-> {FALSE}, SOURCE_RATE_LIMITS |-> {{5, -1}},
     QUEUE_WORKERS |-> {}]

Incomplete == [ENVIRONMENT |-> {"production"}]

MCEnvironments == {Production, Development, Incomplete}

Tuning == [LOG_LEVEL |-> {"debug"}, RETRY_MAX_ATTEMPTS |-> {5}]

LevelOnly == [LOG_LEVEL |-> {"error"}]

Chaotic ==
    [REQUIRE_SECRETS |-> {FALSE}, ADMIN_AUTH_ENABLED |-> {FALSE}, CHAOS_ENABLED |-> {TRUE},
     CHAOS_LATENCY_MIN_MS |-> {900}]

OpenProduction ==
    [ENVIRONMENT |-> {"production"}, ADMIN_ALLOW_CIDRS |-> {}, RATE_LIMIT_BACKEND |-> {"redis"}]

MCContents == {Tuning, LevelOnly, Chaotic, OpenProduction}
=============================================================================
