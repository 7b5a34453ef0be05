SPECIFICATION Spec
CONSTANTS
    Backend = "postgres"
    Events = {e1}
    Deliveries = 3
    Workers = {w1, w2}
    None = None
    Buffer = 2
    Retrying = TRUE
    MaxRetries = 1
    ListLimit = 2
    NotJSON = {}
    Overrun = {e1}
    DeadlinesPass = TRUE
    StoreErrors = TRUE
    DedupErrors = TRUE
    MaxAttempts = 2
INVARIANTS
    MarkedIsHeld
PROPERTIES
    LossesNamed
CHECK_DEADLOCK FALSE
