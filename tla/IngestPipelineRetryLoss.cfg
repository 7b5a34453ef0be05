SPECIFICATION Spec
CONSTANTS
    Backend = "file"
    Events = {e1}
    Deliveries = 1
    Workers = {w1}
    None = None
    Buffer = 1
    Retrying = TRUE
    MaxRetries = 3
    ListLimit = 2
    NotJSON = {}
    Overrun = {}
    DeadlinesPass = FALSE
    StoreErrors = FALSE
    DedupErrors = FALSE
    MaxAttempts = 2
INVARIANTS
    NoEventLost
CHECK_DEADLOCK FALSE
