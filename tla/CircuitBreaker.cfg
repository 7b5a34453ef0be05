SPECIFICATION FairBreakerSpec
CONSTANTS
    Callers = {c1, c2, c3}
    Threshold = 2
    RecoveryDelay = 2
    MaxFailures = 5
INVARIANTS
    ClosedIffBelowThreshold
PROPERTIES
    ProbeFailureReopens
    Recovers
