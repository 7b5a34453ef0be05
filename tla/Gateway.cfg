SPECIFICATION Spec
CONSTANTS
    r1 = r1
    r2 = r2
    r3 = r3
    Requests = {r1, r2, r3}
    Plans <- MCPlans
    Deployments <- MCDeployments
    NeverPruned = NeverPruned
    WindowSec = 1
    Retention = 1
    PruneInterval = 1
    General = 2
    Admin = 1
    SourceLimit = 1
    uiSmokeMaxRequestsPerMinute = 1
    CleanupN = 2
    MaxSkew = 1
    MaxClock = 2
    MaxFaults = 1
CHECK_DEADLOCK FALSE
INVARIANTS
    AdmissionBound
    GateKept
    SecurityAuditKept
PROPERTIES
    NoEarlyRefusal
