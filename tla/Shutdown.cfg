SPECIFICATION FairSpec
CONSTANTS
    Calls = {c1, c2, c3}
    Retries = {c3}
    Sources = {s1, s2}
    None = None
INVARIANTS
    OnlyRegisteredQueuesHold
    BackendOutlivesQueues
    AcceptedSurvivesShutdown
    PanicNeedsOverrun
PROPERTIES
    ShutdownCompletes
CHECK_DEADLOCK FALSE
