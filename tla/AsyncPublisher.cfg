SPECIFICATION FairSpec
CONSTANTS
    Events = {e1, e2, e3}
    Workers = {w1, w2}
    Closers = {k1, k2}
    None = None
    Buffer = 2
    Enabled = TRUE
    SoftLimit = 30
    HardLimit = 90
    Budget = 50
    FailureWindow = 2
    MinSamples = 2
INVARIANTS
    NoAcceptedEventLost
    NoEventProcessedTwice
    DrainedOnClose
    WindowMatchesHistory
    HealthyAdmits
PROPERTIES
    ImplementsEventQueue
    AcceptedSettles
    CloseReturns
CHECK_DEADLOCK FALSE
