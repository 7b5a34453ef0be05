SPECIFICATION FairSpec
CONSTANTS
    Instances = {i1, i2}
    None = None
    TTL = 3
    PassTime = 2
INVARIANTS
    OneInstanceRetries
    QuietAfterStop
PROPERTIES
    RetriesGoOn
    StopTerminates
CHECK_DEADLOCK FALSE
