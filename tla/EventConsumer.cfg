\* Three messages, one of each kind, and two handlers.
SPECIFICATION Spec
CONSTANTS
    Messages = {good, bad, nul}
    Invalid = {bad}
    Refused = {nul}
    MaxOutstanding = 2
    MaxAttempt = 2
    MaxFaults = 3
INVARIANTS
    AckedIsStored
    OpenWhileHandling
PROPERTIES
    EventuallyAcked
