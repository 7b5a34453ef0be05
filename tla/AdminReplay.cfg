SPECIFICATION Spec
CONSTANTS
    e1 = e1
    e2 = e2
    r1 = r1
    r2 = r2
    Events = {e1, e2}
    Requests = {r1, r2}
    Blank = Blank
    NoCursor = NoCursor
    AnyResult = AnyResult
    Plans <- MCPlans
    Earlier <- MCEarlier
    Queries <- MCQueries
    Backends = {"file", "postgres"}
    AuditIDs = {1, 2, 3}
    adminReplayBatchMaxEvents = 2
    MaxClock = 1
    MaxChanges = 1
    MaxFaults = 1
CHECK_DEADLOCK FALSE
INVARIANTS
    PublishedOncePerRequest
    ReplyTruthful
    AuditMatchesPublishes
    PagingExact
