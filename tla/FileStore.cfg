SPECIFICATION FileSpec
CONSTANTS
    Backend = "file"
    Events = {e1, e2, e3}
    Long = {}
    ShortWrites = TRUE
    Limit = 3
    MaxLines = 4
    MaxFailures = 2
INVARIANTS
    LossBoundedByFailures
    DeletedStaysDeleted
    ListsNewestOnce
