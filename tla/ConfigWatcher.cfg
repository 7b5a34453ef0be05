SPECIFICATION Spec
CONSTANTS
    Environments <- MCEnvironments
    Contents <- MCContents
    NoFile = NoFile
    MaxWrites = 2
    MaxEvents = 2
CHECK_DEADLOCK FALSE
INVARIANTS
    CurrentAlwaysValid
    LevelMatchesCurrent
PROPERTIES
    Converges
