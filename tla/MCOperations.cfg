SPECIFICATION PartSpec
CONSTANTS
    MaxFiles = 3
    MaxSize = 2
    MaxLength = 2
    MaxEntries = 7
    Probe = {p1}
    MaxChanges = 2
    MaxTemps = 1
CHECK_DEADLOCK FALSE
INVARIANTS
    FilesInOrder
    OldestGoFirst
    Retention
    FilesBounded
    ProbesCleanUp
PROPERTIES
    VerdictsAreTrue
    EntriesSettle
    ProbesSettle
