SPECIFICATION ApiSpec
CONSTANTS
    None = None
    Route <- Routes
    Returned <- Payloads
    Thrown <- Exceptions
    Snapshot <- Snapshots
    Violations <- Lists
    Depth <- Depths
    Id = {1, 2, 3}
    Key = {1, 2}
    DefaultLimit = 1
    MaxLimit = 2
    Limit = {None, 5}
    MaxChanges = 2
INVARIANTS
    WalkMissesNoOne
    WalkRepeatsNoOne
    SuccessIsDue
    FieldsReported
    ErrorsExplained
CHECK_DEADLOCK FALSE
