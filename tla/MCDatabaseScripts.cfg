SPECIFICATION Spec
CONSTANTS
    Slot = {s1, s2}
    Primary = {"public", "core"}
    AppSchemas <- Schemas
    Assets <- Manifest
    OnTable = {"index"}
    InSteps = {"index"}
    Versions = {1, 2}
    Migrations = {m1, m2, m3}
    MaxStarts = 2
SYMMETRY Symmetry
INVARIANTS
    RepairsSucceed
    RecordTellsTruth
    RegistryTellsTruth
PROPERTIES
    FinishedMeansDone
CHECK_DEADLOCK FALSE
