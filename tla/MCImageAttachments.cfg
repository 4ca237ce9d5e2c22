SPECIFICATION Spec
CONSTANTS
    Owner = {o1}
    Request = {r1, r2}
    Path = {f1, f2, f3, f4, f5}
    Maximum = 3
    MaxFiles = 2
    NoPath = NoPath
    NoOwner = NoOwner
SYMMETRY Symmetry
INVARIANTS
    RowsHaveFiles
    NoLeak
PROPERTIES
    OverrunIsOverlap
    AppendedLast
    SnapshotKept
