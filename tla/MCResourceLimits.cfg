SPECIFICATION Spec
CONSTANTS
    Id = {i1, i2, i3}
    Owner = {o1}
    Request = {r1, r2}
    Ask <- RichAndPlain
    Config <- Configs
    Safety = 2
    MaxWrites = 1
    None = None
CONSTRAINT OneDisturbance
SYMMETRY Symmetry
INVARIANTS
    VerdictIsRight
    OverrunIsOverlap
    WalksAreShort
