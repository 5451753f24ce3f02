CONSTANTS
    Ids = {i1, i2}
    Envs = {dev}
    Names = {n1, n2}
    Values = {v1, v2}
    Rotators = {r1, r2}
    Writers = {w1}
    Users = {u1, u2}
    InitDek = d0
    None = None
    Gone = Gone
    PageSize = 1
    BatchSize = 1
    MaxOps = 1
    ReadErrors = TRUE
    Lossy = TRUE
    DbFailures = FALSE
SPECIFICATION Spec
SYMMETRY Symmetry
INVARIANTS QuietSecretsReadable VersionCountsRotations NoOrphanedStaging QuietGrantsCurrent VersionIdentifiesCiphertext
CHECK_DEADLOCK FALSE
