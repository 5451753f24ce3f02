CONSTANTS
    Ids = {i1, i2}
    Envs = {dev, prod}
    Names = {n1}
    Values = {v1}
    Rotators = {r1, r2}
    Writers = {}
    Users = {u1}
    InitDek = d0
    None = None
    Gone = Gone
    PageSize = 1
    BatchSize = 1
    MaxOps = 1
    ReadErrors = TRUE
    Lossy = TRUE
    DbFailures = TRUE
SPECIFICATION FairSpec
PROPERTIES EveryRotationSettles
CHECK_DEADLOCK FALSE
