CONSTANTS
    Users = {u1}
    Tabs = {t1}
    Keys = {k1}
    None = None
    Lossy = FALSE
    DbFailures = FALSE
    MaxFresh = 2
SPECIFICATION Spec
INVARIANTS VaultsOpen
CHECK_DEADLOCK FALSE
