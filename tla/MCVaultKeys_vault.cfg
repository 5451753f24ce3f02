CONSTANTS
    Users = {u1, u2}
    Tabs = {t1, t2}
    Keys = {k1}
    None = None
    Lossy = TRUE
    DbFailures = TRUE
    MaxFresh = 2
SPECIFICATION Spec
SYMMETRY Symmetry
INVARIANTS TabsHoldTheirDek BackupsOpenVault KitWordsReachUser
PROPERTIES DekIsForLife
CHECK_DEADLOCK FALSE
