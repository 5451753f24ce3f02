CONSTANTS
    c1 = c1
    Contacts = {c1}
    ContactTabs = {t1, t2}
    ContactOf <- AllOfContact
    Devices = {d1, d2}
    Ids = {i1, i2}
    Nothing = Nothing
    Failures = TRUE
SPECIFICATION RecoverySpec
SYMMETRY Symmetry
INVARIANTS ReplacedAfterWaiting CancelStands RecoversOnce
CHECK_DEADLOCK FALSE
