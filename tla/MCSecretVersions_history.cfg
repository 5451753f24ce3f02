CONSTANTS
    Clients = {a, b}
    Ciphertexts = {c1, c2}
    Fields = {f}
    Ops = {"create", "update", "patch", "rollback", "delete"}
    MaxCalls = 2
    MaxVersion = 1
    DbFailures = TRUE
    None = None
SPECIFICATION Spec
SYMMETRY Symmetry
INVARIANTS QuietVersionsKept QuietMetadata
PROPERTIES KeepsPromise
CHECK_DEADLOCK FALSE
