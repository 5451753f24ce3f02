CONSTANTS
    n1 = n1
    n2 = n2
    v1 = v1
    v2 = v2
    c1 = c1
    c2 = c2
    None = None
    Names = {n1, n2}
    Schema = {n1, n2}
    Values = {v1, v2}
    Invalid = {v2}
    PageSize = 2
    MaxWrites = 1
    MaxDek = 1
    Programs = {"app", "build", "serve"}
    Written <- OneOfEachForm
    Asking = {c1}
    Polling = {c1, c2}
    Initial <- OneEach
SPECIFICATION Spec
INVARIANTS LoadedAsStored RevokedMeansNoAnswers BuildHasSecrets
PROPERTIES DefinesCatchUp
CHECK_DEADLOCK FALSE
