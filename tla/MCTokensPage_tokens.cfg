CONSTANTS
    ci = ci
    web = web
    None = None
    Asked = Asked
    Names = {ci, web}
    MaxTokens = 2
    MaxReqs = 1
    Made = {ci}
    Filters = {"all", "active"}
    First <- OneActive
SPECIFICATION Spec
INVARIANTS DestroysOnlyRevoked TargetHasTypedName PlaintextNotSuperseded
