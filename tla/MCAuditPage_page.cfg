SPECIFICATION PageFairSpec
CONSTANTS
    Actions = {read}
    Results = {denied}
    All = All
    PerPage = 2
    FirstRows = 3
    MaxRows = 4
    MaxTime = 3
    MaxEdits = 2
    Asked = Asked
    None = None
INVARIANTS
    ChoicesHold
    PagesLeaveNoGap
PROPERTIES
    BoxAndAddressAgree
CHECK_DEADLOCK FALSE
