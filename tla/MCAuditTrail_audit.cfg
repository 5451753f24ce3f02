SPECIFICATION FairSpec
CONSTANTS
    MaxEvents = 3
    BatchSize = 2
    Lengths <- MonthLengths
    RetainMonths = 2
    CreateAhead = 1
    ScanBack = 2
    LastMonth = 2
    MaxStarts = 1
    MaxFaults = 1
INVARIANTS
    ExactlyOnce
    SteadyServerLosesNothing
PROPERTIES
    KeptForRetention
    QueuedEventsLeave
CHECK_DEADLOCK FALSE
