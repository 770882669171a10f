CONSTANTS
    Clients = {c}
    Waits <- MCWaits
    TicksPerSecond = 3
    MaxPost = 4
SPECIFICATION CommandsFairSpec
INVARIANTS
    ReportsTruly
    NeverOverstays
PROPERTIES
    CommandEnds
CHECK_DEADLOCK FALSE
