SPECIFICATION LiveSpec
CONSTANTS
    MAX_CLIFF = 2
    MAX_DURATION = 3
    MAX_SUPPLY = 6
    MAX_U64 = 12
    Genesis = 4
    Epoch = 2
    Allocations = {0, 2, 4}
    Schedules <- MCSchedules
    GrantSchedules <- MCGrantSchedules
    Exposed = {1, 2}
    MaxVests = 2
    MaxTime = 7
CHECK_DEADLOCK FALSE
INVARIANTS
    EscrowCoversVests
    NeverAheadOfSchedule
PROPERTIES
    TermsFixed
    GrantsArrive
    VestsPaidOut
