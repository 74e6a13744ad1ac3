SPECIFICATION SchedulingSpec
CONSTANTS
    owner = owner
    b1 = b1
    b2 = b2
    LeadIds = {owner}
    Bookable = {owner}
    Requests <- MCRequests
    Times = {1, 2, 3}
    MaxPosts = 3
    MaxRunning = 2
    Visitor = owner
    MaxTroubles = 1
INVARIANT UnchangedRetryHoldsOnce
CHECK_DEADLOCK FALSE
