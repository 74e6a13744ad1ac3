SPECIFICATION Spec
CONSTANTS
    owner = owner
    second = second
    tenant = tenant
    b1 = b1
    b2 = b2
    b3 = b3
    b4 = b4
    LeadIds = {owner, second, tenant}
    Bookable = {owner, second}
    Requests <- MCRequests
    Times = {1, 2, 3, 4}
    MaxPosts = 3
    MaxRunning = 2
CONSTRAINT EditOrRival
INVARIANTS
    ConfirmedWasHeld
    NoDoubleBooking
    ConfirmedForGood
    MailMatchesLead
    ConfirmationQueued
CHECK_DEADLOCK FALSE
