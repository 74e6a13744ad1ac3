SPECIFICATION Spec
CONSTANTS
    p1 = p1
    p2 = p2
    own = own
    firm = firm
    unresolved = unresolved
    flagged = flagged
    Contacts = {own, firm, unresolved, flagged}
    Partners <- MCPartners
    SourceOf <- MCSourceOf
    Shared = Shared
    Flagged = {flagged}
    MaxFailures = 2
    MaxDeaths = 1
INVARIANTS
    DeliveredWasRead
    RepeatsOnlyAfterMisses
    RoutedByAttribution
PROPERTY EveryContactIsRead
CHECK_DEADLOCK FALSE
