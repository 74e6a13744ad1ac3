SPECIFICATION Spec
CONSTANTS
    inquiry = inquiry
    exchange = exchange
    s1 = s1
    s2 = s2
    Exchanges = {exchange}
    Reachable = {inquiry, exchange}
    Keys <- MCKeys
    Audit <- MCAudit
    AuditLeads <- MCAuditLeads
    MaxAttempts = 2
    MaxItems = 2
    Backoff <- MCBackoff
    MaxAge = 1
    MaxDeaths = 1
INVARIANTS
    DuplicatesOnlyFromLoss
    SucceededIsTrue
PROPERTIES
    TerminalIsFinal
    EveryItemFinishes
CHECK_DEADLOCK FALSE
