SPECIFICATION CardSpec
CONSTANTS
    zachary = zachary
    ethaniel = ethaniel
    Partners = {zachary, ethaniel}
    Entries <- MCEntries
    PrepareDelay = 1
    PrepareTimeout = 2
    RevokeDelay = 3
    MaxPresses = 2
    MaxMounts = 4
    MaxTime = 5
INVARIANTS
    SaveStatesAreHonest
    UrlsAreReleasedLate
    ExchangeIsAccepted
CHECK_DEADLOCK FALSE
