SPECIFICATION Spec
CONSTANTS
    s1 = s1
    s2 = s2
    inquiry = inquiry
    exchange = exchange
    pat = pat
    SubmissionIds = {s1, s2}
    Contents <- MCContents
    Exchanges <- MCExchanges
    Persons = {pat}
    PersonOf <- MCPersonOf
    Bookable = {inquiry}
    MaxPosts = 3
    MaxTime = 2
SYMMETRY Symmetry
INVARIANTS
    OneRecordPerRequest
    RepairsReproduceTheAudit
    AcceptedIsComplete
PROPERTY ImplementsAtomicIntake
CHECK_DEADLOCK FALSE
