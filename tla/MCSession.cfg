SPECIFICATION SessionSpec
CONSTANTS
    s1 = s1
    s2 = s2
    before = before
    after = after
    pat = pat
    SubmissionIds = {s1, s2}
    Contents = {before, after}
    Exchanges = {}
    Persons = {pat}
    PersonOf <- MCPersonOf
    Bookable = {before}
    MaxPosts = 3
    MaxTime = 1
    QrCard = FALSE
    Initial = before
    MaxTroubles = 2
INVARIANTS
    ToldIsStored
    RecordsAreWarranted
    NeverConflicts
    RetryIsHonoured
PROPERTY OwnCallComesBack
CHECK_DEADLOCK FALSE
