SPECIFICATION SessionSpec
CONSTANTS
    s1 = s1
    s2 = s2
    before = before
    after = after
    pat = pat
    SubmissionIds = {s1, s2}
    Contents = {before, after}
    Exchanges = {before, after}
    Persons = {pat}
    PersonOf <- MCPersonOf
    Bookable = {}
    MaxPosts = 3
    MaxTime = 1
    QrCard = TRUE
    Initial = before
    MaxTroubles = 2
INVARIANT EditsAreSent
CHECK_DEADLOCK FALSE
