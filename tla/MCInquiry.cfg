SPECIFICATION InquirySpec
CONSTANTS
    LaunchReady = {"en", "es", "vi"}
    Spellings <- MCSpellings
    Entries <- MCEntries
    MaxLate = 1
INVARIANTS
    WellFormedOnTheWire
    BookingForProposalsOnly
    InvolvementShownWasSent
CHECK_DEADLOCK FALSE
