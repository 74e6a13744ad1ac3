SPECIFICATION RulesSpec
CONSTANTS
    LaunchReady = {"en", "es", "vi"}
    Spellings <- MCSpellings
    MaxAheadDays = 8
    MaxBytes = 10
    ShellOverhead = 2
    RepackStep = 2
    RepackAttempts = 3
    MinBudget = 1
    RetentionDays = 1
    Segments <- MCSegments
    Zones <- MCZones
    FirstInstant <- MCFirst
    LastInstant <- MCLast
    Costs <- MCCosts
    Gathered <- MCGathered
    Rows <- MCRows
    Arrivals <- MCArrivals
    MaxSegments = 4
    MaxContacts = 4
    MaxRows = 3
    EmailKeyOf <- MCEmailKeyOf
    PhoneKeyOf <- MCPhoneKeyOf
    SlugToPartner <- MCSlugToPartner
    FirmSlug = "axispoint-partners"
    BookableServiceScopes = {"pm", "pm_plus_am", "undecided"}
    Minted <- MCMinted
    MaxSuggestions = 2
    MinFillSeconds = 3
    Envelopes <- MCEnvelopes
    Readings <- MCReadings
    People <- MCPeople
    MaxPeople = 3
    ExpectedHeaders <- MCHeaders
    KeyOf <- MCKeyOf
    TabRecords <- MCTabRecords
    Patches <- MCPatches
    Retyped <- MCRetyped
    MaxRecords = 2
    PartnerTokens = {"zachary_russell", "ethaniel_vu"}
    Addressees <- MCAddressees
    Translated <- MCTranslated
    MailLocales <- MCMailLocales
    Drafts <- MCDrafts
    Gatherings <- MCGatherings
INVARIANTS
    LettersAreHonest
    RepairsReproduce
    ColumnsKeepTheirMeaning
    SettingsAreHonest
    OnePageOneAddress
    OfferedSlotsAreAccepted
    DueOnNextBusinessDay
    DigestPacksAll
    RetentionKeepsPending
CHECK_DEADLOCK FALSE
