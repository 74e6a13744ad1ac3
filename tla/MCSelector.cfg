SPECIFICATION SelectorSpec
CONSTANTS
    Available <- MCAvailable
    English = "en"
    Keys <- MCKeys
    ReviewedCatalogs <- MCReviewed
    AuditCandidates <- MCCandidates
    ScriptFonts = {"hi"}
PROPERTY SettlesOnItsLanguage
