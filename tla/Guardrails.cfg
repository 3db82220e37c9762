SPECIFICATION Spec
CONSTANTS
    nan = nan
    malformed = malformed
    noPrompt = noPrompt
    none = none
    NaN = nan
    Malformed = malformed
    NoPrompt = noPrompt
    None = none
    Texts <- MCTexts
    Letters <- MCLetters
    Digits <- MCDigits
    Keywords <- MCKeywords
    Tenant <- MCTenant
    ValidNumber <- MCValidNumber
    Lower <- MCLower
    Floats <- MCFloats
    Fields <- MCFields
    Actions <- MCActions
    Prompts <- MCPrompts
    Tenants <- MCTenants
    Totals = {0, 5, 6}
    RequestModel <- MCRequestModel
INVARIANTS
    TypeOK
    LoadsAsWritten
    DecisionAsWritten
    ScoreCountsAll
    OneSignalNeverBlocks
PROPERTIES
    ServesAndAnswers
CHECK_DEADLOCK FALSE
