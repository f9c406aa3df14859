CONSTANTS
    Codes = {"TXF", "MXF", "OTC"}
    StreamCode = "TXF"
    OtcCode = "OTC"
    None = None
    DayLength = 10
    SessionStart = 2
    SessionEnd = 7
    SeriesCap = 2
    Tokens = {t1, t2}
    Ids = {1, 2, 3, 4}
    MaxWaiting = 2
    MaxAttempts = 1
    MaxPosted = 1
    Feeds <- MCMalformedFeeds
SPECIFICATION Spec
INVARIANT
    OnlyValidatedShown
CHECK_DEADLOCK FALSE
