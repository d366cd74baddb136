SPECIFICATION RelayFairSpec
CONSTANTS
    None = None
    User = User
    Default <- MCDefault
    Configs <- MCConfigs
    RequestCost = 2
    MaxLag = 1
    MaxClock = 5
    DefaultMaxTokens = 2
    ClaudeMaxTokens = 4
    Deposit = 16
    Apps = {"s01", "s02", "s03", "s04", "s05", "s06", "s07", "s08"}
    NumRequests = 2
    Followed <- MCFollowed
    Bodies <- MCBodies
    Answers <- MCAnswers
    UpstreamErrors = {429}
INVARIANTS
    WindowBound
    MissingIsSpent
    RelayTypeOK
    WithinReserve
    UsageIsCounted
    ConversationKept
PROPERTIES
    ImplementsLedger
    PostedAreAnswered
CHECK_DEADLOCK FALSE
