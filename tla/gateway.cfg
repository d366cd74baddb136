SPECIFICATION GatewayFairSpec
CONSTANTS
    None = None
    u1 = u1
    u2 = u2
    Users <- TwoUsers
    NumRequests = 2
    DefaultMaxTokens = 2
    Deposit <- MCDeposit
    PromptTokens <- MCPromptTokens
    MaxTokens <- MCMaxTokens
    UsageTokens <- MCUsageTokens
    UpstreamErrors <- MCUpstreamErrors
    Capacity = 1
INVARIANTS
    GatewayTypeOK
    BooksBalance
    MetricsMatchBills
    LogIsTheBill
PROPERTIES
    ImplementsLedger
    ImplementsJournal
    PostedCallsEnd
    DisconnectsAreRefunded
    BilledCallsAreListed
CHECK_DEADLOCK FALSE
