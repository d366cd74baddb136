SPECIFICATION Spec
CONSTANTS
    None = None
    u1 = u1
    Users <- OneUser
    NumRequests = 2
    DefaultMaxTokens = 2
    Deposit <- MCDeposit
    PromptTokens <- MCPromptTokens
    MaxTokens <- MCMaxTokens
    UsageTokens <- MCUsageTokens
    UpstreamErrors <- MCUpstreamErrors
    Capacity = 1
PROPERTY FailedCallsAreFree
CHECK_DEADLOCK FALSE
