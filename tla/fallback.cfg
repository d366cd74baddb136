SPECIFICATION ObservedFairSpec
CONSTANTS
    None = None
    u1 = u1
    Users <- MCUsers
    NumRequests = 3
    DefaultMaxTokens = 2
    Deposit <- MCDeposit
    PromptTokens <- MCPromptTokens
    MaxTokens <- MCMaxTokens
    UsageTokens <- MCUsageTokens
    ContentTokens <- MCContentTokens
    UpstreamErrors <- MCUpstreamErrors
    Priorities <- MCPriorities
    MaxChannels = 2
INVARIANTS
    TypeOK
    HealthIsWhatFailed
    BackupsWait
    SpendingAccounted
    MetricsTellOutcomes
PROPERTIES
    ImplementsLedger
    AdmittedAreCounted
CHECK_DEADLOCK FALSE
