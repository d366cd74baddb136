SPECIFICATION ChainFairSpec
CONSTANTS
    None = None
    plain = plain
    other = other
    streaming = streaming
    u1 = u1
    Payloads <- MCPayloads
    Streamed <- MCStreamed
    NumRequests = 3
    TTL = 2
    MaxClock = 3
    DefaultMaxTokens = 2
    Users <- MCUsers
    Deposit <- MCDeposit
    PromptTokens <- MCPromptTokens
    MaxTokens <- MCMaxTokens
    UsageTokens <- MCUsageTokens
    ContentTokens <- MCContentTokens
INVARIANTS ChainTypeOK HitsAreFresh NothingLeftBehind LoggedIsPaid
PROPERTIES ImplementsJournal ImplementsLedger PaidAnswersAreListed
CHECK_DEADLOCK FALSE
