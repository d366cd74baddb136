SPECIFICATION Spec
CONSTANTS
    None = None
    openai = openai
    claude = claude
    gpt = gpt
    unknown = unknown
    Providers <- MCProviders
    Models <- MCModels
    ProviderOf <- MCProviderOf
    Priorities <- MCPriorities
    Weights <- MCWeights
    Picks <- MCPicks
    MaxChannels = 3
INVARIANTS
    TypeOK
    StandbysWait
    FailedStayOut
    NoneMeansNone
CHECK_DEADLOCK FALSE
