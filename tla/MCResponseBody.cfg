SPECIFICATION Spec
CONSTANTS
    Nil = Nil
    Input = Input
    Output = Output
    UsageKeys <- MCUsageKeys
    SSETokens <- MCSSETokens
    PlainTokens <- MCPlainTokens
    MaxSSETokens = 6
    MaxPlainTokens = 4
INVARIANTS
    ReportedOnce
    MatchesReference
    SkipNoticedOnce
PROPERTY
    ResultStands
