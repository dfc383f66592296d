SPECIFICATION FairSpec
CONSTANTS
    MaxTurns = 2
    MaxAttempts = 1
    MaxTruncates = 1
    MaxRequests = 2
    MaxMessages = 2
    Prompts = {"user", "resume"}
    Fallback = TRUE
    MaxOverlapped = 0
INVARIANTS
    NoOrphanResults
PROPERTIES
    CancelledTurnEnds
    EveryTurnEnds
