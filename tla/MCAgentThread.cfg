SPECIFICATION Spec
CONSTANTS
    MaxTurns = 2
    MaxAttempts = 0
    MaxTruncates = 0
    MaxRequests = 1
    MaxMessages = 2
    Prompts = {"user"}
    Fallback = FALSE
    MaxOverlapped = 2
INVARIANTS
    ToolUsesAnswered
    OneStop
    RunningIsLive
    NoOrphanResults
    ToolRunsOnce
    AnswersFollowPrompt
