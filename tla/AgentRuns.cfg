SPECIFICATION Spec
CONSTANTS
    MaxMessages = 3
    MaxCalls = 0
    MaxBatch = 0
    MaxThrows = 2
    SteeringMode = "one-at-a-time"
    FollowUpMode = "all"
    ToolModes = {"sequential"}
    HookReplaces = FALSE
INVARIANTS
    QueuedInOrder NoMessageLost ContextIsTranscript
