SPECIFICATION FairSpec
CONSTANTS
    MaxMessages = 1
    MaxCalls = 2
    MaxBatch = 2
    MaxThrows = 1
    SteeringMode = "one-at-a-time"
    FollowUpMode = "all"
    ToolModes = {"sequential", "parallel"}
    HookReplaces = TRUE
INVARIANTS
    ResultsFollowTheirCalls EveryCallAnswered AgentEndReportsRun
PROPERTIES RunSettles AgentEndIsLast
