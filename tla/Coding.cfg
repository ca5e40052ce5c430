SPECIFICATION FairSpec
CONSTANTS
    x = x
    Texts = {x}
    KeepRecent = 1
    MaxRetries = 1
    MaxPrompts = 2
    MaxEvents = 3
INVARIANTS
    TranscriptIsSession
    ToolResultsFollowCalls
    SummaryHasNoGap
    CompactsAndRetriesOnce
    IdleIsClean
CHECK_DEADLOCK FALSE
PROPERTIES
    WaitersReturn
