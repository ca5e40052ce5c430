SPECIFICATION Spec
CONSTANTS
    x = x
    Texts = {x}
    KeepRecent = 1
    MaxRetries = 1
    MaxPrompts = 2
    MaxEvents = 2
INVARIANTS
    ContinueIsAccepted
CHECK_DEADLOCK FALSE
