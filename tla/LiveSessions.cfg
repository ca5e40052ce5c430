CONSTANTS
    Conns = {c1, c2}
    Tasks = {t1, t2}
    MaxLives = 2
SPECIFICATION Spec
INVARIANTS AttachedControlsRuntime RuntimeExclusive OperationKeepsRuntime
CHECK_DEADLOCK FALSE
