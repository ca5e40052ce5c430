CONSTANTS
    Conns = {c1, c2}
    Tasks = {t1, t2}
    MaxLives = 1
SPECIFICATION FairSpec
PROPERTIES UnusedIsDisposed RequestsAnswered CloseCompletes
CHECK_DEADLOCK FALSE
