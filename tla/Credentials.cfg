CONSTANTS
    Procs = {"p1", "p2"}
    Tasks = {t1, t2}
    Reloads = {"r1"}
    ProcessOf <- OneProcess
    Providers = {"a"}
    OAuth = {"a"}
    Free = "free"
    Dead = "dead"
    StaleSync = 1
    StaleAsync = 3
    UpdateEvery = 2
    Timely = TRUE
    MaxTokens = 2
    MaxLogouts = 1
    MaxFaults = 1
SPECIFICATION Spec
INVARIANTS OneRefreshPerToken CacheIsCurrent ReadersKeepReload
PROPERTIES NoLostUpdate
CHECK_DEADLOCK FALSE
SYMMETRY TaskSymmetry
