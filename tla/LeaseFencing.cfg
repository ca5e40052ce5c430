CONSTANTS
  Repos = {r1, r2}
  TTL = 2
  HB = 1
  MaxDelay = 0
  Timely = FALSE
  Busy = TRUE
  Jobs = {"delete", "repair"}
  MaxOwners = 2
  MaxSessions = 2
  MaxQueue = 1
  MaxWrites = 2
SYMMETRY Symmetry
SPECIFICATION Spec
INVARIANTS FencedWrites NoForeignSession
PROPERTY LiveLeaseIsStable
