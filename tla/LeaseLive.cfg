CONSTANTS
  Repos = {r1, r2}
  TTL = 2
  HB = 1
  MaxDelay = 0
  Timely = FALSE
  Busy = FALSE
  Jobs = {"close", "delete"}
  MaxOwners = 2
  MaxSessions = 1
  MaxQueue = 1
  MaxWrites = 0
SPECIFICATION FairSpec
PROPERTIES StaleOwnerLearns JobsFinish
