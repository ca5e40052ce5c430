SPECIFICATION FairSpec
CONSTANTS
    Leases = {a1, a2}
    MaxRequests = 4
    MaxConnections = 2
    MaxRevision = 1
    MaxInFlight = 3
INVARIANTS
    ReservationsHold
    NothingLeaked
    ActiveIsAttached
PROPERTIES
    LeaseCallsSettle
CHECK_DEADLOCK FALSE
