SPECIFICATION Spec
CONSTANTS
    i1 = i1
    i2 = i2
    app = app
    r1 = r1
    r2 = r2
    Tenant <- MCTenant
    Limit <- MCLimit
    Checks <- MCChecks
    Request = {r1}
    MaxDay = 2
    MaxBoots = 2
INVARIANTS
    CountsExact
    MemoryAuthoritative
    GracefulShutdownSavesAll
PROPERTIES
    MeterKept
    OnlyUnflushedLost
CHECK_DEADLOCK FALSE
