SPECIFICATION Spec
CONSTANTS
    i1 = i1
    i2 = i2
    app = app
    r1 = r1
    r2 = r2
    Tenant <- SmallTenant
    Limit <- SmallLimit
    Checks <- SmallChecks
    Request = {r1, r2}
    MaxDay = 2
    MaxBoots = 1
INVARIANTS
    TypeOK
    NoCounterAboveLimit
    QuotaEnforced
    HeldRowsFinal
    NothingForgotten
CHECK_DEADLOCK FALSE
