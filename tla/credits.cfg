CONSTANTS
    Tenants = {t1}
    Plans = {p1}
    Amounts = {1, 2}
    Grants = {1}
    Cycle = 1
    Lifetime = 1
    NoRow = NoRow
    MaxTime = 2
    MaxTopUps = 2
    MaxRequests = 2
SPECIFICATION Spec
INVARIANTS
    TopUpsAccounted
    OldestFirst
    RenewedOncePerPeriod
CHECK_DEADLOCK FALSE
