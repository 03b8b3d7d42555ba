CONSTANTS
    Requests = {r1, r2}
    Amounts = {1, 2}
    Absent = Absent
    MaxDeposits = 2
    MaxExpiries = 1
SPECIFICATION Spec
INVARIANTS
    WalletAccounted
    OverdrawnOnlyIfRaced
CHECK_DEADLOCK FALSE
