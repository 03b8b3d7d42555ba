CONSTANTS
    Jobs = {j1, j2}
    Contenders = {h1, h2, h3}
    None = none
    TTL = 2
    MaxHold = 3
    MaxExtends = 1
    MaxExpiries = 2
SPECIFICATION LockSpec
INVARIANT Exclusion
