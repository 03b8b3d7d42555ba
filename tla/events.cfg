CONSTANTS
    Publishers = {p1, p2}
    Events = {d, m, t, r}
    Deltas = {d}
    Terminals = {t}
    Raw = {r}
    Idle = idle
    MaxTries = 2
    CatchupLimit = 2
    CheckLimit = 2
    MayBeCold = TRUE
    MaxConnects = 2
    MaxFailures = 1
SPECIFICATION FairSpec
INVARIANTS
    ReceivedOnce
    NothingMissed
    PrefixReceived
PROPERTY TerminalArrives
CHECK_DEADLOCK FALSE
