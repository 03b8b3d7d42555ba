CONSTANTS
    Members = {m1, m2}
    Messages = 3
    MaxActive = 2
    Nobody = nobody
    MaxTroubles = 1
SPECIFICATION FairSpec
INVARIANTS
    NothingSkipped
    OncePerAssignment
PROPERTIES
    CommitsAdvance
    EventuallyAnswered
CHECK_DEADLOCK FALSE
