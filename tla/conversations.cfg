CONSTANTS
    Clients = {c1, c2}
    MaxJobs = 3
    MaxRecords = 2
    MaxSwitches = 2
    MaxFailures = 1
SPECIFICATION ConvSpec
INVARIANTS
    AnswersInPlace
PROPERTIES
    OwnWriteShown
    AnswersKeepBranch
CHECK_DEADLOCK FALSE
