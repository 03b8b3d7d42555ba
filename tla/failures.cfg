CONSTANTS
    JobTask = job
    ResumeTasks = {r1, r2}
    ConfirmTasks = {k1}
    None = none
    Calls = {a, c}
    NeedsConfirm = {c}
    ClientSide = {c}
    Hidden = {a}
    MaxIterations = 2
    SnapshotInterval = 9
    MaxResumeIterations = 2
    MaxDecisions = 1
    MaxFailures = 1
    ResultsMayExpire = TRUE
SPECIFICATION Spec
SYMMETRY Symmetry
INVARIANTS
    LockExclusion
    SnapshotBeforeDispatch
    ConversationWellFormed
    StuckOnlyIfMissed
    ResultsShown
CHECK_DEADLOCK FALSE
