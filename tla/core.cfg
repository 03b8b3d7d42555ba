CONSTANTS
    JobTask = job
    ResumeTasks = {r1, r2}
    ConfirmTasks = {k1}
    None = none
    Calls = {a, b, c}
    NeedsConfirm = {c}
    ClientSide = {c}
    Hidden = {b}
    MaxIterations = 3
    SnapshotInterval = 2
    MaxResumeIterations = 2
    MaxDecisions = 1
    MaxFailures = 0
    ResultsMayExpire = FALSE
SPECIFICATION FairSpec
INVARIANTS
    SequenceIdentifiesTurn
    InjectedOnce
PROPERTIES
    ImplementsToolTurns
    JobEnds
CHECK_DEADLOCK FALSE
