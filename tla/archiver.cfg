CONSTANTS
    Instances = {a1, a2}
    Entries = 3
    RowEvents = {1, 2}
    StartEvents = {}
    EndEvents = {3}
    BatchSize = 2
    MaxTroubles = 1
    MaxSaves = 1
    Nobody = nobody
SPECIFICATION FairSpec
INVARIANTS
    ArchivedOnce
    NumberedInOrder
    EndedStaysEnded
PROPERTY EventuallyArchived
CHECK_DEADLOCK FALSE
