SPECIFICATION Spec
CONSTANTS
    Interval = 2
    Cap = 3
    MaxTime = 3
    MaxCommits = 4
INVARIANTS
    TypeOK
    PlannedFloorHolds
    FlusherInvisible
    PendingIsTimed
PROPERTIES
    BatchBecomesDurable
    CommitReturns
CHECK_DEADLOCK FALSE
