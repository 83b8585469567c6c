SPECIFICATION FairSpec
CONSTANTS
    Process = {p1, p2}
    Request = {q1}
    Migrations = 2
    Users = 2
INVARIANTS
    MigrationsRunOnce
    ServingIsReady
    WorkerLeavesBeforeClose
    RequestsLeaveBeforeClose
PROPERTIES
    StopIsFinal
CHECK_DEADLOCK FALSE
