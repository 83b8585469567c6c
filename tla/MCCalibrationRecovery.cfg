SPECIFICATION FairSpec
CONSTANTS
    Cell = {c1}
    Job = {j1, j2}
    CellOf <- MCCellOf
    Phase = {"installing", "calibrating", "safety_review"}
    Reporter = {r1}
    Worker = {w1, w2}
    Owner <- MCOwner
    MaxAttempts = 2
    Lease = 1
    MaxFaults = 1
    MaxCalibrations = 2
INVARIANTS
    OneUndoPerReport
    SuccessEndsTheCalibration
PROPERTIES
    SettledReportsUndoNothing
    ReportsAreAnswered
CHECK_DEADLOCK FALSE
