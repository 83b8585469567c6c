SPECIFICATION Spec
CONSTANTS
    Cell = {c1}
    Job = {j1}
    MaxVersion = 14
    CalibrationWriter = FALSE
INVARIANT
    ProductionIsUnreachable
CHECK_DEADLOCK FALSE
