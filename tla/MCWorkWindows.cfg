SPECIFICATION Spec
CONSTANTS
    Window = {w1, w2}
    Cell = {1}
    Workstation = {1, 2}
    Tool = {1, 2, 3}
    Person = {1, 2}
    Instants <- MCInstants
    QualificationKind = {"calibration", "welding"}
    Qualifications <- MCQualifications
    ToolActive <- MCToolActive
    CalibrationDue <- MCCalibrationDue
INVARIANTS
    ReservedHoldsItsResources
    NoDoubleBookingOnWholeSeconds
    DoubleBookingIsBelowOneSecond
CHECK_DEADLOCK FALSE
