SPECIFICATION MCSpec
CONSTANTS
    Cell = {c1}
    MaxVersion = 14
    Job = {j1}
    CalibrationWriter = TRUE
    Order = {o1, o2}
    Assignee = {a1}
    Part = {q1}
    NoPart = NoPart
    Stock <- MCStock
    MaxQuantity = 1
    MaxOrderVersion = 6
    MaintenanceQualified = {a1}
    Window = {w1}
    Workstation = {s1}
    Tool = {t1}
    Person = {p1}
    Instants <- MCInstants
    QualificationKind = {"welding"}
    Qualifications <- MCQualifications
    ToolActive <- MCToolActive
    CalibrationDue <- MCCalibrationDue
INVARIANTS
    RetirementStrandsNothing
    EveryMoveIsExplained
PROPERTIES
    CellsFollowTheirModel
    OrdersFollowTheirModel
SYMMETRY MCSymmetry
CHECK_DEADLOCK FALSE
