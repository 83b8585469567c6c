SPECIFICATION Spec
CONSTANTS
    Cell = {c1}
    Job = {j1}
    MaxVersion = 14
    CalibrationWriter = TRUE
INVARIANTS
    CommissionedIsAccepted
    FlagsMatchEvidence
    HistoryIsAPath
    CommissionedPassedEveryPhase
    OneWritePerVersion
    EvidenceIsFromReviews
    AdmittedByLatestEvidence
PROPERTY
    RetiredIsFinal
CHECK_DEADLOCK FALSE
