----------------------- MODULE MCCalibrationRecovery -----------------------
(***************************************************************************)
(* Two reports about one cell that is calibrated up to twice, two workers  *)
(* under one name, as two server processes have it, two attempts and one   *)
(* lost claim: a report can be late by a calibration, and a second attempt *)
(* can follow a first one that took effect.  Any status besides the two    *)
(* the code looks at is like any other: safety_review stands for them.     *)
(***************************************************************************)
EXTENDS CalibrationRecovery

MCCellOf == [j \in Job |-> CHOOSE c \in Cell : TRUE]

MCOwner == [w \in Worker |-> "server-worker"]

=============================================================================
