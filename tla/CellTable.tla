----------------------------- MODULE CellTable -----------------------------
(***************************************************************************)
(* The table robot_cells and the gate every move of its status passes      *)
(* (internal/lifecycle); CellLifecycle has the operations that write it.   *)
(***************************************************************************)
EXTENDS Naturals, CellStates

CONSTANTS
    Cell,            \* ids of robot_cells
    MaxVersion       \* bound on the version column, where TLC stops counting

ASSUME MaxVersionAssumption == MaxVersion \in Nat

VARIABLE cells       \* robot_cells, by id

\* calibrated stands for a non-empty calibration_ref.
RobotCell == [status : CellStatus, safety : BOOLEAN, quality : BOOLEAN,
              calibrated : BOOLEAN, version : Nat]

NoCell == [status |-> "none"]        \* the id is not in the table

NewCell == [status |-> "surveyed", safety |-> FALSE, quality |-> FALSE,
            calibrated |-> FALSE, version |-> 1]

Exists(c) == cells[c] # NoCell

Accepted(cell) == cell.safety /\ cell.quality /\ cell.calibrated

\* Mutant: the gate before production forgets the quality conclusion.
CanTransitionWithoutQuality(cell, next) ==
    /\ << cell.status, next >> \in cellTransitions
    /\ cell.status = "safety_review" /\ next = "production"
           => cell.safety /\ cell.calibrated

\* Mutant: the gate does not ask for a calibration_ref.
CanTransitionWithoutCalibration(cell, next) ==
    /\ << cell.status, next >> \in cellTransitions
    /\ cell.status = "safety_review" /\ next = "production"
           => cell.safety /\ cell.quality

CanTransition(cell, next) ==
    /\ << cell.status, next >> \in cellTransitions
    /\ cell.status = "safety_review" /\ next = "production" => Accepted(cell)

\* Every write of the table but one (see WriteCalibrationRef) takes a version.
HasVersionLeft(c) == cells[c].version < MaxVersion

=============================================================================
