------------------------- MODULE MCRobotCellSystem -------------------------
(***************************************************************************)
(* The system from the day a cell enters production, which CellLifecycle   *)
(* reaches with its tenth version at the earliest: what the components do  *)
(* to one another begins there.  Two orders compete for the last piece of  *)
(* a part, and one window can be reserved.                                 *)
(***************************************************************************)
EXTENDS RobotCellSystem, TLC

MCPath == << "surveyed", "proposed", "approved", "scheduled", "installing",
             "calibrating", "safety_review", "production" >>

MCRow(i) == [from |-> MCPath[i], to |-> MCPath[i + 1], request |-> "user",
             at |-> IF i = 7 THEN 10 ELSE i + 1]

MCInspections == << [kind |-> "safety", passed |-> TRUE, at |-> 8],
                    [kind |-> "quality", passed |-> TRUE, at |-> 9] >>

At(s) == [sec |-> s, frac |-> 0]

MCStart == At(0)

MCInit ==
    /\ cells = [c \in Cell |-> [status |-> "production", safety |-> TRUE, quality |-> TRUE,
                                calibrated |-> TRUE, version |-> 10]]
    /\ history = [c \in Cell |-> [i \in 1..7 |-> MCRow(i)]]
    /\ inspections = [c \in Cell |-> MCInspections]
    /\ orders = [o \in Order |-> MO!NoOrder]
    /\ parts = [p \in Part |-> [available |-> Stock[p], reserved |-> 0]]
    /\ movements = {}
    /\ now = MCStart /\ windows = [w \in Window |-> NoWindow] /\ reservations = {}
    /\ late = {}

MCSpec == MCInit /\ [][SystemNext]_systemVars

MCSymmetry == Permutations(Order)

MCStock == [p \in Part |-> 1]
MCInstants == { At(0), At(1), At(2) }
MCQualifications == { [person |-> p, kind |-> "welding", from |-> At(0), to |-> At(9)] : p \in Person }
MCToolActive == [t \in Tool |-> TRUE]
MCCalibrationDue == [t \in Tool |-> At(9)]

=============================================================================
