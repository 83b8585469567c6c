--------------------------- MODULE CellLifecycle ---------------------------
(***************************************************************************)
(* The life of a robot cell from its survey to its retirement:             *)
(* internal/service/lifecycle.go and internal/store/lifecycle.go, with the *)
(* two status writes AdvanceMaintenance makes to the same table.           *)
(*                                                                         *)
(* Each store method is one SQLite transaction and one action here.  The   *)
(* other tables a retirement looks at (maintenance orders, reservations,   *)
(* batches) are summarised by the set busy, which the environment changes. *)
(***************************************************************************)
EXTENDS CellTable, Identity, Sequences

CONSTANTS
    Job,               \* recovery jobs of kind calibration_compensation
    CalibrationWriter  \* whether somebody fills calibration_ref from outside

ASSUME LifecycleAssumption ==
    /\ CalibrationWriter \in BOOLEAN
    /\ "user" \notin Job

VARIABLES
    history,           \* cell_transitions, by cell, oldest first
    inspections,       \* inspections, by cell, oldest first
    busy               \* cells an open order, a reservation or a batch needs

vars == << cells, history, inspections, busy >>

-----------------------------------------------------------------------------
InspectionKind == { "safety", "quality" }

\* Rows keep the version their transaction wrote in place of its time.
Transition == [from : CellStatus, to : CellStatus,
               request : Job \cup {"user"}, at : Nat]

Inspection == [kind : InspectionKind, passed : BOOLEAN, at : Nat]

\* Service.Transition's map of targets; it has no entry for "surveyed", and
\* "retired" goes to RetireCell.
allowed == [ proposed |-> {"integrator"}, approved |-> {"line_manager"},
             scheduled |-> {"line_manager"},
             installing |-> {"integrator", "operator"},
             calibrating |-> {"integrator"}, safety_review |-> {"integrator"},
             production |-> {"line_manager"},
             maintenance |-> {"maintenance_engineer"} ]

InspectorOf(kind) == IF kind = "quality" THEN "quality_engineer" ELSE "safety_officer"

\* Mutant: the row is built from the cell read after the update.
LogAfterUpdate(c, next, request) ==
    history' = [history EXCEPT ![c] = Append(@,
        [from |-> next, to |-> next, request |-> request,
         at |-> cells[c].version + 1])]

Log(c, next, request) ==
    history' = [history EXCEPT ![c] = Append(@,
        [from |-> cells[c].status, to |-> next, request |-> request,
         at |-> cells[c].version + 1])]

Moved(c, next) == [cells[c] EXCEPT !.status = next, !.version = @ + 1]

-----------------------------------------------------------------------------
Init ==
    /\ cells = [c \in Cell |-> NoCell]
    /\ history = [c \in Cell |-> << >>]
    /\ inspections = [c \in Cell |-> << >>]
    /\ busy = {}

CreateCell(c, role) ==
    /\ role \in {"line_manager", "integrator"}
    /\ ~Exists(c)
    /\ cells' = [cells EXCEPT ![c] = NewCell]
    /\ UNCHANGED << history, inspections, busy >>

\* Mutant: the status changes without a row in cell_transitions.
TransitionWithoutRow(c, expected, next, role) ==
    /\ role \in allowed[next]
    /\ Exists(c) /\ HasVersionLeft(c)
    /\ cells[c].version = expected
    /\ CanTransition(cells[c], next)
    /\ cells' = [cells EXCEPT ![c] = Moved(c, next)]
    /\ UNCHANGED << history, inspections, busy >>

TransitionCell(c, expected, next, role) ==
    /\ role \in allowed[next]
    /\ Exists(c) /\ HasVersionLeft(c)
    /\ cells[c].version = expected
    /\ CanTransition(cells[c], next)
    /\ cells' = [cells EXCEPT ![c] = Moved(c, next)]
    /\ Log(c, next, "user")
    /\ UNCHANGED << inspections, busy >>

\* Mutant: a conclusion that was passed once is never taken back.
VerdictOnceAndForAll(cell, kind, passed) ==
    IF kind = "quality" THEN [cell EXCEPT !.quality = @ \/ passed]
                        ELSE [cell EXCEPT !.safety = @ \/ passed]

\* UPDATE robot_cells SET <field>=?, version=version+1.
Verdict(cell, kind, passed) == IF kind = "quality"
                               THEN [cell EXCEPT !.quality = passed]
                               ELSE [cell EXCEPT !.safety = passed]

Concluded(c, kind, passed) == [Verdict(cells[c], kind, passed) EXCEPT !.version = @ + 1]

\* Mutant: the conclusion is written to the safety column whatever its kind.
RecordInspectionAsSafety(c, kind, passed, role) ==
    /\ role = InspectorOf(kind)
    /\ Exists(c) /\ HasVersionLeft(c)
    /\ cells[c].status = "safety_review"
    /\ cells' = [cells EXCEPT ![c].safety = passed, ![c].version = @ + 1]
    /\ inspections' = [inspections EXCEPT ![c] = Append(@,
           [kind |-> kind, passed |-> passed, at |-> cells[c].version + 1])]
    /\ UNCHANGED << history, busy >>

\* Mutant: cells in production may be inspected as well.
RecordInspectionInProduction(c, kind, passed, role) ==
    /\ role = InspectorOf(kind)
    /\ Exists(c) /\ HasVersionLeft(c)
    /\ cells[c].status \in { "safety_review", "production" }
    /\ cells' = [cells EXCEPT ![c] = Concluded(c, kind, passed)]
    /\ inspections' = [inspections EXCEPT ![c] = Append(@,
           [kind |-> kind, passed |-> passed, at |-> cells[c].version + 1])]
    /\ UNCHANGED << history, busy >>

\* Mutant: recording an inspection leaves the version alone.
RecordInspectionKeepingVersion(c, kind, passed, role) ==
    /\ role = InspectorOf(kind)
    /\ Exists(c) /\ HasVersionLeft(c)
    /\ cells[c].status = "safety_review"
    /\ Len(inspections[c]) < 2
    /\ cells' = [cells EXCEPT ![c] = Verdict(@, kind, passed)]
    /\ inspections' = [inspections EXCEPT ![c] = Append(@,
           [kind |-> kind, passed |-> passed, at |-> cells[c].version + 1])]
    /\ UNCHANGED << history, busy >>

\* The caller sends no version: the conclusion applies to whatever is there.
RecordInspection(c, kind, passed, role) ==
    /\ role = InspectorOf(kind)
    /\ Exists(c) /\ HasVersionLeft(c)
    /\ cells[c].status = "safety_review"
    /\ cells' = [cells EXCEPT ![c] = Concluded(c, kind, passed)]
    /\ inspections' = [inspections EXCEPT ![c] = Append(@,
           [kind |-> kind, passed |-> passed, at |-> cells[c].version + 1])]
    /\ UNCHANGED << history, busy >>

\* Mutant: a cell is retired whatever still needs it.
RetireCellAnyway(c, expected, role) ==
    /\ role = "line_manager"
    /\ Exists(c) /\ HasVersionLeft(c)
    /\ cells[c].version = expected
    /\ CanTransition(cells[c], "retired")
    /\ cells' = [cells EXCEPT ![c] = Moved(c, "retired")]
    /\ Log(c, "retired", "user")
    /\ UNCHANGED << inspections, busy >>

RetireCell(c, expected, role) ==
    /\ role = "line_manager"
    /\ Exists(c) /\ HasVersionLeft(c)
    /\ cells[c].version = expected
    /\ CanTransition(cells[c], "retired")
    /\ c \notin busy
    /\ cells' = [cells EXCEPT ![c] = Moved(c, "retired")]
    /\ Log(c, "retired", "user")
    /\ UNCHANGED << inspections, busy >>

\* The worker's handler; it may run more than once, and late.  A cell already
\* installing is left alone, any other but a calibrating one is an error, and
\* neither writes anything.  The version in the job's payload is not looked at.
CompensateCalibration(c, job) ==
    /\ Exists(c) /\ HasVersionLeft(c)
    /\ cells[c].status = "calibrating"
    /\ cells' = [cells EXCEPT ![c] = [Moved(c, "installing") EXCEPT !.calibrated = FALSE]]
    /\ Log(c, "installing", job)
    /\ UNCHANGED << inspections, busy >>

\* Mutant: the write does not look at the status it replaces.
MaintenanceWritesAnyway(c, from, to) ==
    /\ Exists(c) /\ HasVersionLeft(c)
    /\ cells' = [cells EXCEPT ![c] = Moved(c, to)]
    /\ busy' \in SUBSET Cell
    /\ UNCHANGED << history, inspections >>

\* AdvanceMaintenance to "executing" and to "closed": conditional writes of the
\* status that leave no row in cell_transitions.  The order moves with them.
MaintenanceWrites(c, from, to) ==
    /\ Exists(c) /\ HasVersionLeft(c)
    /\ cells[c].status = from
    /\ cells' = [cells EXCEPT ![c] = Moved(c, to)]
    /\ busy' \in SUBSET Cell
    /\ UNCHANGED << history, inspections >>

DependentsChange ==
    /\ busy' \in SUBSET Cell
    /\ UNCHANGED << cells, history, inspections >>

\* Nothing in the repository fills calibration_ref; its tests do it with a
\* plain UPDATE that leaves the version alone, once the cell is calibrated.
WriteCalibrationRef(c) ==
    /\ CalibrationWriter
    /\ Exists(c)
    /\ cells[c].status \in {"calibrating", "safety_review"}
    /\ cells' = [cells EXCEPT ![c].calibrated = TRUE]
    /\ UNCHANGED << history, inspections, busy >>

Next ==
    \/ DependentsChange
    \/ \E c \in Cell, role \in Role :
         \/ CreateCell(c, role)
         \/ \E kind \in InspectionKind, passed \in BOOLEAN :
                RecordInspection(c, kind, passed, role)
         \/ \E expected \in 1..MaxVersion :
              \/ \E next \in DOMAIN allowed : TransitionCell(c, expected, next, role)
              \/ RetireCell(c, expected, role)
    \/ \E c \in Cell :
         \/ \E job \in Job : CompensateCalibration(c, job)
         \/ MaintenanceWrites(c, "production", "maintenance")
         \/ MaintenanceWrites(c, "maintenance", "production")
         \/ WriteCalibrationRef(c)

Spec == Init /\ [][Next]_vars

-----------------------------------------------------------------------------
TypeOK ==
    /\ cells \in [Cell -> RobotCell \cup {NoCell}]
    /\ history \in [Cell -> Seq(Transition)]
    /\ inspections \in [Cell -> Seq(Inspection)]
    /\ busy \subseteq Cell

Commissioned == { "production", "maintenance", "retired" }

\* A cell that is in production, or has been, has passed its safety and its
\* quality review and is calibrated: whichever of the writers of robot_cells
\* moved it there or touched it since, the conclusions were not lost.
CommissionedIsAccepted ==
    \A c \in Cell : cells[c].status \in Commissioned => Accepted(cells[c])

LastOf(c, kind) ==
    { i \in DOMAIN inspections[c] :
        /\ inspections[c][i].kind = kind
        /\ \A j \in DOMAIN inspections[c] : inspections[c][j].kind = kind => j <= i }

\* RobotCell's two conclusions say what the evidence says: each is TRUE exactly
\* if the last inspection row of its kind passed.  Concurrent inspectors, who
\* send no version, cannot make a conclusion contradict its evidence.
FlagsMatchEvidence ==
    \A c \in Cell : Exists(c) =>
        /\ cells[c].safety  <=> \E i \in LastOf(c, "safety") : inspections[c][i].passed
        /\ cells[c].quality <=> \E i \in LastOf(c, "quality") : inspections[c][i].passed

\* Equal, or apart only by what AdvanceMaintenance does without a row.
SameButForMaintenance(a, b) == a = b \/ {a, b} = {"production", "maintenance"}

\* The status the first i rows lead to.
StatusAfter(rows, i) == IF i = 0 THEN "surveyed" ELSE rows[i].to

\* cell_transitions is the path of the cell's status: it starts at "surveyed",
\* every row continues the one before it and the last one ends where the cell
\* is, except for the moves between production and maintenance that
\* AdvanceMaintenance makes without a row.
HistoryIsAPath ==
    \A c \in Cell : Exists(c) =>
        /\ \A i \in DOMAIN history[c] :
               SameButForMaintenance(StatusAfter(history[c], i - 1), history[c][i].from)
        /\ SameButForMaintenance(StatusAfter(history[c], Len(history[c])), cells[c].status)

Visited(c) == { history[c][i].to : i \in DOMAIN history[c] }

\* What the README promises of the whole lifecycle: no cell is in production,
\* in maintenance or retired whose history does not show every phase from the
\* proposal to the review, however often it was sent back in between.
CommissionedPassedEveryPhase ==
    \A c \in Cell : cells[c].status \in Commissioned =>
        { "proposed", "approved", "scheduled", "installing", "calibrating",
          "safety_review", "production" } \subseteq Visited(c)

\* No two transactions that read one version of a cell both leave evidence:
\* the rows of cell_transitions and inspections carry distinct versions, none
\* beyond the cell's.
OneWritePerVersion ==
    \A c \in Cell :
        /\ \A i \in DOMAIN history[c] :
             /\ history[c][i].at <= cells[c].version
             /\ \A j \in DOMAIN history[c] : history[c][i].at = history[c][j].at => i = j
             /\ \A j \in DOMAIN inspections[c] : history[c][i].at # inspections[c][j].at
        /\ \A i, j \in DOMAIN inspections[c] :
             /\ inspections[c][i].at <= cells[c].version
             /\ inspections[c][i].at = inspections[c][j].at => i = j

\* Every inspection was made while its cell was in review, as the rows of the two
\* tables tell it: the last row before it enters the review.  That need not be
\* the review from which the cell enters production: conclusions are kept when
\* the cell is sent back to its calibration.
EvidenceIsFromReviews ==
    \A c \in Cell : \A i \in DOMAIN inspections[c] :
        \E k \in DOMAIN history[c] :
            /\ history[c][k].to = "safety_review"
            /\ history[c][k].at < inspections[c][i].at
            /\ \A l \in DOMAIN history[c] : l > k => history[c][l].at > inspections[c][i].at

\* A retired cell stays retired, with its history and its evidence: no late
\* compensation, inspection or maintenance order brings it back.
RetiredIsFinal ==
    [][\A c \in Cell : cells[c].status = "retired" =>
          /\ cells'[c] = cells[c]
          /\ history'[c] = history[c]
          /\ inspections'[c] = inspections[c]]_vars

\* What a return to an earlier phase leaves of the conclusions, which are kept: the
\* row by which a cell entered production is preceded by its last inspection of
\* either kind, and that one passed.  An old conclusion may admit a new
\* calibration, but never against a newer one of its kind.
AdmittedByLatestEvidence ==
    \A c \in Cell : cells[c].status \in Commissioned =>
        \E k \in DOMAIN history[c] :
            /\ history[c][k].from = "safety_review" /\ history[c][k].to = "production"
            /\ \A kind \in InspectionKind :
                 \E i \in LastOf(c, kind) :
                     inspections[c][i].passed /\ inspections[c][i].at < history[c][k].at

\* No operation of the repository fills calibration_ref, and the gate asks for it:
\* with the service's own operations no cell is ever put into production.
ProductionIsUnreachable ==
    CalibrationWriter \/ \A c \in Cell : cells[c].status \notin Commissioned

=============================================================================
