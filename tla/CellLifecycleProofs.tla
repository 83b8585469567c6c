------------------------ MODULE CellLifecycleProofs ------------------------
(***************************************************************************)
(* For any cells, jobs and bound on the version: what the operations of    *)
(* CellLifecycle, all writers of robot_cells together, keep true of every  *)
(* cell.                                                                   *)
(***************************************************************************)
EXTENDS CellLifecycle, SequenceTheorems, TLAPS

-----------------------------------------------------------------------------
\* The ways a step can touch one cell and its evidence.
Untouched(c) ==
    /\ cells'[c] = cells[c]
    /\ history'[c] = history[c]
    /\ inspections'[c] = inspections[c]

Created(c) ==
    /\ cells[c] = NoCell
    /\ cells'[c] = NewCell
    /\ history'[c] = history[c]
    /\ inspections'[c] = inspections[c]

Row(c, next, request) ==
    [from |-> cells[c].status, to |-> next, request |-> request,
     at |-> cells[c].version + 1]

MovedOn(c, next, request) ==
    /\ Exists(c)
    /\ CanTransition(cells[c], next)
    /\ \/ cells'[c] = Moved(c, next)
       \/ next = "installing" /\ cells'[c] = [Moved(c, next) EXCEPT !.calibrated = FALSE]
    /\ history'[c] = Append(history[c], Row(c, next, request))
    /\ inspections'[c] = inspections[c]

Inspected(c, kind, passed) ==
    /\ Exists(c)
    /\ cells[c].status = "safety_review"
    /\ cells'[c] = Concluded(c, kind, passed)
    /\ inspections'[c] = Append(inspections[c],
           [kind |-> kind, passed |-> passed, at |-> cells[c].version + 1])
    /\ history'[c] = history[c]

Maintained(c) ==
    /\ Exists(c)
    /\ \E to \in {"production", "maintenance"} :
           /\ cells[c].status \in {"production", "maintenance"} \ {to}
           /\ cells'[c] = Moved(c, to)
    /\ history'[c] = history[c]
    /\ inspections'[c] = inspections[c]

RefWritten(c) ==
    /\ Exists(c)
    /\ cells[c].status \in {"calibrating", "safety_review"}
    /\ cells'[c] = [cells[c] EXCEPT !.calibrated = TRUE]
    /\ history'[c] = history[c]
    /\ inspections'[c] = inspections[c]

\* Every step of Next, seen from one cell, is one of these.
LEMMA OneCellStep ==
    ASSUME TypeOK, [Next]_vars, NEW c \in Cell
    PROVE  \/ Untouched(c)
           \/ Created(c)
           \/ \E next \in CellStatus, request \in Job \cup {"user"} : MovedOn(c, next, request)
           \/ \E kind \in InspectionKind, passed \in BOOLEAN : Inspected(c, kind, passed)
           \/ Maintained(c)
           \/ RefWritten(c)
<1> DEFINE Goal == \/ Untouched(c)
                   \/ Created(c)
                   \/ \E next \in CellStatus, request \in Job \cup {"user"} :
                          MovedOn(c, next, request)
                   \/ \E kind \in InspectionKind, passed \in BOOLEAN :
                          Inspected(c, kind, passed)
                   \/ Maintained(c)
                   \/ RefWritten(c)
<1> SUFFICES Goal
    OBVIOUS
<1> USE DEF TypeOK
<1>1. ASSUME NEW d \in Cell, NEW role \in Role, CreateCell(d, role)
      PROVE  Goal
    BY <1>1 DEF CreateCell, Exists, Untouched, Created
<1>2. ASSUME NEW d \in Cell, NEW role \in Role, NEW kind \in InspectionKind,
             NEW passed \in BOOLEAN, RecordInspection(d, kind, passed, role)
      PROVE  Goal
    <2>1. CASE d = c
        <3>1. Inspected(c, kind, passed)
            BY <1>2, <2>1 DEF RecordInspection, Inspected
        <3> QED
            BY <3>1
    <2>2. CASE d # c
        BY <1>2, <2>2 DEF RecordInspection, Untouched
    <2> QED
        BY <2>1, <2>2
<1>3. ASSUME NEW d \in Cell, NEW role \in Role, NEW expected \in 1..MaxVersion,
             NEW next \in DOMAIN allowed, TransitionCell(d, expected, next, role)
      PROVE  Goal
    <2>1. CASE d = c
        <3>1. next \in CellStatus
            BY DEF allowed, CellStatus
        <3>2. MovedOn(c, next, "user")
            BY <1>3, <2>1 DEF TransitionCell, MovedOn, Log, Row
        <3> QED
            BY <3>1, <3>2
    <2>2. CASE d # c
        BY <1>3, <2>2 DEF TransitionCell, Log, Untouched
    <2> QED
        BY <2>1, <2>2
<1>4. ASSUME NEW d \in Cell, NEW role \in Role, NEW expected \in 1..MaxVersion,
             RetireCell(d, expected, role)
      PROVE  Goal
    <2>1. CASE d = c
        <3>1. "retired" \in CellStatus
            BY DEF CellStatus
        <3>2. MovedOn(c, "retired", "user")
            BY <1>4, <2>1 DEF RetireCell, MovedOn, Log, Row
        <3> QED
            BY <3>1, <3>2
    <2>2. CASE d # c
        BY <1>4, <2>2 DEF RetireCell, Log, Untouched
    <2> QED
        BY <2>1, <2>2
<1>5. ASSUME NEW d \in Cell, NEW job \in Job, CompensateCalibration(d, job)
      PROVE  Goal
    <2>1. CASE d = c
        <3>1. CanTransition(cells[c], "installing")
            BY <1>5, <2>1 DEF CompensateCalibration, CanTransition, cellTransitions
        <3>2. MovedOn(c, "installing", job) /\ "installing" \in CellStatus
            BY <1>5, <2>1, <3>1 DEF CompensateCalibration, MovedOn, Log, Row, CellStatus
        <3> QED
            BY <3>2
    <2>2. CASE d # c
        BY <1>5, <2>2 DEF CompensateCalibration, Log, Untouched
    <2> QED
        BY <2>1, <2>2
<1>6. ASSUME NEW d \in Cell, \/ MaintenanceWrites(d, "production", "maintenance")
                             \/ MaintenanceWrites(d, "maintenance", "production")
      PROVE  Goal
    BY <1>6 DEF MaintenanceWrites, Untouched, Maintained
<1>7. ASSUME NEW d \in Cell, WriteCalibrationRef(d)
      PROVE  Goal
    BY <1>7 DEF WriteCalibrationRef, Untouched, RefWritten
<1>8. CASE DependentsChange \/ UNCHANGED vars
    BY <1>8 DEF DependentsChange, vars, Untouched
<1> QED
    BY <1>1, <1>2, <1>3, <1>4, <1>5, <1>6, <1>7, <1>8 DEF Next

-----------------------------------------------------------------------------
\* Each of these ways leaves a row of the table, and which of its columns.
LEMMA RowsAfterAStep ==
    ASSUME TypeOK, NEW c \in Cell
    PROVE  /\ Created(c) => NewCell \in RobotCell
           /\ \A next \in CellStatus, request \in Job \cup {"user"} :
                MovedOn(c, next, request) =>
                  /\ cells'[c] \in RobotCell
                  /\ cells'[c].status = next
                  /\ cells'[c].safety = cells[c].safety
                  /\ cells'[c].quality = cells[c].quality
                  /\ next # "installing" => cells'[c].calibrated = cells[c].calibrated
                  /\ cells'[c].version = cells[c].version + 1
                  /\ Row(c, next, request) \in Transition
           /\ \A kind \in InspectionKind, passed \in BOOLEAN :
                Inspected(c, kind, passed) =>
                  /\ cells'[c] \in RobotCell
                  /\ cells'[c].status = "safety_review"
                  /\ cells'[c].safety = IF kind = "safety" THEN passed ELSE cells[c].safety
                  /\ cells'[c].quality = IF kind = "quality" THEN passed ELSE cells[c].quality
                  /\ cells'[c].version = cells[c].version + 1
           /\ Maintained(c) =>
                /\ cells'[c] \in RobotCell
                /\ cells[c].status \in {"production", "maintenance"}
                /\ cells'[c].status \in {"production", "maintenance"}
                /\ cells'[c].safety = cells[c].safety
                /\ cells'[c].quality = cells[c].quality
                /\ cells'[c].calibrated = cells[c].calibrated
                /\ cells'[c].version = cells[c].version + 1
           /\ RefWritten(c) =>
                /\ cells'[c] \in RobotCell
                /\ cells'[c].status = cells[c].status
                /\ cells'[c].safety = cells[c].safety
                /\ cells'[c].quality = cells[c].quality
                /\ cells'[c].version = cells[c].version
<1>1. Created(c) => NewCell \in RobotCell
    BY DEF NewCell, RobotCell, CellStatus
<1>2. ASSUME Exists(c)
      PROVE  cells[c] \in RobotCell
    BY <1>2 DEF TypeOK, Exists
<1>3. ASSUME Exists(c), NEW next \in CellStatus
      PROVE  /\ Moved(c, next) \in RobotCell
             /\ Moved(c, next).status = next
             /\ Moved(c, next).safety = cells[c].safety
             /\ Moved(c, next).quality = cells[c].quality
             /\ Moved(c, next).calibrated = cells[c].calibrated
             /\ Moved(c, next).version = cells[c].version + 1
    <2>1. cells[c].version + 1 \in Nat
        BY <1>2, <1>3 DEF RobotCell
    <2> QED
        BY <1>2, <1>3, <2>1 DEF Moved, RobotCell
<1>4. ASSUME NEW next \in CellStatus, NEW request \in Job \cup {"user"},
             MovedOn(c, next, request)
      PROVE  /\ cells'[c] \in RobotCell
             /\ cells'[c].status = next
             /\ cells'[c].safety = cells[c].safety
             /\ cells'[c].quality = cells[c].quality
             /\ next # "installing" => cells'[c].calibrated = cells[c].calibrated
             /\ cells'[c].version = cells[c].version + 1
             /\ Row(c, next, request) \in Transition
    <2>1. Exists(c)
        BY <1>4 DEF MovedOn
    <2>2. Row(c, next, request) \in Transition
        BY <1>2, <2>1 DEF Row, Transition, RobotCell
    <2>3. CASE cells'[c] = Moved(c, next)
        BY <1>3, <2>1, <2>2, <2>3
    <2>4. CASE next = "installing" /\ cells'[c] = [Moved(c, next) EXCEPT !.calibrated = FALSE]
        <3> DEFINE m == Moved(c, next)
        <3>1. /\ m \in RobotCell /\ m.status = next /\ m.safety = cells[c].safety
              /\ m.quality = cells[c].quality /\ m.version = cells[c].version + 1
            BY <1>3, <2>1
        <3> HIDE DEF m
        <3>2. /\ [m EXCEPT !.calibrated = FALSE] \in RobotCell
              /\ [m EXCEPT !.calibrated = FALSE].status = m.status
              /\ [m EXCEPT !.calibrated = FALSE].safety = m.safety
              /\ [m EXCEPT !.calibrated = FALSE].quality = m.quality
              /\ [m EXCEPT !.calibrated = FALSE].version = m.version
            BY <3>1 DEF RobotCell
        <3>3. cells'[c] = [m EXCEPT !.calibrated = FALSE]
            BY <2>4 DEF m
        <3> QED
            BY <2>2, <2>4, <3>1, <3>2, <3>3
    <2> QED
        BY <1>4, <2>3, <2>4 DEF MovedOn
<1>5. ASSUME NEW kind \in InspectionKind, NEW passed \in BOOLEAN, Inspected(c, kind, passed)
      PROVE  /\ cells'[c] \in RobotCell
             /\ cells'[c].status = "safety_review"
             /\ cells'[c].safety = IF kind = "safety" THEN passed ELSE cells[c].safety
             /\ cells'[c].quality = IF kind = "quality" THEN passed ELSE cells[c].quality
             /\ cells'[c].version = cells[c].version + 1
    <2> DEFINE v == Verdict(cells[c], kind, passed)
    <2>1. cells[c] \in RobotCell /\ cells[c].status = "safety_review"
        BY <1>2, <1>5 DEF Inspected
    <2>2. /\ v \in RobotCell
          /\ v.status = cells[c].status /\ v.version = cells[c].version
          /\ v.safety = IF kind = "safety" THEN passed ELSE cells[c].safety
          /\ v.quality = IF kind = "quality" THEN passed ELSE cells[c].quality
        <3>1. CASE kind = "quality"
            BY <2>1, <3>1 DEF Verdict, RobotCell
        <3>2. CASE kind = "safety"
            BY <2>1, <3>2 DEF Verdict, RobotCell
        <3> QED
            BY <3>1, <3>2 DEF InspectionKind
    <2>3. cells'[c] = [v EXCEPT !.version = v.version + 1]
        BY <1>5 DEF Inspected, Concluded
    <2> HIDE DEF v
    <2>4. v.version + 1 \in Nat
        BY <2>2 DEF RobotCell
    <2>5. /\ cells'[c] \in RobotCell
          /\ cells'[c].status = v.status /\ cells'[c].version = v.version + 1
          /\ cells'[c].safety = v.safety /\ cells'[c].quality = v.quality
        BY <2>2, <2>3, <2>4 DEF RobotCell
    <2> QED
        BY <2>1, <2>2, <2>5
<1>6. ASSUME Maintained(c)
      PROVE  /\ cells'[c] \in RobotCell
             /\ cells[c].status \in {"production", "maintenance"}
             /\ cells'[c].status \in {"production", "maintenance"}
             /\ cells'[c].safety = cells[c].safety
             /\ cells'[c].quality = cells[c].quality
             /\ cells'[c].calibrated = cells[c].calibrated
             /\ cells'[c].version = cells[c].version + 1
    BY <1>3, <1>6 DEF Maintained, CellStatus
<1>7. ASSUME RefWritten(c)
      PROVE  /\ cells'[c] \in RobotCell
             /\ cells'[c].status = cells[c].status
             /\ cells'[c].safety = cells[c].safety
             /\ cells'[c].quality = cells[c].quality
             /\ cells'[c].version = cells[c].version
    BY <1>2, <1>7 DEF RefWritten, RobotCell
<1> QED
    BY <1>1, <1>4, <1>5, <1>6, <1>7

-----------------------------------------------------------------------------
\* A cell that is not in the table has left no evidence.
NoEvidenceBeforeCreation ==
    \A c \in Cell : ~Exists(c) => history[c] = << >> /\ inspections[c] = << >>

\* After any step the tables still have one entry for each cell.
LEMMA TablesStayFunctions ==
    ASSUME TypeOK, [Next]_vars
    PROVE  /\ cells' = [c \in Cell |-> cells'[c]]
           /\ history' = [c \in Cell |-> history'[c]]
           /\ inspections' = [c \in Cell |-> inspections'[c]]
           /\ busy' \subseteq Cell
<1> USE DEF TypeOK
<1>1. ASSUME NEW d \in Cell, NEW role \in Role,
             \/ CreateCell(d, role)
             \/ \E kind \in InspectionKind, passed \in BOOLEAN :
                    RecordInspection(d, kind, passed, role)
      PROVE  /\ cells' = [c \in Cell |-> cells'[c]]
             /\ history' = [c \in Cell |-> history'[c]]
             /\ inspections' = [c \in Cell |-> inspections'[c]]
             /\ busy' \subseteq Cell
    BY <1>1 DEF CreateCell, RecordInspection
<1>2. ASSUME NEW d \in Cell, NEW role \in Role, NEW expected \in 1..MaxVersion,
             \/ \E next \in DOMAIN allowed : TransitionCell(d, expected, next, role)
             \/ RetireCell(d, expected, role)
      PROVE  /\ cells' = [c \in Cell |-> cells'[c]]
             /\ history' = [c \in Cell |-> history'[c]]
             /\ inspections' = [c \in Cell |-> inspections'[c]]
             /\ busy' \subseteq Cell
    BY <1>2 DEF TransitionCell, RetireCell, Log
<1>3. ASSUME NEW d \in Cell,
             \/ \E job \in Job : CompensateCalibration(d, job)
             \/ MaintenanceWrites(d, "production", "maintenance")
             \/ MaintenanceWrites(d, "maintenance", "production")
             \/ WriteCalibrationRef(d)
      PROVE  /\ cells' = [c \in Cell |-> cells'[c]]
             /\ history' = [c \in Cell |-> history'[c]]
             /\ inspections' = [c \in Cell |-> inspections'[c]]
             /\ busy' \subseteq Cell
    BY <1>3 DEF CompensateCalibration, MaintenanceWrites, WriteCalibrationRef, Log
<1>4. CASE DependentsChange \/ UNCHANGED vars
    BY <1>4 DEF DependentsChange, vars
<1> QED
    BY <1>1, <1>2, <1>3, <1>4 DEF Next

\* The type is inductive.
LEMMA TypeStep ==
    ASSUME TypeOK, [Next]_vars
    PROVE  TypeOK'
<1>1. ASSUME NEW c \in Cell
      PROVE  /\ cells'[c] \in RobotCell \cup {NoCell}
             /\ history'[c] \in Seq(Transition)
             /\ inspections'[c] \in Seq(Inspection)
    <2>0. /\ cells[c] \in RobotCell \cup {NoCell}
          /\ history[c] \in Seq(Transition)
          /\ inspections[c] \in Seq(Inspection)
        BY DEF TypeOK
    <2>1. CASE Untouched(c)
        BY <2>0, <2>1 DEF Untouched
    <2>2. CASE Created(c)
        BY <2>0, <2>2, RowsAfterAStep DEF Created
    <2>3. ASSUME NEW next \in CellStatus, NEW request \in Job \cup {"user"},
                 MovedOn(c, next, request)
          PROVE  /\ cells'[c] \in RobotCell
                 /\ history'[c] \in Seq(Transition)
                 /\ inspections'[c] \in Seq(Inspection)
        <3>1. cells'[c] \in RobotCell /\ Row(c, next, request) \in Transition
            BY <2>3, RowsAfterAStep
        <3> QED
            BY <2>0, <2>3, <3>1, AppendProperties DEF MovedOn
    <2>4. ASSUME NEW kind \in InspectionKind, NEW passed \in BOOLEAN,
                 Inspected(c, kind, passed)
          PROVE  /\ cells'[c] \in RobotCell
                 /\ history'[c] \in Seq(Transition)
                 /\ inspections'[c] \in Seq(Inspection)
        <3>1. cells'[c] \in RobotCell
            BY <2>4, RowsAfterAStep
        <3>2. cells[c].version + 1 \in Nat
            BY <2>0, <2>4 DEF Inspected, Exists, RobotCell
        <3>3. [kind |-> kind, passed |-> passed, at |-> cells[c].version + 1] \in Inspection
            BY <3>2 DEF Inspection
        <3> QED
            BY <2>0, <2>4, <3>1, <3>3, AppendProperties DEF Inspected
    <2>5. CASE Maintained(c)
        BY <2>0, <2>5, RowsAfterAStep DEF Maintained
    <2>6. CASE RefWritten(c)
        BY <2>0, <2>6, RowsAfterAStep DEF RefWritten
    <2> QED
        BY <2>1, <2>2, <2>3, <2>4, <2>5, <2>6, OneCellStep
<1> QED
    BY <1>1, TablesStayFunctions DEF TypeOK

\* No step writes rows for a cell before it creates the cell.
LEMMA NoEvidenceStep ==
    ASSUME TypeOK, NoEvidenceBeforeCreation, [Next]_vars
    PROVE  NoEvidenceBeforeCreation'
<1> SUFFICES ASSUME NEW c \in Cell, cells'[c] = NoCell
             PROVE  history'[c] = << >> /\ inspections'[c] = << >>
    BY DEF NoEvidenceBeforeCreation, Exists
<1>1. NoCell \notin RobotCell
    BY DEF NoCell, RobotCell, CellStatus
<1>2. Untouched(c)
    BY <1>1, OneCellStep, RowsAfterAStep DEF Created
<1> QED
    BY <1>2 DEF Untouched, NoEvidenceBeforeCreation, Exists

-----------------------------------------------------------------------------
\* A cell enters Commissioned through the gate of safety_review only, and
\* nothing written later takes a conclusion or the calibration back.
LEMMA AcceptedStep ==
    ASSUME TypeOK, CommissionedIsAccepted, [Next]_vars
    PROVE  CommissionedIsAccepted'
<1> SUFFICES ASSUME NEW c \in Cell, cells'[c].status \in Commissioned
             PROVE  Accepted(cells'[c])
    BY DEF CommissionedIsAccepted, Accepted
<1>0. cells[c].status \in Commissioned => Accepted(cells[c])
    BY DEF CommissionedIsAccepted
<1>1. CASE Untouched(c)
    BY <1>0, <1>1 DEF Untouched
<1>2. CASE Created(c)
    BY <1>2 DEF Created, NewCell, Commissioned
<1>3. ASSUME NEW next \in CellStatus, NEW request \in Job \cup {"user"},
             MovedOn(c, next, request)
      PROVE  Accepted(cells'[c])
    <2>1. next \in Commissioned /\ CanTransition(cells[c], next)
        BY <1>3, RowsAfterAStep DEF MovedOn
    <2>2. Accepted(cells[c])
        BY <1>0, <2>1 DEF CanTransition, cellTransitions, Commissioned
    <2> QED
        BY <1>3, <2>1, <2>2, RowsAfterAStep DEF Accepted, Commissioned
<1>4. ASSUME NEW kind \in InspectionKind, NEW passed \in BOOLEAN, Inspected(c, kind, passed)
      PROVE  FALSE
    BY <1>4, RowsAfterAStep DEF Commissioned
<1>5. CASE Maintained(c)
    BY <1>0, <1>5, RowsAfterAStep DEF Commissioned, Accepted
<1>6. CASE RefWritten(c)
    BY <1>6, RowsAfterAStep DEF RefWritten, Commissioned
<1> QED
    BY <1>1, <1>2, <1>3, <1>4, <1>5, <1>6, OneCellStep

-----------------------------------------------------------------------------
\* The phases a cell in a status has behind it.
Behind(status) ==
    CASE status = "surveyed" -> {}
      [] status = "proposed" -> {"proposed"}
      [] status = "approved" -> {"proposed", "approved"}
      [] status = "scheduled" -> {"proposed", "approved", "scheduled"}
      [] status = "installing" -> {"proposed", "approved", "scheduled", "installing"}
      [] status = "calibrating" -> {"proposed", "approved", "scheduled", "installing",
                                    "calibrating"}
      [] status = "safety_review" -> {"proposed", "approved", "scheduled", "installing",
                                      "calibrating", "safety_review"}
      [] OTHER -> {"proposed", "approved", "scheduled", "installing", "calibrating",
                   "safety_review", "production"}

\* CommissionedPassedEveryPhase says this of the last phases only, which is not
\* inductive: how a cell came to its review must be known before it leaves it.
PassedPhases == \A c \in Cell : Exists(c) => Behind(cells[c].status) \subseteq Visited(c)

\* Each move adds at most its own target to what must lie behind.
LEMMA MovesAddOnePhase ==
    ASSUME NEW from \in CellStatus, NEW to \in CellStatus, << from, to >> \in cellTransitions
    PROVE  Behind(to) \subseteq Behind(from) \cup {to}
BY DEF Behind, cellTransitions, CellStatus

\* A new row of the history adds its target to what was visited.
LEMMA VisitedGrows ==
    ASSUME TypeOK, NEW c \in Cell, NEW next \in CellStatus,
           NEW request \in Job \cup {"user"}, MovedOn(c, next, request)
    PROVE  Visited(c) \cup {next} \subseteq Visited(c)'
<1> DEFINE h == history[c]
           h1 == history'[c]
<1>1. h \in Seq(Transition) /\ Row(c, next, request) \in Transition
    BY RowsAfterAStep DEF TypeOK
<1>2. h1 = Append(h, Row(c, next, request)) /\ Row(c, next, request).to = next
    BY DEF MovedOn, Row
<1> HIDE DEF h, h1
<1>3. /\ h1 \in Seq(Transition) /\ Len(h1) = Len(h) + 1 /\ Len(h) \in Nat
      /\ \A i \in 1..Len(h) : h1[i] = h[i]
      /\ h1[Len(h) + 1].to = next
    BY <1>1, <1>2, AppendProperties, LenProperties
<1>4. DOMAIN h = 1..Len(h) /\ DOMAIN h1 = 1..Len(h1)
    BY <1>1, <1>3, LenProperties
<1>5. { h[i].to : i \in DOMAIN h } \cup {next} \subseteq { h1[i].to : i \in DOMAIN h1 }
    BY <1>3, <1>4
<1> QED
    BY <1>5 DEF Visited, h, h1

\* Every move adds its phase to those the cell has passed.
LEMMA PassedPhasesStep ==
    ASSUME TypeOK, PassedPhases, [Next]_vars
    PROVE  PassedPhases'
<1> SUFFICES ASSUME NEW c \in Cell, Exists(c)'
             PROVE  Behind(cells'[c].status) \subseteq Visited(c)'
    BY DEF PassedPhases, Behind
<1>0. Exists(c) => Behind(cells[c].status) \subseteq Visited(c)
    BY DEF PassedPhases
<1>a. ASSUME history'[c] = history[c]
      PROVE  Visited(c)' = Visited(c)
    BY <1>a DEF Visited
<1>b. Exists(c) => cells[c].status \in CellStatus
    BY DEF TypeOK, Exists, RobotCell
<1>1. CASE Untouched(c)
    BY <1>0, <1>1, <1>a DEF Untouched, Exists
<1>2. CASE Created(c)
    BY <1>2 DEF Created, NewCell, Behind
<1>3. ASSUME NEW next \in CellStatus, NEW request \in Job \cup {"user"},
             MovedOn(c, next, request)
      PROVE  Behind(cells'[c].status) \subseteq Visited(c)'
    <2>1. Exists(c) /\ << cells[c].status, next >> \in cellTransitions
        BY <1>3 DEF MovedOn, CanTransition
    <2>2. Behind(next) \subseteq Behind(cells[c].status) \cup {next}
        BY <1>b, <2>1, MovesAddOnePhase
    <2>3. Visited(c) \cup {next} \subseteq Visited(c)'
        BY <1>3, VisitedGrows
    <2>4. cells'[c].status = next
        BY <1>3, RowsAfterAStep
    <2> QED
        BY <1>0, <2>1, <2>2, <2>3, <2>4
<1>4. ASSUME NEW kind \in InspectionKind, NEW passed \in BOOLEAN, Inspected(c, kind, passed)
      PROVE  Behind(cells'[c].status) \subseteq Visited(c)'
    <2>1. Exists(c) /\ cells'[c].status = cells[c].status /\ history'[c] = history[c]
        BY <1>4, RowsAfterAStep DEF Inspected
    <2> QED
        BY <1>0, <1>a, <2>1
<1>5. CASE Maintained(c)
    <2>1. /\ Exists(c) /\ history'[c] = history[c]
          /\ cells[c].status \in {"production", "maintenance"}
          /\ cells'[c].status \in {"production", "maintenance"}
        BY <1>5, RowsAfterAStep DEF Maintained
    <2>2. Behind(cells'[c].status) = Behind(cells[c].status)
        BY <2>1 DEF Behind
    <2> QED
        BY <1>0, <1>a, <2>1, <2>2
<1>6. CASE RefWritten(c)
    <2>1. Exists(c) /\ cells'[c].status = cells[c].status /\ history'[c] = history[c]
        BY <1>6, RowsAfterAStep DEF RefWritten
    <2> QED
        BY <1>0, <1>a, <2>1
<1> QED
    BY <1>1, <1>2, <1>3, <1>4, <1>5, <1>6, OneCellStep

-----------------------------------------------------------------------------
\* Appending an inspection makes it the last of its kind and leaves the last of
\* the other kind where it was.
LEMMA LastAfterAppend ==
    ASSUME TypeOK, NEW c \in Cell, NEW kind \in InspectionKind, NEW passed \in BOOLEAN,
           Inspected(c, kind, passed), NEW k \in InspectionKind
    PROVE  (\E i \in LastOf(c, k)' : inspections'[c][i].passed)
               <=> IF k = kind THEN passed
                   ELSE \E i \in LastOf(c, k) : inspections[c][i].passed
<1> DEFINE s == inspections[c]
           s1 == inspections'[c]
           row == [kind |-> kind, passed |-> passed, at |-> cells[c].version + 1]
<1>1. row \in Inspection
    <2>1. cells[c].version + 1 \in Nat
        BY DEF TypeOK, Inspected, Exists, RobotCell
    <2> QED
        BY <2>1 DEF Inspection
<1>2. s \in Seq(Inspection) /\ s1 = Append(s, row) /\ row.kind = kind /\ row.passed = passed
    BY DEF TypeOK, Inspected
<1>3. /\ LastOf(c, k) = { i \in DOMAIN s : /\ s[i].kind = k
                                          /\ \A j \in DOMAIN s : s[j].kind = k => j <= i }
      /\ LastOf(c, k)' = { i \in DOMAIN s1 : /\ s1[i].kind = k
                                            /\ \A j \in DOMAIN s1 : s1[j].kind = k => j <= i }
    BY DEF LastOf
<1> HIDE DEF s, s1, row
<1> DEFINE n == Len(s)
<1>4. /\ n \in Nat /\ DOMAIN s = 1..n /\ DOMAIN s1 = 1..(n + 1)
      /\ \A i \in 1..n : s1[i] = s[i]
      /\ s1[n + 1] = row
    BY <1>1, <1>2, AppendProperties, LenProperties
<1> HIDE DEF n
<1>5. CASE k = kind
    <2>1. LastOf(c, k)' = {n + 1}
        BY <1>2, <1>3, <1>4, <1>5
    <2>2. s1[n + 1].passed = passed
        BY <1>2, <1>4
    <2> QED
        BY <1>5, <2>1, <2>2 DEF s1
<1>6. CASE k # kind
    <2>1. s1[n + 1].kind # k
        BY <1>2, <1>4, <1>6
    <2>2. LastOf(c, k)' = LastOf(c, k)
        BY <1>3, <1>4, <2>1
    <2>3. \A i \in LastOf(c, k) : s1[i] = s[i]
        BY <1>3, <1>4
    <2> QED
        BY <1>6, <2>2, <2>3 DEF s, s1
<1> QED
    BY <1>5, <1>6

\* The flags of a cell move with the rows that stand for them.
LEMMA FlagsStep ==
    ASSUME TypeOK, NoEvidenceBeforeCreation, FlagsMatchEvidence, [Next]_vars
    PROVE  FlagsMatchEvidence'
<1> SUFFICES ASSUME NEW c \in Cell, Exists(c)'
             PROVE  /\ cells'[c].safety
                           <=> \E i \in LastOf(c, "safety")' : inspections'[c][i].passed
                    /\ cells'[c].quality
                           <=> \E i \in LastOf(c, "quality")' : inspections'[c][i].passed
    BY DEF FlagsMatchEvidence
<1> DEFINE Evidence == /\ cells[c].safety
                             <=> \E i \in LastOf(c, "safety") : inspections[c][i].passed
                       /\ cells[c].quality
                             <=> \E i \in LastOf(c, "quality") : inspections[c][i].passed
<1>0. Exists(c) => Evidence
    BY DEF FlagsMatchEvidence
<1>a. ASSUME inspections'[c] = inspections[c], Exists(c),
             cells'[c].safety = cells[c].safety, cells'[c].quality = cells[c].quality
      PROVE  Evidence'
    <2>1. LastOf(c, "safety")' = LastOf(c, "safety") /\ LastOf(c, "quality")' = LastOf(c, "quality")
        BY <1>a DEF LastOf
    <2> QED
        BY <1>a, <1>0, <2>1
<1>1. CASE Untouched(c)
    <2>1. /\ inspections'[c] = inspections[c] /\ cells'[c] = cells[c] /\ Exists(c)
        BY <1>1 DEF Untouched, Exists
    <2> QED
        BY <1>a, <2>1
<1>2. CASE Created(c)
    <2>1. inspections'[c] = << >>
        BY <1>2 DEF Created, NoEvidenceBeforeCreation, Exists
    <2>2. LastOf(c, "safety")' = {} /\ LastOf(c, "quality")' = {}
        BY <2>1 DEF LastOf
    <2>3. cells'[c].safety = FALSE /\ cells'[c].quality = FALSE
        BY <1>2 DEF Created, NewCell
    <2> QED
        BY <2>2, <2>3
<1>3. ASSUME NEW next \in CellStatus, NEW request \in Job \cup {"user"},
             MovedOn(c, next, request)
      PROVE  Evidence'
    <2>1. /\ inspections'[c] = inspections[c] /\ Exists(c)
          /\ cells'[c].safety = cells[c].safety /\ cells'[c].quality = cells[c].quality
        BY <1>3, RowsAfterAStep DEF MovedOn
    <2> QED
        BY <1>a, <2>1
<1>4. ASSUME NEW kind \in InspectionKind, NEW passed \in BOOLEAN, Inspected(c, kind, passed)
      PROVE  Evidence'
    <2>1. /\ cells'[c].safety = IF kind = "safety" THEN passed ELSE cells[c].safety
          /\ cells'[c].quality = IF kind = "quality" THEN passed ELSE cells[c].quality
        BY <1>4, RowsAfterAStep
    <2>2. Exists(c) /\ "safety" \in InspectionKind /\ "quality" \in InspectionKind
        BY <1>4 DEF Inspected, InspectionKind
    <2>3. (\E i \in LastOf(c, "safety")' : inspections'[c][i].passed)
              <=> IF kind = "safety" THEN passed
                  ELSE \E i \in LastOf(c, "safety") : inspections[c][i].passed
        BY <1>4, <2>2, LastAfterAppend
    <2>4. (\E i \in LastOf(c, "quality")' : inspections'[c][i].passed)
              <=> IF kind = "quality" THEN passed
                  ELSE \E i \in LastOf(c, "quality") : inspections[c][i].passed
        BY <1>4, <2>2, LastAfterAppend
    <2> QED
        BY <1>0, <2>1, <2>2, <2>3, <2>4
<1>5. CASE Maintained(c)
    <2>1. /\ inspections'[c] = inspections[c] /\ Exists(c)
          /\ cells'[c].safety = cells[c].safety /\ cells'[c].quality = cells[c].quality
        BY <1>5, RowsAfterAStep DEF Maintained
    <2> QED
        BY <1>a, <2>1
<1>6. CASE RefWritten(c)
    <2>1. /\ inspections'[c] = inspections[c] /\ Exists(c)
          /\ cells'[c].safety = cells[c].safety /\ cells'[c].quality = cells[c].quality
        BY <1>6, RowsAfterAStep DEF RefWritten
    <2> QED
        BY <1>a, <2>1
<1> QED
    BY <1>1, <1>2, <1>3, <1>4, <1>5, <1>6, OneCellStep

-----------------------------------------------------------------------------
\* A move continues the path; maintenance only swaps its last status between
\* the two SameButForMaintenance does not tell apart.
LEMMA PathStep ==
    ASSUME TypeOK, NoEvidenceBeforeCreation, HistoryIsAPath, [Next]_vars
    PROVE  HistoryIsAPath'
<1> DEFINE Path(c) ==
        /\ \A i \in DOMAIN history[c] :
               SameButForMaintenance(StatusAfter(history[c], i - 1), history[c][i].from)
        /\ SameButForMaintenance(StatusAfter(history[c], Len(history[c])), cells[c].status)
<1> SUFFICES ASSUME NEW c \in Cell, Exists(c)'
             PROVE  Path(c)'
    BY DEF HistoryIsAPath, SameButForMaintenance
<1>0. Exists(c) => Path(c)
    BY DEF HistoryIsAPath
<1>a. ASSUME Exists(c), history'[c] = history[c], cells'[c].status = cells[c].status
      PROVE  Path(c)'
    BY <1>0, <1>a DEF StatusAfter, SameButForMaintenance
<1>1. CASE Untouched(c)
    BY <1>1, <1>a DEF Untouched, Exists
<1>2. CASE Created(c)
    <2>1. history'[c] = << >> /\ cells'[c].status = "surveyed"
        BY <1>2 DEF Created, NewCell, NoEvidenceBeforeCreation, Exists
    <2> QED
        BY <2>1 DEF StatusAfter, SameButForMaintenance
<1>3. ASSUME NEW next \in CellStatus, NEW request \in Job \cup {"user"},
             MovedOn(c, next, request)
      PROVE  Path(c)'
    <2> DEFINE h == history[c]
               h1 == history'[c]
               n == Len(h)
               row == Row(c, next, request)
    <2>1. Path(c) /\ cells'[c].status = next
        BY <1>0, <1>3, RowsAfterAStep DEF MovedOn
    <2>2. h \in Seq(Transition) /\ row \in Transition /\ h1 = Append(h, row)
        BY <1>3, RowsAfterAStep DEF TypeOK, MovedOn
    <2>3. row.from = cells[c].status /\ row.to = next
        BY DEF Row
    <2>4. /\ SameButForMaintenance(StatusAfter(h, n), cells[c].status)
          /\ \A i \in DOMAIN h : SameButForMaintenance(StatusAfter(h, i - 1), h[i].from)
        BY <2>1
    <2> SUFFICES /\ \A i \in DOMAIN h1 : SameButForMaintenance(StatusAfter(h1, i - 1), h1[i].from)
                 /\ SameButForMaintenance(StatusAfter(h1, Len(h1)), next)
        BY <2>1
    <2> HIDE DEF h, h1, row
    <2>6. /\ n \in Nat /\ DOMAIN h = 1..n /\ DOMAIN h1 = 1..(n + 1) /\ Len(h1) = n + 1
          /\ \A i \in 1..n : h1[i] = h[i]
          /\ h1[n + 1] = row
        BY <2>2, AppendProperties, LenProperties
    <2> HIDE DEF n
    <2>7. \A i \in 0..n : StatusAfter(h1, i) = StatusAfter(h, i)
        BY <2>6 DEF StatusAfter
    <2>8. ASSUME NEW i \in DOMAIN h1
          PROVE  SameButForMaintenance(StatusAfter(h1, i - 1), h1[i].from)
        <3>1. i - 1 \in 0..n
            BY <2>6
        <3>2. CASE i \in 1..n
            BY <2>4, <2>6, <2>7, <3>1, <3>2
        <3>3. CASE i = n + 1
            BY <2>3, <2>4, <2>6, <2>7, <3>1, <3>3
        <3> QED
            BY <2>6, <3>2, <3>3
    <2>9. StatusAfter(h1, n + 1) = next
        BY <2>3, <2>6 DEF StatusAfter
    <2> QED
        BY <2>6, <2>8, <2>9 DEF SameButForMaintenance
<1>4. ASSUME NEW kind \in InspectionKind, NEW passed \in BOOLEAN, Inspected(c, kind, passed)
      PROVE  Path(c)'
    BY <1>4, <1>a, RowsAfterAStep DEF Inspected
<1>5. CASE Maintained(c)
    <2>1. /\ Exists(c) /\ history'[c] = history[c]
          /\ cells[c].status \in {"production", "maintenance"}
          /\ cells'[c].status \in {"production", "maintenance"}
        BY <1>5, RowsAfterAStep DEF Maintained
    <2>2. SameButForMaintenance(StatusAfter(history[c], Len(history[c])), cells'[c].status)
        BY <1>0, <2>1 DEF SameButForMaintenance
    <2> QED
        BY <1>0, <2>1, <2>2 DEF StatusAfter, SameButForMaintenance
<1>6. CASE RefWritten(c)
    BY <1>6, <1>a, RowsAfterAStep DEF RefWritten
<1> QED
    BY <1>1, <1>2, <1>3, <1>4, <1>5, <1>6, OneCellStep

-----------------------------------------------------------------------------
\* What OneWritePerVersion says of one cell.
Distinct(h, s, version) ==
    /\ \A i \in DOMAIN h :
         /\ h[i].at <= version
         /\ \A j \in DOMAIN h : h[i].at = h[j].at => i = j
         /\ \A j \in DOMAIN s : h[i].at # s[j].at
    /\ \A i, j \in DOMAIN s :
         /\ s[i].at <= version
         /\ s[i].at = s[j].at => i = j

\* Rows of a cell carry natural numbers.
LEMMA RowsAreNumbered ==
    ASSUME TypeOK, NEW c \in Cell
    PROVE  /\ history[c] \in Seq(Transition) /\ inspections[c] \in Seq(Inspection)
           /\ \A i \in DOMAIN history[c] : history[c][i].at \in Nat
           /\ \A i \in DOMAIN inspections[c] : inspections[c][i].at \in Nat
           /\ Exists(c) => cells[c].version \in Nat
<1>1. history[c] \in Seq(Transition) /\ inspections[c] \in Seq(Inspection)
    BY DEF TypeOK
<1>2. \A i \in DOMAIN history[c] : history[c][i] \in Transition
    BY <1>1, ElementOfSeq, LenProperties
<1>3. \A i \in DOMAIN inspections[c] : inspections[c][i] \in Inspection
    BY <1>1, ElementOfSeq, LenProperties
<1> QED
    BY <1>1, <1>2, <1>3 DEF Transition, Inspection, TypeOK, Exists, RobotCell

\* No two writes of a cell come to carry the same version.
LEMMA VersionsStep ==
    ASSUME TypeOK, NoEvidenceBeforeCreation, OneWritePerVersion, [Next]_vars
    PROVE  OneWritePerVersion'
<1> SUFFICES ASSUME NEW c \in Cell
             PROVE  Distinct(history'[c], inspections'[c], cells'[c].version)
    BY DEF OneWritePerVersion, Distinct
<1> DEFINE h == history[c]
           s == inspections[c]
           v == cells[c].version
<1>0. Distinct(h, s, v)
    BY DEF OneWritePerVersion, Distinct
<1>t. /\ h \in Seq(Transition) /\ s \in Seq(Inspection)
      /\ \A i \in DOMAIN h : h[i].at \in Nat
      /\ \A i \in DOMAIN s : s[i].at \in Nat
      /\ Exists(c) => v \in Nat
    BY RowsAreNumbered
<1>1. CASE Untouched(c)
    BY <1>0, <1>1 DEF Untouched
<1>2. CASE Created(c)
    <2>1. history'[c] = << >> /\ inspections'[c] = << >>
        BY <1>2 DEF Created, NoEvidenceBeforeCreation, Exists
    <2> QED
        BY <2>1 DEF Distinct
<1>3. ASSUME NEW next \in CellStatus, NEW request \in Job \cup {"user"},
             MovedOn(c, next, request)
      PROVE  Distinct(history'[c], inspections'[c], cells'[c].version)
    <2> DEFINE h1 == history'[c]
               row == Row(c, next, request)
    <2>1. /\ Exists(c) /\ row \in Transition /\ h1 = Append(h, row) /\ inspections'[c] = s
          /\ cells'[c].version = v + 1
        BY <1>3, RowsAfterAStep DEF MovedOn
    <2>2. row.at = v + 1
        BY DEF Row
    <2> HIDE DEF h, s, h1, row, v
    <2>3. /\ Len(h) \in Nat /\ DOMAIN h = 1..Len(h) /\ DOMAIN h1 = 1..(Len(h) + 1)
          /\ \A i \in 1..Len(h) : h1[i] = h[i]
          /\ h1[Len(h) + 1] = row
        BY <1>t, <2>1, AppendProperties, LenProperties
    <2>4. Distinct(h1, s, v + 1)
        BY <1>0, <1>t, <2>1, <2>2, <2>3 DEF Distinct
    <2> QED
        BY <2>1, <2>4 DEF h1
<1>4. ASSUME NEW kind \in InspectionKind, NEW passed \in BOOLEAN, Inspected(c, kind, passed)
      PROVE  Distinct(history'[c], inspections'[c], cells'[c].version)
    <2> DEFINE s1 == inspections'[c]
               row == [kind |-> kind, passed |-> passed, at |-> v + 1]
    <2>1. /\ Exists(c) /\ s1 = Append(s, row) /\ history'[c] = h
          /\ cells'[c].version = v + 1
        BY <1>4, RowsAfterAStep DEF Inspected
    <2>2. row.at = v + 1 /\ row \in Inspection
        BY <1>t, <2>1 DEF Inspection
    <2> HIDE DEF h, s, s1, row, v
    <2>3. /\ Len(s) \in Nat /\ DOMAIN s = 1..Len(s) /\ DOMAIN s1 = 1..(Len(s) + 1)
          /\ \A i \in 1..Len(s) : s1[i] = s[i]
          /\ s1[Len(s) + 1] = row
        BY <1>t, <2>1, <2>2, AppendProperties, LenProperties
    <2>4. Distinct(h, s1, v + 1)
        BY <1>0, <1>t, <2>1, <2>2, <2>3 DEF Distinct
    <2> QED
        BY <2>1, <2>4 DEF s1
<1>5. CASE Maintained(c)
    <2>1. /\ Exists(c) /\ history'[c] = h /\ inspections'[c] = s
          /\ cells'[c].version = v + 1
        BY <1>5, RowsAfterAStep DEF Maintained
    <2> HIDE DEF h, s, v
    <2>2. Distinct(h, s, v + 1)
        BY <1>0, <1>t, <2>1 DEF Distinct
    <2> QED
        BY <2>1, <2>2
<1>6. CASE RefWritten(c)
    BY <1>0, <1>6, RowsAfterAStep DEF RefWritten
<1> QED
    BY <1>1, <1>2, <1>3, <1>4, <1>5, <1>6, OneCellStep

-----------------------------------------------------------------------------
\* What EvidenceIsFromReviews says of one cell.
FromReviews(h, s) ==
    \A i \in DOMAIN s :
        \E k \in DOMAIN h :
            /\ h[k].to = "safety_review"
            /\ h[k].at < s[i].at
            /\ \A l \in DOMAIN h : l > k => h[l].at > s[i].at

\* A row that is appended carries a later version than every row there is, and
\* an inspection finds the row into the review at the end of the history.
LEMMA EvidenceStep ==
    ASSUME TypeOK, NoEvidenceBeforeCreation, HistoryIsAPath, OneWritePerVersion,
           EvidenceIsFromReviews, [Next]_vars
    PROVE  EvidenceIsFromReviews'
<1> SUFFICES ASSUME NEW c \in Cell
             PROVE  FromReviews(history'[c], inspections'[c])
    BY DEF EvidenceIsFromReviews, FromReviews
<1> DEFINE h == history[c]
           s == inspections[c]
           v == cells[c].version
<1>0. FromReviews(h, s) /\ Distinct(h, s, v)
    BY DEF EvidenceIsFromReviews, FromReviews, OneWritePerVersion, Distinct
<1>t. /\ h \in Seq(Transition) /\ s \in Seq(Inspection) /\ (Exists(c) => v \in Nat)
      /\ \A i \in DOMAIN h : h[i].at \in Nat
      /\ \A i \in DOMAIN s : s[i].at \in Nat
    BY RowsAreNumbered
<1>1. ASSUME history'[c] = h, inspections'[c] = s
      PROVE  FromReviews(history'[c], inspections'[c])
    BY <1>0, <1>1
<1>2. ASSUME NEW next \in CellStatus, NEW request \in Job \cup {"user"},
             MovedOn(c, next, request)
      PROVE  FromReviews(history'[c], inspections'[c])
    <2> DEFINE h1 == history'[c]
               row == Row(c, next, request)
    <2>1. /\ Exists(c) /\ row \in Transition /\ h1 = Append(h, row) /\ inspections'[c] = s
        BY <1>2, RowsAfterAStep DEF MovedOn
    <2>2. row.at = v + 1
        BY DEF Row
    <2> HIDE DEF h, s, h1, row, v
    <2>3. /\ Len(h) \in Nat /\ DOMAIN h = 1..Len(h) /\ DOMAIN h1 = 1..(Len(h) + 1)
          /\ \A i \in 1..Len(h) : h1[i] = h[i]
          /\ h1[Len(h) + 1] = row
        BY <1>t, <2>1, AppendProperties, LenProperties
    <2>4. ASSUME NEW i \in DOMAIN s
          PROVE  \E k \in DOMAIN h1 :
                     /\ h1[k].to = "safety_review"
                     /\ h1[k].at < s[i].at
                     /\ \A l \in DOMAIN h1 : l > k => h1[l].at > s[i].at
        <3>1. s[i].at < row.at
            BY <1>0, <1>t, <2>1, <2>2 DEF Distinct
        <3>2. PICK k \in DOMAIN h :
                  /\ h[k].to = "safety_review"
                  /\ h[k].at < s[i].at
                  /\ \A l \in DOMAIN h : l > k => h[l].at > s[i].at
            BY <1>0 DEF FromReviews
        <3>3. \A l \in DOMAIN h1 : l > k => h1[l].at > s[i].at
            BY <1>t, <2>1, <2>2, <2>3, <3>1, <3>2
        <3> QED
            BY <2>3, <3>2, <3>3
    <2>5. FromReviews(h1, s)
        BY <2>4 DEF FromReviews
    <2> QED
        BY <2>1, <2>5 DEF h1
<1>3. ASSUME NEW kind \in InspectionKind, NEW passed \in BOOLEAN, Inspected(c, kind, passed)
      PROVE  FromReviews(history'[c], inspections'[c])
    <2> DEFINE s1 == inspections'[c]
               row == [kind |-> kind, passed |-> passed, at |-> v + 1]
    <2>1. /\ Exists(c) /\ s1 = Append(s, row) /\ history'[c] = h
          /\ cells[c].status = "safety_review"
        BY <1>3 DEF Inspected
    <2>2. row.at = v + 1 /\ row \in Inspection
        BY <1>t, <2>1 DEF Inspection
    <2>3. SameButForMaintenance(StatusAfter(h, Len(h)), "safety_review")
        BY <2>1 DEF HistoryIsAPath
    <2> HIDE DEF h, s, s1, row, v
    <2>4. Len(h) \in Nat /\ DOMAIN h = 1..Len(h)
        BY <1>t, LenProperties
    <2>5. Len(h) # 0 /\ h[Len(h)].to = "safety_review"
        BY <2>3, <2>4 DEF SameButForMaintenance, StatusAfter
    <2>6. Len(h) \in DOMAIN h /\ h[Len(h)].at < row.at
        BY <1>0, <1>t, <2>1, <2>2, <2>4, <2>5 DEF Distinct
    <2>7. /\ DOMAIN s = 1..Len(s) /\ Len(s) \in Nat /\ DOMAIN s1 = 1..(Len(s) + 1)
          /\ \A i \in 1..Len(s) : s1[i] = s[i]
          /\ s1[Len(s) + 1] = row
        BY <1>t, <2>1, <2>2, AppendProperties, LenProperties
    <2>8. ASSUME NEW i \in DOMAIN s1
          PROVE  \E k \in DOMAIN h :
                     /\ h[k].to = "safety_review"
                     /\ h[k].at < s1[i].at
                     /\ \A l \in DOMAIN h : l > k => h[l].at > s1[i].at
        <3>1. CASE i = Len(s) + 1
            BY <2>4, <2>5, <2>6, <2>7, <3>1
        <3>2. CASE i # Len(s) + 1
            <4>1. i \in DOMAIN s /\ s1[i] = s[i]
                BY <2>7, <3>2
            <4> QED
                BY <1>0, <4>1 DEF FromReviews
        <3> QED
            BY <3>1, <3>2
    <2>9. FromReviews(h, s1)
        BY <2>8 DEF FromReviews
    <2> QED
        BY <2>1, <2>9 DEF s1
<1>4. CASE Untouched(c) \/ Created(c) \/ Maintained(c) \/ RefWritten(c)
    BY <1>1, <1>4 DEF Untouched, Created, Maintained, RefWritten
<1> QED
    BY <1>2, <1>3, <1>4, OneCellStep

-----------------------------------------------------------------------------
\* A row is inserted with version 1, and no write takes a version back.
VersionsFromOne == \A c \in Cell : Exists(c) => cells[c].version >= 1

\* Versions start at one and never fall back.
LEMMA VersionsFromOneStep ==
    ASSUME TypeOK, VersionsFromOne, [Next]_vars
    PROVE  VersionsFromOne'
<1> SUFFICES ASSUME NEW c \in Cell, Exists(c)'
             PROVE  cells'[c].version >= 1
    BY DEF VersionsFromOne, Exists
<1>1. Exists(c) => cells[c].version \in Nat /\ cells[c].version >= 1
    BY RowsAreNumbered DEF VersionsFromOne
<1>2. CASE Untouched(c)
    BY <1>1, <1>2 DEF Untouched, Exists
<1>3. CASE Created(c)
    BY <1>3 DEF Created, NewCell
<1>4. CASE \E next \in CellStatus, request \in Job \cup {"user"} : MovedOn(c, next, request)
    BY <1>1, <1>4, RowsAfterAStep DEF MovedOn
<1>5. CASE \E kind \in InspectionKind, passed \in BOOLEAN : Inspected(c, kind, passed)
    BY <1>1, <1>5, RowsAfterAStep DEF Inspected
<1>6. CASE Maintained(c)
    BY <1>1, <1>6, RowsAfterAStep DEF Maintained
<1>7. CASE RefWritten(c)
    BY <1>1, <1>7, RowsAfterAStep DEF RefWritten
<1> QED
    BY <1>2, <1>3, <1>4, <1>5, <1>6, <1>7, OneCellStep

-----------------------------------------------------------------------------
IInv == /\ TypeOK
        /\ NoEvidenceBeforeCreation
        /\ CommissionedIsAccepted
        /\ PassedPhases
        /\ FlagsMatchEvidence
        /\ HistoryIsAPath
        /\ OneWritePerVersion
        /\ EvidenceIsFromReviews
        /\ VersionsFromOne

\* The inductive invariant holds of an empty database.
LEMMA InvariantInit ==
    ASSUME Init
    PROVE  IInv
<1>1. /\ \A c \in Cell : cells[c] = NoCell /\ history[c] = << >> /\ inspections[c] = << >>
      /\ \A c \in Cell : ~Exists(c)
    BY DEF Init, Exists
<1>2. TypeOK
    BY EmptySeq DEF Init, TypeOK
<1>3. NoEvidenceBeforeCreation /\ PassedPhases /\ FlagsMatchEvidence /\ HistoryIsAPath
    BY <1>1 DEF NoEvidenceBeforeCreation, PassedPhases, FlagsMatchEvidence, HistoryIsAPath
<1>4. CommissionedIsAccepted
    BY <1>1 DEF CommissionedIsAccepted, Commissioned, NoCell
<1>5. OneWritePerVersion /\ EvidenceIsFromReviews /\ VersionsFromOne
    BY <1>1 DEF OneWritePerVersion, EvidenceIsFromReviews, VersionsFromOne
<1> QED
    BY <1>2, <1>3, <1>4, <1>5 DEF IInv

\* Every step preserves the inductive invariant.
LEMMA InvariantStep ==
    ASSUME IInv, [Next]_vars
    PROVE  IInv'
BY TypeStep, NoEvidenceStep, AcceptedStep, PassedPhasesStep, FlagsStep, PathStep,
   VersionsStep, EvidenceStep, VersionsFromOneStep DEF IInv

\* What the invariant says of every cell.
LEMMA InvariantImplies ==
    ASSUME IInv
    PROVE  /\ TypeOK /\ NoEvidenceBeforeCreation /\ VersionsFromOne
           /\ CommissionedIsAccepted /\ FlagsMatchEvidence /\ HistoryIsAPath
           /\ OneWritePerVersion /\ EvidenceIsFromReviews
           /\ CommissionedPassedEveryPhase
<1>1. ASSUME NEW c \in Cell, cells[c].status \in Commissioned
      PROVE  { "proposed", "approved", "scheduled", "installing", "calibrating",
               "safety_review", "production" } \subseteq Visited(c)
    <2>1. Exists(c)
        BY <1>1 DEF Exists, NoCell, Commissioned
    <2>2. Behind(cells[c].status) \subseteq Visited(c)
        BY <2>1 DEF IInv, PassedPhases
    <2> QED
        BY <1>1, <2>2 DEF Behind, Commissioned
<1> QED
    BY <1>1 DEF IInv, CommissionedPassedEveryPhase

\* The parts of the invariant, established and kept together.
THEOREM InvariantHolds == Spec => []IInv
<1>1. Init => IInv
    BY InvariantInit
<1>2. IInv /\ [Next]_vars => IInv'
    BY InvariantStep
<1> QED
    BY <1>1, <1>2, PTL DEF Spec

\* The tables always hold rows of their types (TypeOK).
THEOREM TypeCorrect == Spec => []TypeOK
<1>1. IInv => TypeOK
    BY DEF IInv
<1> QED
    BY <1>1, InvariantHolds, PTL

\* Every cell in production, in maintenance or retired passed both reviews and
\* is calibrated.
THEOREM CommissionedCellsAreAccepted == Spec => []CommissionedIsAccepted
<1>1. IInv => CommissionedIsAccepted
    BY DEF IInv
<1> QED
    BY <1>1, InvariantHolds, PTL

\* The two conclusions of a cell are those of its last inspections.
THEOREM ConclusionsFollowEvidence == Spec => []FlagsMatchEvidence
<1>1. IInv => FlagsMatchEvidence
    BY DEF IInv
<1> QED
    BY <1>1, InvariantHolds, PTL

\* cell_transitions is the path of the status, up to maintenance.
THEOREM TransitionsFormAPath == Spec => []HistoryIsAPath
<1>1. IInv => HistoryIsAPath
    BY DEF IInv
<1> QED
    BY <1>1, InvariantHolds, PTL

\* No version of a cell has two rows of evidence.
THEOREM VersionsAreWrittenOnce == Spec => []OneWritePerVersion
<1>1. IInv => OneWritePerVersion
    BY DEF IInv
<1> QED
    BY <1>1, InvariantHolds, PTL

\* Every inspection was made in a review, as the two tables tell it.
THEOREM InspectionsAreOfReviews == Spec => []EvidenceIsFromReviews
<1>1. IInv => EvidenceIsFromReviews
    BY DEF IInv
<1> QED
    BY <1>1, InvariantHolds, PTL

\* The history of a commissioned cell shows every phase.
THEOREM NoPhaseIsSkipped == Spec => []CommissionedPassedEveryPhase
<1>1. IInv => CommissionedPassedEveryPhase
    BY InvariantImplies
<1> QED
    BY <1>1, InvariantHolds, PTL

-----------------------------------------------------------------------------
\* What AdmittedByLatestEvidence says of one cell.
Admission(c) ==
    \E k \in DOMAIN history[c] :
        /\ history[c][k].from = "safety_review" /\ history[c][k].to = "production"
        /\ \A kind \in InspectionKind :
             \E i \in LastOf(c, kind) :
                 inspections[c][i].passed /\ inspections[c][i].at < history[c][k].at

\* Whoever passes the gate has both conclusions, which are those of the last
\* inspections, and the row of the move carries a later version than they do.
LEMMA AdmissionStep ==
    ASSUME IInv, AdmittedByLatestEvidence, [Next]_vars
    PROVE  AdmittedByLatestEvidence'
<1> SUFFICES ASSUME NEW c \in Cell, cells'[c].status \in Commissioned
             PROVE  Admission(c)'
    BY DEF AdmittedByLatestEvidence, Admission
<1>i. TypeOK /\ FlagsMatchEvidence /\ OneWritePerVersion
    BY DEF IInv
<1>0. cells[c].status \in Commissioned => Admission(c)
    BY DEF AdmittedByLatestEvidence, Admission
<1>1. ASSUME history'[c] = history[c], inspections'[c] = inspections[c],
             cells[c].status \in Commissioned
      PROVE  Admission(c)'
    BY <1>0, <1>1 DEF Admission, LastOf
<1>2. CASE Untouched(c)
    BY <1>1, <1>2 DEF Untouched
<1>3. CASE Created(c)
    BY <1>3 DEF Created, NewCell, Commissioned
<1>4. ASSUME NEW next \in CellStatus, NEW request \in Job \cup {"user"},
             MovedOn(c, next, request)
      PROVE  Admission(c)'
    <2> DEFINE h == history[c]
               h1 == history'[c]
               row == Row(c, next, request)
    <2>1. /\ h \in Seq(Transition) /\ row \in Transition /\ h1 = Append(h, row)
          /\ inspections'[c] = inspections[c]
        BY <1>4, <1>i, RowsAfterAStep DEF MovedOn, TypeOK
    <2>2. \A kind \in InspectionKind : LastOf(c, kind)' = LastOf(c, kind)
        BY <2>1 DEF LastOf
    <2> HIDE DEF h, h1, row
    <2>3. /\ Len(h) \in Nat /\ DOMAIN h = 1..Len(h) /\ DOMAIN h1 = 1..(Len(h) + 1)
          /\ \A i \in 1..Len(h) : h1[i] = h[i]
          /\ h1[Len(h) + 1] = row
        BY <2>1, AppendProperties, LenProperties
    <2>4. CASE cells[c].status \in Commissioned
        <3>1. PICK k \in DOMAIN h :
                  /\ h[k].from = "safety_review" /\ h[k].to = "production"
                  /\ \A kind \in InspectionKind :
                       \E i \in LastOf(c, kind) :
                           inspections[c][i].passed /\ inspections[c][i].at < h[k].at
            BY <1>0, <2>4 DEF Admission, h
        <3>2. k \in DOMAIN h1 /\ h1[k] = h[k]
            BY <2>3
        <3> QED
            BY <2>1, <2>2, <3>1, <3>2 DEF Admission, h1
    <2>5. CASE cells[c].status \notin Commissioned
        <3>1. next \in Commissioned /\ Exists(c) /\ CanTransition(cells[c], next)
            BY <1>4, <1>i, RowsAfterAStep DEF MovedOn
        <3>2. cells[c].status = "safety_review" /\ next = "production" /\ Accepted(cells[c])
            BY <2>5, <3>1 DEF CanTransition, cellTransitions, Commissioned
        <3>3. row.from = "safety_review" /\ row.to = "production"
              /\ row.at = cells[c].version + 1
            BY <3>2 DEF row, Row
        <3>4. ASSUME NEW kind \in InspectionKind
              PROVE  \E i \in LastOf(c, kind) :
                         inspections[c][i].passed /\ inspections[c][i].at < row.at
            <4>1. PICK i \in LastOf(c, kind) : inspections[c][i].passed
                BY <1>i, <3>1, <3>2 DEF FlagsMatchEvidence, Accepted, InspectionKind
            <4>2. i \in DOMAIN inspections[c]
                BY DEF LastOf
            <4>3. /\ inspections[c][i].at \in Nat /\ cells[c].version \in Nat
                  /\ inspections[c][i].at <= cells[c].version
                BY <1>i, <3>1, <4>2, RowsAreNumbered DEF OneWritePerVersion
            <4> QED
                BY <3>3, <4>1, <4>3
        <3>5. Len(h) + 1 \in DOMAIN h1 /\ h1[Len(h) + 1] = row
            BY <2>3
        <3> QED
            BY <2>1, <2>2, <3>3, <3>4, <3>5 DEF Admission, h1
    <2> QED
        BY <2>4, <2>5
<1>5. ASSUME NEW kind \in InspectionKind, NEW passed \in BOOLEAN, Inspected(c, kind, passed)
      PROVE  FALSE
    BY <1>5, <1>i, RowsAfterAStep DEF Commissioned
<1>6. CASE Maintained(c)
    <2>1. cells[c].status \in Commissioned
        BY <1>6, <1>i, RowsAfterAStep DEF Commissioned
    <2> QED
        BY <1>1, <1>6, <2>1 DEF Maintained
<1>7. CASE RefWritten(c)
    BY <1>7, <1>i, RowsAfterAStep DEF RefWritten, Commissioned
<1> QED
    BY <1>2, <1>3, <1>4, <1>5, <1>6, <1>7, <1>i, OneCellStep

\* A cell enters production after its last inspection of either kind, which passed
\* (AdmittedByLatestEvidence).
THEOREM LatestEvidenceAdmits == Spec => []AdmittedByLatestEvidence
<1>1. Init => AdmittedByLatestEvidence
    BY DEF Init, AdmittedByLatestEvidence, Commissioned, NoCell
<1>2. IInv /\ AdmittedByLatestEvidence /\ [Next]_vars => AdmittedByLatestEvidence'
    BY AdmissionStep
<1> QED
    BY <1>1, <1>2, InvariantHolds, PTL DEF Spec

-----------------------------------------------------------------------------
\* Without an outside writer no cell gets the calibration_ref that the gate before
\* production asks for.
NeverCalibrated == \A c \in Cell : Exists(c) => ~cells[c].calibrated

\* Of all writers of robot_cells only the outside one fills calibration_ref.
LEMMA NeverCalibratedStep ==
    ASSUME TypeOK, ~CalibrationWriter, NeverCalibrated, [Next]_vars
    PROVE  NeverCalibrated'
<1> SUFFICES ASSUME NEW c \in Cell, Exists(c)'
             PROVE  ~cells'[c].calibrated
    BY DEF NeverCalibrated, Exists
<1> USE DEF TypeOK
<1>0. Exists(c) => cells[c] \in RobotCell /\ ~cells[c].calibrated
    BY DEF NeverCalibrated, Exists
<1>1. ASSUME cells'[c] = cells[c]
      PROVE  ~cells'[c].calibrated
    BY <1>0, <1>1 DEF Exists
<1>2. ASSUME NEW d \in Cell, NEW role \in Role, CreateCell(d, role)
      PROVE  ~cells'[c].calibrated
    BY <1>1, <1>2 DEF CreateCell, NewCell
<1>3. ASSUME NEW d \in Cell, NEW next \in CellStatus, Exists(d),
             cells' = [cells EXCEPT ![d] = Moved(d, next)]
      PROVE  ~cells'[c].calibrated
    <2>1. CASE d = c
        BY <1>0, <1>3, <2>1 DEF Moved, RobotCell
    <2> QED
        BY <1>1, <1>3, <2>1
<1>4. ASSUME NEW d \in Cell, NEW role \in Role, NEW expected \in 1..MaxVersion,
             NEW next \in DOMAIN allowed, TransitionCell(d, expected, next, role)
      PROVE  ~cells'[c].calibrated
    <2>1. next \in CellStatus
        BY DEF allowed, CellStatus
    <2> QED
        BY <1>3, <1>4, <2>1 DEF TransitionCell
<1>5. ASSUME NEW d \in Cell, NEW role \in Role, NEW expected \in 1..MaxVersion,
             RetireCell(d, expected, role)
      PROVE  ~cells'[c].calibrated
    <2>1. "retired" \in CellStatus
        BY DEF CellStatus
    <2> QED
        BY <1>3, <1>5, <2>1 DEF RetireCell
<1>6. ASSUME NEW d \in Cell, NEW role \in Role, NEW kind \in InspectionKind,
             NEW passed \in BOOLEAN, RecordInspection(d, kind, passed, role)
      PROVE  ~cells'[c].calibrated
    <2>1. CASE d = c
        <3>1. cells'[c] = Concluded(c, kind, passed) /\ Exists(c)
            BY <1>6, <2>1 DEF RecordInspection
        <3> QED
            BY <1>0, <3>1 DEF Concluded, Verdict, RobotCell
    <2> QED
        BY <1>1, <1>6, <2>1 DEF RecordInspection
<1>7. ASSUME NEW d \in Cell, NEW job \in Job, CompensateCalibration(d, job)
      PROVE  ~cells'[c].calibrated
    <2>1. CASE d = c
        <3> DEFINE m == Moved(c, "installing")
        <3>1. m \in RobotCell
            <4>1. cells[c] \in RobotCell /\ cells[c].version + 1 \in Nat
                BY <1>0, <1>7, <2>1 DEF CompensateCalibration, RobotCell
            <4> QED
                BY <4>1 DEF Moved, RobotCell, CellStatus
        <3>2. cells'[c] = [m EXCEPT !.calibrated = FALSE]
            BY <1>7, <2>1 DEF CompensateCalibration
        <3> HIDE DEF m
        <3> QED
            BY <3>1, <3>2 DEF RobotCell
    <2> QED
        BY <1>1, <1>7, <2>1 DEF CompensateCalibration
<1>8. ASSUME NEW d \in Cell, \/ MaintenanceWrites(d, "production", "maintenance")
                             \/ MaintenanceWrites(d, "maintenance", "production")
      PROVE  ~cells'[c].calibrated
    <2>1. "production" \in CellStatus /\ "maintenance" \in CellStatus
        BY DEF CellStatus
    <2> QED
        BY <1>3, <1>8, <2>1 DEF MaintenanceWrites
<1>9. ASSUME NEW d \in Cell, WriteCalibrationRef(d)
      PROVE  FALSE
    BY <1>9 DEF WriteCalibrationRef
<1>10. CASE DependentsChange \/ UNCHANGED vars
    BY <1>1, <1>10 DEF DependentsChange, vars
<1> QED
    BY <1>2, <1>4, <1>5, <1>6, <1>7, <1>8, <1>9, <1>10 DEF Next

\* With the operations of the repository alone no cell is ever in production, in
\* maintenance or retired (ProductionIsUnreachable).
THEOREM ProductionIsNeverReached == Spec => []ProductionIsUnreachable
<1>1. Init => NeverCalibrated
    BY DEF Init, NeverCalibrated, Exists
<1>2. ~CalibrationWriter /\ TypeOK /\ NeverCalibrated /\ [Next]_vars => NeverCalibrated'
    BY NeverCalibratedStep
<1>3. IInv /\ NeverCalibrated => ProductionIsUnreachable
    <2> SUFFICES ASSUME IInv, NeverCalibrated, NEW c \in Cell
                 PROVE  cells[c].status \notin Commissioned
        BY DEF ProductionIsUnreachable
    <2>1. CASE Exists(c)
        BY <2>1 DEF IInv, NeverCalibrated, CommissionedIsAccepted, Accepted
    <2>2. CASE ~Exists(c)
        BY <2>2 DEF Exists, NoCell, Commissioned
    <2> QED
        BY <2>1, <2>2
<1>4. CASE CalibrationWriter
    <2>1. ProductionIsUnreachable
        BY <1>4 DEF ProductionIsUnreachable
    <2> QED
        BY <2>1, PTL
<1>5. CASE ~CalibrationWriter
    <2>1. TypeOK /\ NeverCalibrated /\ [Next]_vars => NeverCalibrated'
        BY <1>2, <1>5
    <2> QED
        BY <1>1, <1>3, <2>1, InvariantHolds, TypeCorrect, PTL DEF Spec
<1> QED
    BY <1>4, <1>5

-----------------------------------------------------------------------------
\* No step changes a retired cell or its evidence.
THEOREM RetirementIsFinal == Spec => RetiredIsFinal
<1>1. ASSUME TypeOK, [Next]_vars, NEW c \in Cell, cells[c].status = "retired"
      PROVE  Untouched(c)
    <2>1. cells[c] # NoCell
        BY <1>1 DEF NoCell
    <2>2. \A next \in CellStatus : ~CanTransition(cells[c], next)
        BY <1>1 DEF CanTransition, cellTransitions
    <2> QED
        BY <1>1, <2>1, <2>2, OneCellStep DEF Created, MovedOn, Inspected, Maintained, RefWritten
<1>2. TypeOK /\ [Next]_vars =>
        [\A c \in Cell : cells[c].status = "retired" =>
             /\ cells'[c] = cells[c]
             /\ history'[c] = history[c]
             /\ inspections'[c] = inspections[c]]_vars
    BY <1>1 DEF Untouched
<1> QED
    BY <1>2, TypeCorrect, PTL DEF Spec, RetiredIsFinal

=============================================================================
