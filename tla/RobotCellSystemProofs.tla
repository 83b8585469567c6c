----------------------- MODULE RobotCellSystemProofs -----------------------
(***************************************************************************)
(* For any cells, orders, parts, windows, resources, catalog and instants. *)
(*                                                                         *)
(* First the windows by themselves: a window holds its resources exactly   *)
(* while it is reserved, and two windows that hold one resource never      *)
(* overlap as far as the stored texts can tell.  What that means in time   *)
(* is then arithmetic: nothing on whole seconds, less than a second        *)
(* otherwise.                                                              *)
(*                                                                         *)
(* Then the tables together: every step of the system is a step of each    *)
(* component or leaves its tables alone, so the invariants proved of the   *)
(* components hold here, and with them what the components owe each other. *)
(***************************************************************************)
EXTENDS RobotCellSystem, TLAPS

\* What the trigger keeps true of the rows of two windows that hold one
\* resource.  It is inductive only together with the type and with
\* ReservedHoldsItsResources, which says which rows an approval finds.
NoTextOverlap ==
    \A p \in Contenders : ~ /\ TextLess(p[1].starts, p[2].ends)
                            /\ TextLess(p[2].starts, p[1].ends)

WindowsInv == TypeOK /\ ReservedHoldsItsResources /\ NoTextOverlap

-----------------------------------------------------------------------------
\* The rows an approval inserts are rows of the table, active, and its own.
LEMMA NewRowsAreTyped ==
    ASSUME TypeOK, NEW w \in Window, windows[w] # NoWindow
    PROVE  /\ windows[w] \in WorkWindow
           /\ NewReservations(w) \subseteq Reservation
           /\ \A r \in NewReservations(w) : ~r.released /\ r.window = w
<1>1. windows[w] \in WorkWindow
    BY DEF TypeOK
<1>2. Resources(windows[w]) \subseteq Resource
    BY <1>1 DEF Resources, Resource, WorkWindow
<1>3. ASSUME NEW resource \in Resources(windows[w])
      PROVE  /\ NewReservation(w, resource) \in Reservation
             /\ ~NewReservation(w, resource).released
             /\ NewReservation(w, resource).window = w
    BY <1>1, <1>2, <1>3 DEF NewReservation, Reservation, WorkWindow
<1> QED
    BY <1>1, <1>3 DEF NewReservations

\* What every write of a window does to its row.
LEMMA StatusWriteIsTyped ==
    ASSUME NEW row \in WorkWindow, NEW status \in WindowStatus
    PROVE  LET new == [row EXCEPT !.status = status, !.version = @ + 1]
           IN  /\ new \in WorkWindow
               /\ new.status = status
               /\ new.starts = row.starts /\ new.ends = row.ends
               /\ new.workstation = row.workstation
               /\ new.tool = row.tool /\ new.person = row.person
<1>1. row.version + 1 \in Nat
    BY DEF WorkWindow
<1> QED
    BY <1>1 DEF WorkWindow

\* The type is inductive.
LEMMA WindowsTypeStep ==
    ASSUME TypeOK, [Next]_vars
    PROVE  TypeOK'
<1> USE DEF TypeOK
<1>1. ASSUME NEW w \in Window, NEW role \in Role, NEW window \in Requestable,
             Request(w, window, role)
      PROVE  TypeOK'
    <2>1. window \in WorkWindow
        BY CatalogAssumption DEF Requestable, WorkWindow, WindowStatus
    <2> QED
        BY <1>1, <2>1 DEF Request
<1>2. ASSUME NEW w \in Window, NEW role \in Role, NEW expected \in 1..LastVersion,
             NEW kind \in QualificationKind, Approve(w, expected, kind, role)
      PROVE  TypeOK'
    <2>1. windows[w] \in WorkWindow /\ NewReservations(w) \subseteq Reservation
        BY <1>2, NewRowsAreTyped DEF Approve
    <2>2. [windows[w] EXCEPT !.status = "reserved", !.version = @ + 1] \in WorkWindow
        BY <2>1, StatusWriteIsTyped DEF WindowStatus
    <2>3. windows' \in [Window -> WorkWindow \cup {NoWindow}]
        BY <1>2, <2>2 DEF Approve
    <2> QED
        BY <1>2, <2>1, <2>3 DEF Approve
<1>3. ASSUME NEW w \in Window, NEW role \in Role, NEW expected \in 1..LastVersion,
             Cancel(w, expected, role)
      PROVE  TypeOK'
    <2>1. windows[w] \in WorkWindow
        BY <1>3 DEF Cancel
    <2>2. [windows[w] EXCEPT !.status = "cancelled", !.version = @ + 1] \in WorkWindow
        BY <2>1, StatusWriteIsTyped DEF WindowStatus
    <2>3. windows' \in [Window -> WorkWindow \cup {NoWindow}]
        BY <1>3, <2>2 DEF Cancel
    <2>4. ASSUME NEW r \in reservations
          PROVE  [r EXCEPT !.released = TRUE] \in Reservation
        BY <2>4 DEF Reservation
    <2>5. reservations' \subseteq Reservation
        BY <1>3, <2>4 DEF Cancel
    <2> QED
        BY <1>3, <2>3, <2>5 DEF Cancel
<1>4. CASE ClockAdvances
    BY <1>4 DEF ClockAdvances
<1>5. CASE UNCHANGED vars
    BY <1>5 DEF vars
<1> QED
    BY <1>1, <1>2, <1>3, <1>4, <1>5 DEF Next

-----------------------------------------------------------------------------
\* The rows of a window, and the part they play in ReservedHoldsItsResources.
HeldBy(w) == { r \in Active : r.window = w }

\* Every step keeps a reserved window in possession of what it reserved, and no other.
LEMMA HoldsStep ==
    ASSUME TypeOK, ReservedHoldsItsResources, [Next]_vars
    PROVE  ReservedHoldsItsResources'
<1> SUFFICES ASSUME NEW v \in Window
             PROVE  HeldBy(v)' = IF windows'[v].status = "reserved"
                                 THEN NewReservations(v)' ELSE {}
    BY DEF ReservedHoldsItsResources, HeldBy
<1>0. HeldBy(v) = IF windows[v].status = "reserved" THEN NewReservations(v) ELSE {}
    BY DEF ReservedHoldsItsResources, HeldBy
<1>a. ASSUME windows'[v] = windows[v], HeldBy(v)' = HeldBy(v)
      PROVE  HeldBy(v)' = IF windows'[v].status = "reserved"
                          THEN NewReservations(v)' ELSE {}
    BY <1>a, <1>0 DEF NewReservations, NewReservation
<1>1. ASSUME NEW w \in Window, NEW role \in Role, NEW window \in Requestable,
             Request(w, window, role)
      PROVE  HeldBy(v)' = IF windows'[v].status = "reserved"
                          THEN NewReservations(v)' ELSE {}
    <2>1. HeldBy(v)' = HeldBy(v)
        BY <1>1 DEF Request, HeldBy, Active
    <2>2. CASE v = w
        <3>1. windows[v].status = "none" /\ windows'[v].status = "requested"
            BY <1>1, <2>2 DEF Request, NoWindow, Requestable, TypeOK
        <3> QED
            BY <1>0, <2>1, <3>1
    <2>3. CASE v # w
        BY <1>1, <1>a, <2>1, <2>3 DEF Request, TypeOK
    <2> QED
        BY <2>2, <2>3
<1>2. ASSUME NEW w \in Window, NEW role \in Role, NEW expected \in 1..LastVersion,
             NEW kind \in QualificationKind, Approve(w, expected, kind, role)
      PROVE  HeldBy(v)' = IF windows'[v].status = "reserved"
                          THEN NewReservations(v)' ELSE {}
    <2>1. /\ windows[w] \in WorkWindow
          /\ \A r \in NewReservations(w) : ~r.released /\ r.window = w
        BY <1>2, NewRowsAreTyped DEF Approve
    <2>2. reservations' = reservations \cup NewReservations(w)
        BY <1>2 DEF Approve
    <2>3. CASE v = w
        <3>1. windows[v].status = "requested"
            BY <1>2, <2>3 DEF Approve, CanTransition, transitions
        <3>2. HeldBy(v)' = NewReservations(v)
            BY <1>0, <2>1, <2>2, <2>3, <3>1 DEF HeldBy, Active
        <3>3. windows'[v] = [windows[v] EXCEPT !.status = "reserved", !.version = @ + 1]
            BY <1>2, <2>3 DEF Approve, TypeOK
        <3>4. /\ windows'[v].status = "reserved"
              /\ windows'[v].starts = windows[v].starts
              /\ windows'[v].ends = windows[v].ends
              /\ windows'[v].workstation = windows[v].workstation
              /\ windows'[v].tool = windows[v].tool
              /\ windows'[v].person = windows[v].person
            BY <2>1, <2>3, <3>3 DEF WorkWindow
        <3>5. NewReservations(v)' = NewReservations(v)
            BY <3>4 DEF NewReservations, NewReservation, Resources
        <3> QED
            BY <3>2, <3>4, <3>5
    <2>4. CASE v # w
        <3>1. windows'[v] = windows[v]
            BY <1>2, <2>4 DEF Approve, TypeOK
        <3>2. HeldBy(v)' = HeldBy(v)
            BY <2>1, <2>2, <2>4 DEF HeldBy, Active
        <3> QED
            BY <1>a, <3>1, <3>2
    <2> QED
        BY <2>3, <2>4
<1>3. ASSUME NEW w \in Window, NEW role \in Role, NEW expected \in 1..LastVersion,
             Cancel(w, expected, role)
      PROVE  HeldBy(v)' = IF windows'[v].status = "reserved"
                          THEN NewReservations(v)' ELSE {}
    <2>1. reservations' = { IF r.window = w THEN [r EXCEPT !.released = TRUE] ELSE r
                              : r \in reservations }
        BY <1>3 DEF Cancel
    <2>2. \A r \in reservations : /\ [r EXCEPT !.released = TRUE].released = TRUE
                                  /\ [r EXCEPT !.released = TRUE].window = r.window
        BY DEF TypeOK, Reservation
    <2>3. CASE v = w
        <3>1. windows'[v].status = "cancelled"
            BY <1>3, <2>3 DEF Cancel, TypeOK, WorkWindow
        <3>2. HeldBy(v)' = {}
            BY <2>1, <2>2, <2>3 DEF HeldBy, Active
        <3> QED
            BY <3>1, <3>2
    <2>4. CASE v # w
        <3>1. windows'[v] = windows[v]
            BY <1>3, <2>4 DEF Cancel, TypeOK
        <3>2. HeldBy(v)' = HeldBy(v)
            BY <2>1, <2>2, <2>4 DEF HeldBy, Active
        <3> QED
            BY <1>a, <3>1, <3>2
    <2> QED
        BY <2>3, <2>4
<1>4. CASE ClockAdvances \/ UNCHANGED vars
    BY <1>4, <1>a DEF ClockAdvances, vars, HeldBy, Active
<1> QED
    BY <1>1, <1>2, <1>3, <1>4 DEF Next

-----------------------------------------------------------------------------
\* Only an approval makes rows active, and it makes none that the trigger finds
\* in conflict; the order of the two rows does not matter.
LEMMA NoTextOverlapStep ==
    ASSUME TypeOK, NoTextOverlap, [Next]_vars
    PROVE  NoTextOverlap'
<1> DEFINE Clash(a, b) == TextLess(a.starts, b.ends) /\ TextLess(b.starts, a.ends)
<1>0. ASSUME NEW a \in Active, NEW b \in Active, a.window # b.window, a.resource = b.resource
      PROVE  ~Clash(a, b)
    <2> DEFINE p == << a, b >>
    <2>1. p \in Contenders
        BY <1>0 DEF Contenders
    <2>2. ~ /\ TextLess(p[1].starts, p[2].ends)
            /\ TextLess(p[2].starts, p[1].ends)
        BY <2>1 DEF NoTextOverlap
    <2> QED
        BY <2>2
<1>a. SUFFICES ASSUME NEW a \in Active', NEW b \in Active',
                      a.window # b.window, a.resource = b.resource
               PROVE  ~Clash(a, b)
    BY DEF NoTextOverlap, Contenders
<1>b. ASSUME Active' \subseteq Active
      PROVE  ~Clash(a, b)
    BY <1>b, <1>a, <1>0
<1> HIDE DEF Clash
<1>1. ASSUME NEW w \in Window, NEW role \in Role, NEW expected \in 1..LastVersion,
             NEW kind \in QualificationKind, Approve(w, expected, kind, role)
      PROVE  ~Clash(a, b)
    <2>1. \A r \in NewReservations(w) : ~r.released /\ r.window = w
        BY <1>1, NewRowsAreTyped DEF Approve
    <2>2. Active' = Active \cup NewReservations(w)
        BY <1>1, <2>1 DEF Approve, Active
    <2>3. ASSUME NEW new \in NewReservations(w), NEW current \in Active,
                 new.resource = current.resource
          PROVE  ~Clash(new, current) /\ ~Clash(current, new)
        BY <1>1, <2>3 DEF Approve, Active, Conflicts, Clash
    <2>4. CASE a \in Active /\ b \in Active
        BY <1>a, <1>0, <2>4
    <2>5. CASE a \in NewReservations(w) /\ b \in Active
        BY <1>a, <2>3, <2>5
    <2>6. CASE a \in Active /\ b \in NewReservations(w)
        BY <1>a, <2>3, <2>6
    <2>7. CASE a \in NewReservations(w) /\ b \in NewReservations(w)
        BY <1>a, <2>1, <2>7
    <2> QED
        BY <2>2, <2>4, <2>5, <2>6, <2>7
<1>2. ASSUME NEW w \in Window, NEW role \in Role, NEW expected \in 1..LastVersion,
             Cancel(w, expected, role)
      PROVE  ~Clash(a, b)
    <2>1. \A r \in reservations : [r EXCEPT !.released = TRUE].released = TRUE
        BY DEF TypeOK, Reservation
    <2>2. Active' \subseteq Active
        BY <1>2, <2>1 DEF Cancel, Active
    <2> QED
        BY <2>2, <1>b
<1>3. ASSUME NEW w \in Window, NEW role \in Role, NEW window \in Requestable,
             Request(w, window, role)
      PROVE  ~Clash(a, b)
    BY <1>3, <1>b DEF Request, Active
<1>4. CASE ClockAdvances \/ UNCHANGED vars
    BY <1>4, <1>b DEF ClockAdvances, vars, Active
<1> QED
    BY <1>1, <1>2, <1>3, <1>4 DEF Next

-----------------------------------------------------------------------------
\* The three parts of the invariant, established and kept together.
LEMMA WindowsInit ==
    ASSUME Init
    PROVE  WindowsInv
BY DEF Init, WindowsInv, TypeOK, ReservedHoldsItsResources, NoTextOverlap,
       Contenders, Active, NoWindow

\* The parts of WindowsInv together are inductive.
LEMMA WindowsInduction ==
    ASSUME WindowsInv, [Next]_vars
    PROVE  WindowsInv'
BY WindowsTypeStep, HoldsStep, NoTextOverlapStep DEF WindowsInv

\* ApproveAndReserveWindow and CancelWindow on their own table: a reserved window
\* holds its workstation, tool and person for its interval and no other does, and
\* two that hold one resource never overlap as their texts compare.
THEOREM WindowsInvariant == Spec => []WindowsInv
<1>1. Init => WindowsInv
    BY WindowsInit
<1>2. WindowsInv /\ [Next]_vars => WindowsInv'
    BY WindowsInduction
<1> QED
    BY <1>1, <1>2, PTL DEF Spec

\* The tables always hold rows of their types (TypeOK).
THEOREM WindowsTypeCorrect == Spec => []TypeOK
<1>1. WindowsInv => TypeOK
    BY DEF WindowsInv
<1> QED
    BY <1>1, WindowsInvariant, PTL

\* A window holds its three resources exactly while it is reserved.
THEOREM ReservationsFollowWindows == Spec => []ReservedHoldsItsResources
<1>1. WindowsInv => ReservedHoldsItsResources
    BY DEF WindowsInv
<1> QED
    BY <1>1, WindowsInvariant, PTL

-----------------------------------------------------------------------------
\* The bounds of active rows are instants.
LEMMA ActiveBoundsAreInstants ==
    ASSUME TypeOK, NEW r \in Active
    PROVE  r.starts \in Instant /\ r.ends \in Instant
BY DEF TypeOK, Active, Reservation

\* Between whole seconds the order of the texts is the order of time.
LEMMA TextOrderOfWholeSeconds ==
    ASSUME NEW a \in Instant, NEW b \in Instant, WholeSecond(a), WholeSecond(b)
    PROVE  Before(a, b) <=> TextLess(a, b)
BY DEF Instant, WholeSecond, Before, TextLess, FractionTextLess

\* Where the texts are not in order, the instants are out of order by less than
\* a second.
LEMMA TextOrderIsTimeWithinASecond ==
    ASSUME NEW a \in Instant, NEW b \in Instant, ~TextLess(a, b)
    PROVE  Before(b, OneSecondAfter(a))
BY DEF Instant, Before, TextLess, FractionTextLess, OneSecondAfter

\* No resource is double booked by windows on whole seconds.
THEOREM WholeSecondBookingsAreExclusive == Spec => []NoDoubleBookingOnWholeSeconds
<1>1. WindowsInv => NoDoubleBookingOnWholeSeconds
    <2> SUFFICES ASSUME WindowsInv, NEW p \in Contenders,
                        \A r \in {p[1], p[2]} : WholeSecond(r.starts) /\ WholeSecond(r.ends)
                 PROVE  ~Overlaps(p[1], p[2])
        BY DEF NoDoubleBookingOnWholeSeconds
    <2>1. p[1] \in Active /\ p[2] \in Active
        BY DEF Contenders
    <2>2. /\ p[1].starts \in Instant /\ p[1].ends \in Instant
          /\ p[2].starts \in Instant /\ p[2].ends \in Instant
        BY <2>1, ActiveBoundsAreInstants DEF WindowsInv
    <2>3. /\ Before(p[1].starts, p[2].ends) <=> TextLess(p[1].starts, p[2].ends)
          /\ Before(p[2].starts, p[1].ends) <=> TextLess(p[2].starts, p[1].ends)
        BY <2>2, TextOrderOfWholeSeconds
    <2> QED
        BY <2>3 DEF WindowsInv, NoTextOverlap, Overlaps
<1> QED
    BY <1>1, WindowsInvariant, PTL

\* Where a resource is double booked at all, it is for less than a second.
THEOREM DoubleBookingIsShort == Spec => []DoubleBookingIsBelowOneSecond
<1>1. WindowsInv => DoubleBookingIsBelowOneSecond
    <2> SUFFICES ASSUME WindowsInv, NEW p \in Contenders
                 PROVE  \/ Before(p[1].ends, OneSecondAfter(p[2].starts))
                        \/ Before(p[2].ends, OneSecondAfter(p[1].starts))
        BY DEF DoubleBookingIsBelowOneSecond
    <2>1. p[1] \in Active /\ p[2] \in Active
        BY DEF Contenders
    <2>2. /\ p[1].starts \in Instant /\ p[1].ends \in Instant
          /\ p[2].starts \in Instant /\ p[2].ends \in Instant
        BY <2>1, ActiveBoundsAreInstants DEF WindowsInv
    <2>3. ~TextLess(p[1].starts, p[2].ends) \/ ~TextLess(p[2].starts, p[1].ends)
        BY DEF WindowsInv, NoTextOverlap
    <2> QED
        BY <2>2, <2>3, TextOrderIsTimeWithinASecond
<1> QED
    BY <1>1, WindowsInvariant, PTL

-----------------------------------------------------------------------------
\* The components as their proofs know them.
CP == INSTANCE CellLifecycleProofs WITH busy <- Busy

MP == INSTANCE MaintenanceOrdersProofs WITH cellStatus <- [c \in Cell |-> cells[c].status]

\* What those proofs assume of the constants.
LEMMA CellsConstants == MaxVersion \in Nat /\ CalibrationWriter \in BOOLEAN /\ "user" \notin Job
    BY CellsAssumption

\* The constants of the orders are those their own module assumes.
LEMMA OrdersConstants ==
    /\ NoPart \notin Part
    /\ Stock \in [Part -> Nat]
    /\ MaxQuantity \in Nat /\ MaxOrderVersion \in Nat
    /\ MaintenanceQualified \subseteq Assignee
    BY OrdersAssumption

\* The operations of a cell are the ones that CellLifecycleProofs is about.
LEMMA CellTerms ==
    /\ CL!Init <=> CP!Init
    /\ CL!TypeOK <=> CP!TypeOK
    /\ CL!vars = CP!vars /\ CL!vars' = CP!vars'
    /\ \A c \in Cell : CL!Exists(c) <=> CP!Exists(c)
<1>1. CL!Init <=> CP!Init
    BY DEF CL!Init, CP!Init, CL!NoCell, CP!NoCell
<1>2. CL!TypeOK <=> CP!TypeOK
    BY DEF CL!TypeOK, CP!TypeOK, CL!RobotCell, CP!RobotCell, CL!CellStatus, CP!CellStatus,
           CL!NoCell, CP!NoCell, CL!Transition, CP!Transition, CL!Inspection, CP!Inspection,
           CL!InspectionKind, CP!InspectionKind
<1>3. CL!vars = CP!vars /\ CL!vars' = CP!vars'
    BY DEF CL!vars, CP!vars
<1>4. \A c \in Cell : CL!Exists(c) <=> CP!Exists(c)
    BY DEF CL!Exists, CP!Exists, CL!NoCell, CP!NoCell
<1> QED
    BY <1>1, <1>2, <1>3, <1>4

\* The steps of the cells are the same in the system's instance and in the proofs'.
LEMMA CellSteps == CL!Next <=> CP!Next
BY DEF CL!Next, CP!Next, CL!DependentsChange, CP!DependentsChange,
       CL!CreateCell, CP!CreateCell, CL!RecordInspection, CP!RecordInspection,
       CL!TransitionCell, CP!TransitionCell, CL!RetireCell, CP!RetireCell,
       CL!CompensateCalibration, CP!CompensateCalibration,
       CL!MaintenanceWrites, CP!MaintenanceWrites,
       CL!WriteCalibrationRef, CP!WriteCalibrationRef,
       CL!Exists, CP!Exists, CL!NoCell, CP!NoCell, CL!NewCell, CP!NewCell,
       CL!HasVersionLeft, CP!HasVersionLeft, CL!CanTransition, CP!CanTransition,
       CL!Accepted, CP!Accepted, CL!cellTransitions, CP!cellTransitions,
       CL!Moved, CP!Moved, CL!Log, CP!Log, CL!Verdict, CP!Verdict,
       CL!Concluded, CP!Concluded, CL!InspectorOf, CP!InspectorOf,
       CL!InspectionKind, CP!InspectionKind, CL!allowed, CP!allowed,
       CL!Role, CP!Role

\* The first state of the cells meets their inductive invariant.
LEMMA CellsInit ==
    ASSUME CL!Init
    PROVE  CP!IInv
BY CellTerms, CellsConstants, CP!InvariantInit, Zenon

\* A step of the cells preserves their inductive invariant.
LEMMA CellsInduction ==
    ASSUME CP!IInv, [CL!Next]_(CL!vars)
    PROVE  CP!IInv'
<1>1. [CP!Next]_(CP!vars)
    BY CellSteps, CellTerms
<1> QED
    BY <1>1, CellsConstants, CP!InvariantStep, Zenon

\* What the invariant of CellLifecycle says of the tables.
LEMMA CellsImply ==
    ASSUME CP!IInv
    PROVE  /\ CL!TypeOK
           /\ \A c \in Cell : /\ CL!Exists(c) => cells[c].version >= 1
                              /\ ~CL!Exists(c) => history[c] = << >>
<1>1. CP!TypeOK /\ CP!NoEvidenceBeforeCreation /\ CP!VersionsFromOne
    BY CellsConstants, CP!InvariantImplies, Zenon
<1> QED
    BY <1>1, CellTerms DEF CP!NoEvidenceBeforeCreation, CP!VersionsFromOne

\* The same of the orders.
LEMMA OrderTerms ==
    /\ MO!NoOrder = MP!NoOrder
    /\ MO!OrderRow = MP!OrderRow
    /\ MO!SparePart = MP!SparePart
    /\ MO!PartMovement = MP!PartMovement
    /\ MO!vars = MP!vars
BY DEF MO!NoOrder, MP!NoOrder, MO!OrderRow, MP!OrderRow, MO!Status, MP!Status,
       MO!SparePart, MP!SparePart, MO!PartMovement, MP!PartMovement, MO!vars, MP!vars

\* The steps of the orders are the same in the system's instance and in the proofs'.
LEMMA OrderSteps == MO!Next <=> MP!Next
BY DEF MO!Next, MP!Next, MO!Open, MP!Open, MO!Requestable, MP!Requestable,
       MO!Validate, MP!Validate, MO!NoOrder, MP!NoOrder, MO!Advance, MP!Advance,
       MO!CanTransition, MP!CanTransition, MO!transitions, MP!transitions,
       MO!StartWork, MP!StartWork, MO!FinishWork, MP!FinishWork,
       MO!UsesPart, MP!UsesPart, MO!Reserve, MP!Reserve, MO!CanReserve, MP!CanReserve,
       MO!Consume, MP!Consume, MO!CanConsume, MP!CanConsume, MO!Moved, MP!Moved,
       MO!Movement, MP!Movement, MO!SwitchCell, MP!SwitchCell,
       MO!CellMoves, MP!CellMoves, MO!Active, MP!Active,
       MO!cellTransitions, MP!cellTransitions, MO!CellStatus, MP!CellStatus,
       MO!Status, MP!Status, MO!Role, MP!Role

\* The system starts with no order, which meets the orders' invariant.
LEMMA OrdersInit ==
    ASSUME SystemInit
    PROVE  MP!AInv
<1>1. /\ orders = [o \in Order |-> MP!NoOrder] /\ movements = {}
      /\ parts = [p \in Part |-> [available |-> Stock[p], reserved |-> 0]]
    BY OrderTerms DEF SystemInit
<1> QED
    BY <1>1, OrdersConstants, MP!AccountsInit, Zenon

\* A step of the orders preserves their invariant.
LEMMA OrdersInduction ==
    ASSUME MP!AInv, MO!Next \/ UNCHANGED << orders, parts, movements >>
    PROVE  MP!AInv'
<1>1. MP!Next \/ UNCHANGED << orders, parts, movements >>
    BY OrderSteps
<1> QED
    BY <1>1, OrdersConstants, MP!AccountsInduction, Zenon

\* What the invariant of MaintenanceOrders says of the tables.
LEMMA OrdersImply ==
    ASSUME MP!AInv
    PROVE  /\ orders \in [Order -> MO!OrderRow \cup {MO!NoOrder}]
           /\ parts \in [Part -> MO!SparePart]
           /\ movements \subseteq MO!PartMovement
<1>1. MP!RowsTyped
    BY DEF MP!AInv, MP!IInv
<1> QED
    BY <1>1, OrderTerms DEF MP!RowsTyped

-----------------------------------------------------------------------------
\* How often an order was written at least, by its status: a caller's version,
\* counted from 1, never misses an order, and one that was started shows it.
OrderVersions ==
    \A o \in Order :
        /\ orders[o] # MO!NoOrder => orders[o].version >= 1
        /\ orders[o].status = "triaged" => orders[o].version >= 2
        /\ orders[o].status = "approved" => orders[o].version >= 3
        /\ orders[o].status \in { "executing", "verifying" } => orders[o].version >= 4

\* A window is written three times at most.
WindowVersions ==
    \A w \in Window :
        /\ windows[w].status \in { "none", "requested", "reserved", "cancelled" }
        /\ windows[w].status = "requested" => windows[w].version = 1
        /\ windows[w].status = "reserved" => windows[w].version = 2

\* The components' invariants, and what they need of each other.
SystemInv ==
    /\ CP!IInv /\ MP!AInv /\ WindowsInv
    /\ OrderVersions /\ WindowVersions
    /\ late \subseteq Order \cup Window
    /\ RetirementStrandsNothing
    /\ EveryMoveIsExplained

\* The rows the operations find.
LEMMA RowsFound ==
    ASSUME SystemInv
    PROVE  /\ CL!TypeOK
           /\ \A c \in Cell : CL!Exists(c) => /\ cells[c] \in CL!RobotCell
                                             /\ cells[c].version \in Nat
                                             /\ cells[c].version >= 1
           /\ \A c \in Cell : ~CL!Exists(c) => cells[c].status = "none" /\ history[c] = << >>
           /\ orders \in [Order -> MO!OrderRow \cup {MO!NoOrder}]
           /\ \A o \in Order : orders[o] # MO!NoOrder => /\ orders[o] \in MO!OrderRow
                                                        /\ orders[o].version \in Nat
                                                        /\ orders[o].version >= 1
                                                        /\ orders[o].cell \in Cell
           /\ \A o \in Order : ActiveOrder(o) <=> MO!Active(o)
<1>1. /\ CL!TypeOK
      /\ \A c \in Cell : /\ CL!Exists(c) => cells[c].version >= 1
                         /\ ~CL!Exists(c) => history[c] = << >>
    BY CellsImply DEF SystemInv
<1>2. ASSUME NEW c \in Cell, CL!Exists(c)
      PROVE  cells[c] \in CL!RobotCell /\ cells[c].version \in Nat
    BY <1>1, <1>2 DEF CL!TypeOK, CL!Exists, CL!RobotCell
<1>3. ASSUME NEW c \in Cell, ~CL!Exists(c)
      PROVE  cells[c].status = "none"
    BY <1>3 DEF CL!Exists, CL!NoCell
<1>4. orders \in [Order -> MO!OrderRow \cup {MO!NoOrder}]
    BY OrdersImply DEF SystemInv
<1>5. ASSUME NEW o \in Order, orders[o] # MO!NoOrder
      PROVE  /\ orders[o] \in MO!OrderRow /\ orders[o].version \in Nat
             /\ orders[o].version >= 1 /\ orders[o].cell \in Cell
             /\ orders[o].status # "none"
    BY <1>4, <1>5 DEF MO!OrderRow, MO!Status, SystemInv, OrderVersions
<1>6. ASSUME NEW o \in Order
      PROVE  ActiveOrder(o) <=> MO!Active(o)
    <2>1. orders[o] = MO!NoOrder => orders[o].status = "none"
        BY DEF MO!NoOrder
    <2> QED
        BY <1>5, <2>1 DEF ActiveOrder, MO!Active
<1> QED
    BY <1>1, <1>2, <1>3, <1>4, <1>5, <1>6

\* What advancing an order does to it, and to its cell.
LEMMA OrderAdvanced ==
    ASSUME SystemInv, NEW o \in Order, NEW next \in MO!Status, NEW role,
           AdvanceOrder(o, next, role)
    PROVE  /\ orders[o] \in MO!OrderRow /\ orders[o] # MO!NoOrder
           /\ << orders[o].status, next >> \in MO!transitions
           /\ orders'[o].status = next
           /\ orders'[o].version = orders[o].version + 1
           /\ orders'[o].cell = orders[o].cell
           /\ \A i \in Order \ {o} : orders'[i] = orders[i]
<1>1. /\ orders[o] # MO!NoOrder
      /\ << orders[o].status, next >> \in MO!transitions
      /\ orders' = [orders EXCEPT ![o].status = next, ![o].version = @ + 1]
    BY DEF AdvanceOrder, MO!Advance, MO!CanTransition
<1>2. orders[o] \in MO!OrderRow /\ DOMAIN orders = Order
    BY <1>1, RowsFound
<1>3. /\ orders'[o] = [orders[o] EXCEPT !.status = next, !.version = @ + 1]
      /\ \A i \in Order \ {o} : orders'[i] = orders[i]
    BY <1>1, <1>2, RowsFound
<1>4. /\ orders'[o].status = next /\ orders'[o].version = orders[o].version + 1
      /\ orders'[o].cell = orders[o].cell
    BY <1>2, <1>3 DEF MO!OrderRow
<1> QED
    BY <1>1, <1>2, <1>3, <1>4

Switched(c, from, to) ==
    /\ CL!Exists(c) /\ CL!HasVersionLeft(c)
    /\ cells[c].status = from
    /\ cells' = [cells EXCEPT ![c] = CL!Moved(c, to)]
    /\ cells'[c].status = to
    /\ \A d \in Cell \ {c} : cells'[d] = cells[d]

\* What an order's move does to the cell of its row: the start of the work and its
\* end switch the cell between production and maintenance.
LEMMA CellSwitched ==
    ASSUME SystemInv, NEW o \in Order, NEW next \in MO!Status, NEW role,
           AdvanceOrder(o, next, role)
    PROVE  LET c == orders[o].cell
           IN  /\ c \in Cell
               /\ \/ UNCHANGED cells
                  \/ next = "executing" /\ Switched(c, "production", "maintenance")
                  \/ next = "closed" /\ Switched(c, "maintenance", "production")
<1> DEFINE c == orders[o].cell
<1>1. c \in Cell
    BY OrderAdvanced, RowsFound
<1> HIDE DEF c
<1>2. \/ UNCHANGED cells
      \/ next = "executing" /\ OrderWritesCell(c, "production", "maintenance")
      \/ next = "closed" /\ OrderWritesCell(c, "maintenance", "production")
    BY DEF AdvanceOrder, c
<1>3. ASSUME NEW from \in { "production", "maintenance" },
             NEW to \in { "production", "maintenance" },
             OrderWritesCell(c, from, to), cells' # cells
      PROVE  Switched(c, from, to)
    <2>1. /\ cells[c].status = from /\ CL!HasVersionLeft(c)
          /\ cells' = [cells EXCEPT ![c] = CL!Moved(c, to)]
        BY <1>3 DEF OrderWritesCell
    <2>2. CL!Exists(c) /\ cells[c] \in CL!RobotCell
        BY <1>1, <2>1, RowsFound
    <2>3. DOMAIN cells = Cell
        BY RowsFound DEF CL!TypeOK
    <2>4. CL!Moved(c, to).status = to
        BY <2>2 DEF CL!Moved, CL!RobotCell
    <2> QED
        BY <1>1, <2>1, <2>2, <2>3, <2>4 DEF Switched
<1>4. \/ UNCHANGED cells
      \/ next = "executing" /\ Switched(c, "production", "maintenance")
      \/ next = "closed" /\ Switched(c, "maintenance", "production")
    BY <1>2, <1>3
<1> QED
    BY <1>1, <1>4 DEF c

-----------------------------------------------------------------------------
\* Every step of the system, seen from the windows.
LEMMA WindowsFollow ==
    ASSUME SystemInv, [SystemNext]_systemVars
    PROVE  [Next]_vars
<1>1. ASSUME NEW w \in Window, NEW window \in Requestable, NEW role \in Role,
             RequestWindow(w, window, role)
      PROVE  Next
    BY <1>1 DEF RequestWindow, Next
<1>2. ASSUME NEW w \in Window, NEW kind \in QualificationKind, NEW role \in Role,
             ApproveWindow(w, kind, role)
      PROVE  Next
    <2>1. Approve(w, windows[w].version, kind, role)
        BY <1>2 DEF ApproveWindow
    <2>2. windows[w].version \in 1..LastVersion
        BY <2>1 DEF Approve, CanTransition, transitions, SystemInv, WindowVersions, LastVersion
    <2> QED
        BY <2>1, <2>2 DEF Next
<1>3. ASSUME NEW w \in Window, NEW role \in Role, CancelWindow(w, role)
      PROVE  Next
    <2>1. Cancel(w, windows[w].version, role)
        BY <1>3 DEF CancelWindow
    <2>2. windows[w].status \in { "requested", "reserved" }
        BY <2>1 DEF Cancel, CanTransition, transitions, SystemInv, WindowVersions
    <2>3. windows[w].version \in 1..LastVersion
        BY <2>2 DEF SystemInv, WindowVersions, LastVersion
    <2> QED
        BY <2>1, <2>3 DEF Next
<1>4. TimePasses => Next
    BY DEF TimePasses, Next
<1>5. ASSUME NEW c \in Cell, NEW role \in Role, CellOperation(c, role)
      PROVE  UNCHANGED vars
    BY <1>5 DEF CellOperation
<1>6. ASSUME NEW o \in Order, NEW order, NEW role \in Role, OpenOrder(o, order, role)
      PROVE  UNCHANGED vars
    BY <1>6 DEF OpenOrder
<1>7. ASSUME NEW o \in Order, NEW next, NEW role \in Role, AdvanceOrder(o, next, role)
      PROVE  UNCHANGED vars
    BY <1>7 DEF AdvanceOrder
<1> QED
    BY <1>1, <1>2, <1>3, <1>4, <1>5, <1>6, <1>7 DEF SystemNext, systemVars

\* Seen from the cells: the rest of the system changes what a retirement finds,
\* and switches a cell with its order.
LEMMA CellsFollow ==
    ASSUME SystemInv, [SystemNext]_systemVars
    PROVE  [CL!Next]_(CL!vars)
<1>0. Busy' \in SUBSET Cell
    BY DEF Busy
<1>1. UNCHANGED cellVars => CL!DependentsChange
    BY <1>0 DEF cellVars, CL!DependentsChange
<1>2. ASSUME NEW c \in Cell, NEW role \in Role, CellOperation(c, role)
      PROVE  CL!Next
    <2>0. CL!Role = Role
        BY DEF CL!Role, Role
    <2>1. CL!Exists(c) /\ CL!HasVersionLeft(c) => cells[c].version \in 1..MaxVersion
        BY RowsFound, CellsConstants DEF CL!HasVersionLeft
    <2>2. ASSUME NEW next \in DOMAIN CL!allowed, CL!Exists(c),
                 CL!TransitionCell(c, cells[c].version, next, role)
          PROVE  CL!Next
        BY <2>0, <2>1, <2>2 DEF CL!TransitionCell, CL!Next
    <2>3. ASSUME CL!Exists(c), CL!RetireCell(c, cells[c].version, role)
          PROVE  CL!Next
        BY <2>0, <2>1, <2>3 DEF CL!RetireCell, CL!Next
    <2>4. \/ CL!CreateCell(c, role)
          \/ \E kind \in CL!InspectionKind, passed \in BOOLEAN :
                 CL!RecordInspection(c, kind, passed, role)
          \/ \E job \in Job : CL!CompensateCalibration(c, job)
          \/ CL!WriteCalibrationRef(c)
          => CL!Next
        BY <2>0 DEF CL!Next
    <2> QED
        BY <1>2, <2>2, <2>3, <2>4 DEF CellOperation
<1>3. ASSUME NEW o \in Order, NEW next \in MO!Status, NEW role \in Role,
             AdvanceOrder(o, next, role)
      PROVE  CL!Next
    <2> DEFINE c == orders[o].cell
    <2>1. UNCHANGED << history, inspections >>
        BY <1>3 DEF AdvanceOrder
    <2>2. ASSUME NEW from, NEW to, Switched(c, from, to)
          PROVE  CL!MaintenanceWrites(c, from, to)
        BY <1>0, <2>1, <2>2 DEF Switched, CL!MaintenanceWrites
    <2>3. UNCHANGED cells => CL!DependentsChange
        BY <1>1, <2>1 DEF cellVars
    <2>4. c \in Cell
        BY <1>3, CellSwitched
    <2> HIDE DEF c
    <2>5. \/ CL!DependentsChange
          \/ CL!MaintenanceWrites(c, "production", "maintenance")
          \/ CL!MaintenanceWrites(c, "maintenance", "production")
        BY <1>3, <2>2, <2>3, CellSwitched DEF c
    <2> QED
        BY <2>4, <2>5 DEF CL!Next
<1>4. ASSUME NEW o \in Order, NEW order, NEW role \in Role, OpenOrder(o, order, role)
      PROVE  UNCHANGED cellVars
    BY <1>4 DEF OpenOrder
<1>5. ASSUME NEW w \in Window, NEW role \in Role,
             \/ \E window \in Requestable : RequestWindow(w, window, role)
             \/ \E kind \in QualificationKind : ApproveWindow(w, kind, role)
             \/ CancelWindow(w, role)
      PROVE  UNCHANGED cellVars
    BY <1>5 DEF RequestWindow, ApproveWindow, CancelWindow
<1>6. TimePasses \/ UNCHANGED systemVars => UNCHANGED cellVars
    BY DEF TimePasses, systemVars
<1> QED
    BY <1>1, <1>2, <1>3, <1>4, <1>5, <1>6 DEF SystemNext, CL!Next

\* Seen from the orders: opening and advancing one are operations of
\* MaintenanceOrders, and the others leave its tables alone.
LEMMA OrderOperated ==
    ASSUME SystemInv, NEW o \in Order, NEW role \in Role,
           \/ \E order \in MO!Requestable : OpenOrder(o, order, role)
           \/ \E next \in MO!Status : AdvanceOrder(o, next, role)
    PROVE  MO!Next
<1>0. MO!Role = Role
    BY DEF MO!Role, Role
<1>1. ASSUME NEW next \in MO!Status, AdvanceOrder(o, next, role)
      PROVE  MO!Next
    <2>1. MO!Advance(o, orders[o].version, next, role)
        BY <1>1 DEF AdvanceOrder
    <2>2. orders[o].version \in 1..MaxOrderVersion
        BY <2>1, RowsFound, OrdersConstants DEF MO!Advance
    <2> QED
        BY <1>0, <2>1, <2>2 DEF MO!Next
<1> QED
    BY <1>0, <1>1 DEF OpenOrder, MO!Next

\* What a step of the system does to orders and parts is a step of MaintenanceOrders.
LEMMA OrderRowsFollow ==
    ASSUME SystemInv, [SystemNext]_systemVars
    PROVE  MO!Next \/ UNCHANGED << orders, parts, movements >>
<1>1. ASSUME NEW c \in Cell, NEW role \in Role, CellOperation(c, role)
      PROVE  UNCHANGED << orders, parts, movements >>
    BY <1>1 DEF CellOperation, orderVars
<1>2. ASSUME NEW w \in Window, NEW role \in Role,
             \/ \E window \in Requestable : RequestWindow(w, window, role)
             \/ \E kind \in QualificationKind : ApproveWindow(w, kind, role)
             \/ CancelWindow(w, role)
      PROVE  UNCHANGED << orders, parts, movements >>
    BY <1>2 DEF RequestWindow, ApproveWindow, CancelWindow, orderVars
<1>3. TimePasses \/ UNCHANGED systemVars => UNCHANGED << orders, parts, movements >>
    BY DEF TimePasses, systemVars, orderVars
<1> QED
    BY <1>1, <1>2, <1>3, OrderOperated DEF SystemNext

\* What an operation of a cell does to the columns the other tables depend on.
StatusKept(c) ==
    /\ \A d \in Cell : cells'[d].status = cells[d].status
    /\ history' = history
    /\ \A d \in Cell : CL!Exists(d)' <=> CL!Exists(d)

StatusMoved(c, next) ==
    /\ CL!Exists(c) /\ CL!Exists(c)'
    /\ << cells[c].status, next >> \in CL!cellTransitions
    /\ next = "retired" => c \notin Busy
    /\ cells'[c].status = next
    /\ \A d \in Cell \ {c} : cells'[d] = cells[d]
    /\ history' = [history EXCEPT ![c] = Append(@, history'[c][Len(history[c]) + 1])]
    /\ history'[c][Len(history[c]) + 1].to = next

CellCreated(c) ==
    /\ ~CL!Exists(c) /\ CL!Exists(c)'
    /\ cells'[c].status = "surveyed"
    /\ \A d \in Cell \ {c} : cells'[d] = cells[d]
    /\ history' = history

\* What an operation of the cell's own handlers does to its status.
LEMMA CellOperated ==
    ASSUME SystemInv, NEW c \in Cell, NEW role, CellOperation(c, role)
    PROVE  \/ StatusKept(c)
           \/ \E next \in CL!CellStatus : StatusMoved(c, next)
           \/ CellCreated(c)
<1>0. /\ DOMAIN cells = Cell /\ DOMAIN history = Cell
      /\ history[c] \in Seq(CL!Transition)
      /\ CL!Exists(c) => cells[c] \in CL!RobotCell
    BY RowsFound DEF CL!TypeOK
<1>1. CASE CL!CreateCell(c, role)
    BY <1>0, <1>1 DEF CL!CreateCell, CellCreated, CL!Exists, CL!NewCell, CL!NoCell
<1>2. ASSUME NEW kind \in CL!InspectionKind, NEW passed \in BOOLEAN,
             CL!RecordInspection(c, kind, passed, role)
      PROVE  StatusKept(c)
    <2> DEFINE v == CL!Verdict(cells[c], kind, passed)
    <2>1. /\ CL!Exists(c) /\ history' = history
          /\ cells' = [cells EXCEPT ![c] = [v EXCEPT !.version = v.version + 1]]
        BY <1>2 DEF CL!RecordInspection, CL!Concluded
    <2>2. v \in CL!RobotCell /\ v.status = cells[c].status
        <3>1. cells[c] \in CL!RobotCell
            BY <1>0, <2>1
        <3>2. CASE kind = "quality"
            BY <3>1, <3>2 DEF CL!Verdict, CL!RobotCell
        <3>3. CASE kind = "safety"
            BY <3>1, <3>3 DEF CL!Verdict, CL!RobotCell
        <3> QED
            BY <3>2, <3>3 DEF CL!InspectionKind
    <2> HIDE DEF v
    <2>3. cells'[c].status = cells[c].status
        BY <1>0, <2>1, <2>2 DEF CL!RobotCell
    <2>4. cells'[c] # CL!NoCell
        BY <2>1, <2>3, <1>0 DEF CL!Exists, CL!NoCell, CL!RobotCell, CL!CellStatus
    <2> QED
        BY <1>0, <2>1, <2>3, <2>4 DEF StatusKept, CL!Exists
<1>3. CASE CL!WriteCalibrationRef(c)
    <2>1. /\ CL!Exists(c) /\ history' = history
          /\ cells' = [cells EXCEPT ![c].calibrated = TRUE]
        BY <1>3 DEF CL!WriteCalibrationRef
    <2>2. cells'[c].status = cells[c].status
        BY <1>0, <2>1 DEF CL!RobotCell
    <2>3. cells'[c] # CL!NoCell
        BY <2>1, <2>2, <1>0 DEF CL!Exists, CL!NoCell, CL!RobotCell, CL!CellStatus
    <2> QED
        BY <1>0, <2>1, <2>2, <2>3 DEF StatusKept, CL!Exists
<1>4. ASSUME NEW next \in CL!CellStatus, NEW request, NEW row,
             CL!Exists(c), << cells[c].status, next >> \in CL!cellTransitions,
             next = "retired" => c \notin Busy,
             row.status = next, cells' = [cells EXCEPT ![c] = row],
             CL!Log(c, next, request)
      PROVE  StatusMoved(c, next)
    <2>1. /\ cells'[c] = row /\ \A d \in Cell \ {c} : cells'[d] = cells[d]
        BY <1>0, <1>4
    <2>2. CL!Exists(c)'
        BY <1>4, <2>1 DEF CL!Exists, CL!NoCell, CL!CellStatus
    <2> DEFINE entry == [from |-> cells[c].status, to |-> next, request |-> request,
                         at |-> cells[c].version + 1]
    <2>3. history' = [history EXCEPT ![c] = Append(@, entry)] /\ entry.to = next
        BY <1>4 DEF CL!Log
    <2> HIDE DEF entry
    <2>4. history'[c] = Append(history[c], entry)
        BY <1>0, <2>3
    <2>5. history'[c][Len(history[c]) + 1] = entry
        BY <1>0, <2>4
    <2> QED
        BY <1>4, <2>1, <2>2, <2>3, <2>5 DEF StatusMoved
<1>5. ASSUME NEW next \in CL!CellStatus, CL!Exists(c)
      PROVE  CL!Moved(c, next) \in CL!RobotCell /\ CL!Moved(c, next).status = next
    <2>1. cells[c].version + 1 \in Nat
        BY <1>0, <1>5 DEF CL!RobotCell
    <2> QED
        BY <1>0, <1>5, <2>1 DEF CL!Moved, CL!RobotCell
<1>6. ASSUME NEW next \in DOMAIN CL!allowed, CL!Exists(c),
             CL!TransitionCell(c, cells[c].version, next, role)
      PROVE  \E to \in CL!CellStatus : StatusMoved(c, to)
    <2>1. next \in CL!CellStatus /\ next # "retired"
        BY DEF CL!allowed, CL!CellStatus
    <2> QED
        BY <1>4, <1>5, <1>6, <2>1 DEF CL!TransitionCell, CL!CanTransition
<1>7. ASSUME CL!Exists(c), CL!RetireCell(c, cells[c].version, role)
      PROVE  \E to \in CL!CellStatus : StatusMoved(c, to)
    <2>1. "retired" \in CL!CellStatus
        BY DEF CL!CellStatus
    <2> QED
        BY <1>4, <1>5, <1>7, <2>1 DEF CL!RetireCell, CL!CanTransition
<1>8. ASSUME NEW job \in Job, CL!CompensateCalibration(c, job)
      PROVE  \E to \in CL!CellStatus : StatusMoved(c, to)
    <2>1. CL!Exists(c) /\ << cells[c].status, "installing" >> \in CL!cellTransitions
          /\ "installing" \in CL!CellStatus
        BY <1>8 DEF CL!CompensateCalibration, CL!cellTransitions, CL!CellStatus
    <2> DEFINE m == CL!Moved(c, "installing")
    <2>2. m \in CL!RobotCell /\ m.status = "installing"
        BY <1>5, <2>1
    <2>3. cells' = [cells EXCEPT ![c] = [m EXCEPT !.calibrated = FALSE]]
          /\ CL!Log(c, "installing", job)
        BY <1>8 DEF CL!CompensateCalibration
    <2> HIDE DEF m
    <2>4. [m EXCEPT !.calibrated = FALSE].status = "installing"
        BY <2>2 DEF CL!RobotCell
    <2> QED
        BY <1>4, <2>1, <2>3, <2>4
<1> QED
    BY <1>1, <1>2, <1>3, <1>6, <1>7, <1>8 DEF CellOperation

\* No operation of a cell does to its orders what MaintenanceOrders leaves out.
LEMMA OrdersFollow ==
    ASSUME SystemInv, [SystemNext]_systemVars
    PROVE  [MO!Next \/ \E c \in Cell : ~CL!Exists(c) /\ CL!Exists(c)']_(MO!vars)
<1>1. UNCHANGED << orderVars, cells >> => UNCHANGED MO!vars
    BY DEF orderVars, MO!vars
<1>2. ASSUME NEW c \in Cell, NEW role \in Role, CellOperation(c, role)
      PROVE  [MO!Next \/ \E d \in Cell : ~CL!Exists(d) /\ CL!Exists(d)']_(MO!vars)
    <2>0. UNCHANGED << orders, parts, movements >>
        BY <1>2 DEF CellOperation, orderVars
    <2>1. CASE StatusKept(c)
        <3>1. [d \in Cell |-> cells[d].status]' = [d \in Cell |-> cells[d].status]
            BY <2>1 DEF StatusKept
        <3> QED
            BY <2>0, <3>1 DEF MO!vars
    <2>2. ASSUME NEW next \in CL!CellStatus, StatusMoved(c, next)
          PROVE  MO!CellMoves(c, next)
        <3> DEFINE status == [d \in Cell |-> cells[d].status]
        <3>1. status' = [status EXCEPT ![c] = next]
            BY <2>2 DEF StatusMoved
        <3>2. << status[c], next >> \in MO!cellTransitions
            BY <2>2 DEF StatusMoved, CL!cellTransitions, MO!cellTransitions
        <3>3. next = "retired" => \A o \in Order : MO!Active(o) => orders[o].cell # c
            BY <2>2, RowsFound DEF StatusMoved, Busy, OrdersOn
        <3> QED
            BY <2>0, <3>1, <3>2, <3>3 DEF MO!CellMoves
    <2>3. ASSUME NEW next \in CL!CellStatus, StatusMoved(c, next)
          PROVE  MO!Next
        <3>1. next \in MO!CellStatus
            BY DEF CL!CellStatus, MO!CellStatus
        <3> QED
            BY <2>2, <2>3, <3>1 DEF MO!Next
    <2>4. CASE CellCreated(c)
        BY <2>4 DEF CellCreated
    <2> QED
        BY <1>2, <2>1, <2>3, <2>4, CellOperated
<1>3. ASSUME NEW o \in Order, NEW role \in Role,
             \/ \E order \in MO!Requestable : OpenOrder(o, order, role)
             \/ \E next \in MO!Status : AdvanceOrder(o, next, role)
      PROVE  MO!Next
    BY <1>3, OrderOperated
<1>4. ASSUME NEW w \in Window, NEW role \in Role,
             \/ \E window \in Requestable : RequestWindow(w, window, role)
             \/ \E kind \in QualificationKind : ApproveWindow(w, kind, role)
             \/ CancelWindow(w, role)
      PROVE  UNCHANGED << orderVars, cells >>
    BY <1>4 DEF RequestWindow, ApproveWindow, CancelWindow, cellVars
<1>5. TimePasses \/ UNCHANGED systemVars => UNCHANGED << orderVars, cells >>
    BY DEF TimePasses, systemVars, cellVars
<1> QED
    BY <1>1, <1>2, <1>3, <1>4, <1>5 DEF SystemNext

-----------------------------------------------------------------------------
\* Every move of an order adds one to its version.
LEMMA OrderVersionsStep ==
    ASSUME SystemInv, [SystemNext]_systemVars
    PROVE  OrderVersions'
<1>0. OrderVersions
    BY DEF SystemInv
<1>1. ASSUME NEW o \in Order, NEW role \in Role, NEW order \in MO!Requestable,
             OpenOrder(o, order, role)
      PROVE  OrderVersions'
    <2>1. /\ orders'[o].status = "opened" /\ orders'[o].version = 1
          /\ \A i \in Order \ {o} : orders'[i] = orders[i]
        BY <1>1, RowsFound DEF OpenOrder, MO!Open, MO!Requestable
    <2> QED
        BY <1>0, <2>1 DEF OrderVersions
<1>2. ASSUME NEW o \in Order, NEW role \in Role, NEW next \in MO!Status,
             AdvanceOrder(o, next, role)
      PROVE  OrderVersions'
    <2> DEFINE old == orders[o].status
               v == orders[o].version
    <2>1. /\ orders'[o].status = next /\ orders'[o].version = v + 1
          /\ << old, next >> \in MO!transitions
          /\ \A i \in Order \ {o} : orders'[i] = orders[i]
          /\ v \in Nat /\ v >= 1
        BY <1>2, OrderAdvanced, RowsFound
    <2>2. /\ old = "triaged" => v >= 2
          /\ old = "approved" => v >= 3
          /\ old \in { "executing", "verifying" } => v >= 4
        BY <1>0 DEF OrderVersions
    <2> HIDE DEF old, v
    <2>3. /\ orders'[o].version >= 1
          /\ next = "triaged" => orders'[o].version >= 2
          /\ next = "approved" => orders'[o].version >= 3
          /\ next \in { "executing", "verifying" } => orders'[o].version >= 4
        BY <2>1, <2>2 DEF MO!transitions
    <2> QED
        BY <1>0, <2>1, <2>3 DEF OrderVersions
<1>3. CASE UNCHANGED orders
    BY <1>0, <1>3 DEF OrderVersions
<1>4. ASSUME NEW c \in Cell, NEW role \in Role, CellOperation(c, role)
      PROVE  UNCHANGED orders
    BY <1>4 DEF CellOperation, orderVars
<1>5. ASSUME NEW w \in Window, NEW role \in Role,
             \/ \E window \in Requestable : RequestWindow(w, window, role)
             \/ \E kind \in QualificationKind : ApproveWindow(w, kind, role)
             \/ CancelWindow(w, role)
      PROVE  UNCHANGED orders
    BY <1>5 DEF RequestWindow, ApproveWindow, CancelWindow, orderVars
<1>6. TimePasses \/ UNCHANGED systemVars => UNCHANGED orders
    BY DEF TimePasses, systemVars, orderVars
<1> QED
    BY <1>1, <1>2, <1>3, <1>4, <1>5, <1>6 DEF SystemNext

\* Only the windows' own operations count here.
LEMMA WindowVersionsStep ==
    ASSUME SystemInv, [Next]_vars
    PROVE  WindowVersions'
<1>0. WindowVersions /\ windows \in [Window -> WorkWindow \cup {NoWindow}]
    BY DEF SystemInv, WindowsInv, TypeOK
<1>1. ASSUME NEW w \in Window, NEW role \in Role, NEW window \in Requestable,
             Request(w, window, role)
      PROVE  WindowVersions'
    BY <1>0, <1>1 DEF WindowVersions, Request, Requestable
<1>2. ASSUME NEW w \in Window, NEW status \in { "reserved", "cancelled" },
             windows[w] # NoWindow,
             status = "reserved" => windows[w].status = "requested",
             windows' = [windows EXCEPT ![w].status = status, ![w].version = @ + 1]
      PROVE  WindowVersions'
    <2>1. windows[w] \in WorkWindow
        BY <1>0, <1>2
    <2>2. windows'[w].status = status /\ windows'[w].version = windows[w].version + 1
        BY <1>0, <1>2, <2>1 DEF WorkWindow
    <2>3. \A v \in Window \ {w} : windows'[v] = windows[v]
        BY <1>0, <1>2
    <2> QED
        BY <1>0, <1>2, <2>2, <2>3 DEF WindowVersions
<1>3. ASSUME NEW w \in Window, NEW role \in Role, NEW expected \in 1..LastVersion,
             \/ \E kind \in QualificationKind : Approve(w, expected, kind, role)
             \/ Cancel(w, expected, role)
      PROVE  WindowVersions'
    BY <1>2, <1>3 DEF Approve, Cancel, CanTransition, transitions
<1>4. CASE ClockAdvances \/ UNCHANGED vars
    BY <1>0, <1>4 DEF ClockAdvances, vars, WindowVersions
<1> QED
    BY <1>1, <1>3, <1>4 DEF Next

\* What is noted of a cell that is retired already, and of no other.
LEMMA NotesStep ==
    ASSUME SystemInv, [SystemNext]_systemVars
    PROVE  /\ late' \subseteq Order \cup Window
           /\ late \subseteq late'
<1>1. ASSUME NEW id \in Order \cup Window, NEW c, Notes(id, c)
      PROVE  late' \subseteq Order \cup Window /\ late \subseteq late'
    BY <1>1 DEF Notes, SystemInv
<1>2. CASE UNCHANGED late
    BY <1>2 DEF SystemInv
<1>3. ASSUME NEW o \in Order, NEW role \in Role,
             \/ \E order \in MO!Requestable : OpenOrder(o, order, role)
             \/ \E next \in MO!Status : AdvanceOrder(o, next, role)
      PROVE  UNCHANGED late \/ \E c : Notes(o, c)
    BY <1>3 DEF OpenOrder, AdvanceOrder
<1>4. ASSUME NEW w \in Window, NEW role \in Role,
             \/ \E window \in Requestable : RequestWindow(w, window, role)
             \/ \E kind \in QualificationKind : ApproveWindow(w, kind, role)
             \/ CancelWindow(w, role)
      PROVE  UNCHANGED late \/ \E c : Notes(w, c)
    BY <1>4 DEF RequestWindow, ApproveWindow, CancelWindow
<1>5. ASSUME NEW c \in Cell, NEW role \in Role, CellOperation(c, role)
      PROVE  UNCHANGED late
    BY <1>5 DEF CellOperation
<1>6. TimePasses \/ UNCHANGED systemVars => UNCHANGED late
    BY DEF TimePasses, systemVars
<1> QED
    BY <1>1, <1>2, <1>3, <1>4, <1>5, <1>6 DEF SystemNext

\* A cell's dependents: who is in the way of its retirement.
Dependents(c) == OrdersOn(c) \cup { r.window : r \in ReservedOn(c) }

\* A cell is retired by RetireCell alone, which finds no dependents, and a cell
\* that is retired gets new ones by operations that note them.
LEMMA StrandsStep ==
    ASSUME SystemInv, [SystemNext]_systemVars
    PROVE  RetirementStrandsNothing'
<1>0. /\ \A c \in Cell : cells[c].status = "retired" => Dependents(c) \subseteq late
      /\ late \subseteq late'
      /\ windows \in [Window -> WorkWindow \cup {NoWindow}]
    BY NotesStep DEF SystemInv, RetirementStrandsNothing, Dependents, WindowsInv, TypeOK
<1> SUFFICES ASSUME NEW c \in Cell, cells'[c].status = "retired"
             PROVE  Dependents(c)' \subseteq late'
    BY DEF RetirementStrandsNothing, Dependents
<1>a. ASSUME cells[c].status = "retired", Dependents(c)' \subseteq Dependents(c)
      PROVE  Dependents(c)' \subseteq late'
    BY <1>0, <1>a
<1>b. UNCHANGED << orders, windows, reservations >> => Dependents(c)' = Dependents(c)
    BY DEF Dependents, OrdersOn, ReservedOn, ActiveOrder
<1>1. ASSUME NEW d \in Cell, NEW role \in Role, CellOperation(d, role)
      PROVE  Dependents(c)' \subseteq late'
    <2>1. UNCHANGED << orders, windows, reservations >>
        BY <1>1 DEF CellOperation, orderVars, vars
    <2>2. CASE cells[c].status = "retired"
        BY <1>a, <1>b, <2>1, <2>2
    <2>3. CASE cells[c].status # "retired"
        <3>1. c \notin Busy
            <4>1. CASE StatusKept(d)
                BY <2>3, <4>1 DEF StatusKept
            <4>2. ASSUME NEW next \in CL!CellStatus, StatusMoved(d, next)
                  PROVE  c \notin Busy
                BY <2>3, <4>2 DEF StatusMoved
            <4>3. CASE CellCreated(d)
                BY <2>3, <4>3 DEF CellCreated
            <4> QED
                BY <1>1, <4>1, <4>2, <4>3, CellOperated
        <3>2. Dependents(c) = {}
            BY <3>1 DEF Busy, Dependents
        <3> QED
            BY <1>b, <2>1, <3>2
    <2> QED
        BY <2>2, <2>3
<1>2. ASSUME NEW o \in Order, NEW role \in Role, NEW next \in MO!Status,
             AdvanceOrder(o, next, role)
      PROVE  Dependents(c)' \subseteq late'
    <2>1. cells[c].status = "retired"
        <3>1. CASE UNCHANGED cells
            BY <3>1
        <3>2. ASSUME NEW d \in Cell, NEW from, NEW to \in { "production", "maintenance" },
                     Switched(d, from, to)
              PROVE  cells[c].status = "retired"
            BY <3>2 DEF Switched
        <3> QED
            BY <1>2, <3>1, <3>2, CellSwitched
    <2>2. /\ ActiveOrder(o) /\ orders'[o].cell = orders[o].cell
          /\ \A i \in Order \ {o} : orders'[i] = orders[i]
          /\ UNCHANGED << windows, reservations >>
        BY <1>2, OrderAdvanced DEF AdvanceOrder, vars
    <2>3. OrdersOn(c)' \subseteq OrdersOn(c) /\ ReservedOn(c)' = ReservedOn(c)
        BY <2>2 DEF OrdersOn, ActiveOrder, ReservedOn
    <2>4. Dependents(c)' \subseteq Dependents(c)
        BY <2>3 DEF Dependents
    <2> QED
        BY <1>a, <2>1, <2>4
<1>3. ASSUME NEW o \in Order, NEW role \in Role, NEW order \in MO!Requestable,
             OpenOrder(o, order, role)
      PROVE  Dependents(c)' \subseteq late'
    <2>1. /\ cells' = cells /\ UNCHANGED << windows, reservations >>
          /\ orders'[o].cell = order.cell /\ Notes(o, order.cell)
          /\ \A i \in Order \ {o} : orders'[i] = orders[i]
        BY <1>3, RowsFound DEF OpenOrder, MO!Open, cellVars, vars
    <2>2. OrdersOn(c)' \subseteq OrdersOn(c) \cup { i \in {o} : order.cell = c }
        BY <2>1 DEF OrdersOn, ActiveOrder
    <2>3. ReservedOn(c)' = ReservedOn(c)
        BY <2>1 DEF ReservedOn
    <2>4. order.cell = c => o \in late'
        BY <2>1 DEF Notes
    <2>5. Dependents(c) \subseteq late'
        BY <1>0, <2>1
    <2> QED
        BY <2>2, <2>3, <2>4, <2>5 DEF Dependents
<1>4. ASSUME NEW w \in Window, NEW role \in Role, NEW window \in Requestable,
             RequestWindow(w, window, role)
      PROVE  Dependents(c)' \subseteq late'
    <2>1. /\ cells' = cells /\ orders' = orders /\ reservations' = reservations
          /\ windows[w] = NoWindow
          /\ \A v \in Window \ {w} : windows'[v] = windows[v]
        BY <1>0, <1>4 DEF RequestWindow, Request, cellVars, orderVars
    <2>2. \A r \in reservations : ~r.released => r.window \in Window \ {w}
        <3>1. { r \in Active : r.window = w } = {}
            BY <2>1 DEF SystemInv, WindowsInv, ReservedHoldsItsResources, NoWindow
        <3> QED
            BY <3>1 DEF Active, SystemInv, WindowsInv, TypeOK, Reservation
    <2>3. OrdersOn(c)' = OrdersOn(c) /\ ReservedOn(c)' = ReservedOn(c)
        BY <2>1, <2>2 DEF OrdersOn, ActiveOrder, ReservedOn
    <2> QED
        BY <1>a, <2>1, <2>3 DEF Dependents
<1>5. ASSUME NEW w \in Window, NEW role \in Role, NEW kind \in QualificationKind,
             ApproveWindow(w, kind, role)
      PROVE  Dependents(c)' \subseteq late'
    <2>1. /\ cells' = cells /\ orders' = orders
          /\ reservations' = reservations \cup NewReservations(w)
          /\ windows' = [windows EXCEPT ![w].status = "reserved", ![w].version = @ + 1]
          /\ windows[w] \in WorkWindow /\ Notes(w, windows[w].cell)
          /\ \A r \in NewReservations(w) : r.window = w
        BY <1>0, <1>5, NewRowsAreTyped
           DEF ApproveWindow, Approve, cellVars, orderVars, SystemInv, WindowsInv
    <2>2. \A v \in Window : windows'[v].cell = windows[v].cell
        BY <1>0, <2>1 DEF WorkWindow
    <2>3. \A r \in reservations : r.window \in Window
        BY DEF SystemInv, WindowsInv, TypeOK, Reservation
    <2>4. OrdersOn(c)' = OrdersOn(c)
        BY <2>1 DEF OrdersOn, ActiveOrder
    <2>5. ReservedOn(c)' \subseteq ReservedOn(c) \cup { r \in NewReservations(w) : windows[w].cell = c }
        BY <2>1, <2>2, <2>3 DEF ReservedOn
    <2>6. windows[w].cell = c => w \in late'
        BY <2>1 DEF Notes
    <2>7. Dependents(c) \subseteq late'
        BY <1>0, <2>1
    <2> QED
        BY <2>1, <2>4, <2>5, <2>6, <2>7 DEF Dependents
<1>6. ASSUME NEW w \in Window, NEW role \in Role, CancelWindow(w, role)
      PROVE  Dependents(c)' \subseteq late'
    <2>1. /\ cells' = cells /\ orders' = orders
          /\ reservations' = { IF r.window = w THEN [r EXCEPT !.released = TRUE] ELSE r
                                 : r \in reservations }
          /\ windows' = [windows EXCEPT ![w].status = "cancelled", ![w].version = @ + 1]
          /\ windows[w] \in WorkWindow
        BY <1>0, <1>6 DEF CancelWindow, Cancel, cellVars, orderVars
    <2>2. \A v \in Window : windows'[v].cell = windows[v].cell
        BY <1>0, <2>1 DEF WorkWindow
    <2>3. \A r \in reservations : /\ r.window \in Window
                                  /\ [r EXCEPT !.released = TRUE].released = TRUE
        BY DEF SystemInv, WindowsInv, TypeOK, Reservation
    <2>4. OrdersOn(c)' = OrdersOn(c)
        BY <2>1 DEF OrdersOn, ActiveOrder
    <2>5. ReservedOn(c)' \subseteq ReservedOn(c)
        BY <2>1, <2>2, <2>3 DEF ReservedOn
    <2> QED
        BY <1>a, <2>1, <2>4, <2>5 DEF Dependents
<1>7. CASE TimePasses \/ UNCHANGED systemVars
    <2>1. cells' = cells /\ UNCHANGED << orders, windows, reservations >>
        BY <1>7 DEF TimePasses, ClockAdvances, systemVars, cellVars, orderVars, vars
    <2> QED
        BY <1>a, <1>b, <2>1
<1> QED
    BY <1>1, <1>2, <1>3, <1>4, <1>5, <1>6, <1>7 DEF SystemNext

\* The order that explains the status of a cell.
Explains(o, c) ==
    /\ Started(o) /\ orders[o].cell = c
    /\ cells[c].status = "production" => orders[o].status = "closed"

\* An order that was started stays so: it is advanced, sent back or cancelled
\* from a version that says it was.
LEMMA StartedStaysStarted ==
    ASSUME SystemInv, NEW o \in Order, NEW next \in MO!Status, NEW role,
           AdvanceOrder(o, next, role), Started(o)
    PROVE  /\ orders[o].status \in { "executing", "verifying" }
           /\ Started(o)'
<1>1. /\ orders[o].status \notin { "none", "closed", "cancelled" }
      /\ << orders[o].status, next >> \in MO!transitions
      /\ orders'[o].status = next /\ orders'[o].version = orders[o].version + 1
      /\ orders[o].version \in Nat
    BY OrderAdvanced, RowsFound DEF AdvanceOrder, ActiveOrder
<1>2. orders[o].status \in { "executing", "verifying" }
    BY <1>1 DEF Started
<1>3. orders[o].version >= 4
    BY <1>2 DEF SystemInv, OrderVersions
<1>4. next \in { "executing", "verifying", "closed", "cancelled" }
    BY <1>1, <1>2 DEF MO!transitions
<1> QED
    BY <1>1, <1>2, <1>3, <1>4 DEF Started

\* A row of cell_transitions explains a cell anew; a move without one is made by
\* an order that is started, or closed, by the same step.
LEMMA ExplainedStep ==
    ASSUME SystemInv, [SystemNext]_systemVars
    PROVE  EveryMoveIsExplained'
<1>0. /\ \A c \in Cell : CL!Exists(c) /\ LastLogged(c) # cells[c].status =>
            \E o \in Order : Explains(o, c)
      /\ DOMAIN cells = Cell /\ DOMAIN history = Cell
      /\ history \in [Cell -> Seq(CL!Transition)]
    BY RowsFound DEF SystemInv, EveryMoveIsExplained, Explains, CL!TypeOK
<1> SUFFICES ASSUME NEW c \in Cell, CL!Exists(c)', LastLogged(c)' # cells'[c].status
             PROVE  \E o \in Order : Explains(o, c)'
    BY DEF EveryMoveIsExplained, Explains
<1>a. history' = history => LastLogged(c)' = LastLogged(c)
    BY DEF LastLogged, CL!StatusAfter
<1>b. cells'[c] = cells[c] => CL!Exists(c)
    BY DEF CL!Exists
<1>c. ASSUME NEW o \in Order, Explains(o, c), orders'[o] = orders[o],
             cells'[c].status = cells[c].status
      PROVE  Explains(o, c)'
    BY <1>c DEF Explains, Started
<1>1. ASSUME NEW d \in Cell, NEW role \in Role, CellOperation(d, role)
      PROVE  \E o \in Order : Explains(o, c)'
    <2>0. orders' = orders
        BY <1>1 DEF CellOperation, orderVars
    <2>1. CASE StatusKept(d)
        <3>1. CL!Exists(c) /\ cells'[c].status = cells[c].status /\ history' = history
            BY <2>1 DEF StatusKept
        <3>2. PICK o \in Order : Explains(o, c)
            BY <1>0, <1>a, <3>1
        <3> QED
            BY <1>c, <2>0, <3>1, <3>2
    <2>2. ASSUME NEW next \in CL!CellStatus, StatusMoved(d, next)
          PROVE  \E o \in Order : Explains(o, c)'
        <3>1. CASE c = d
            <4> DEFINE n == Len(history[c])
                       entry == history'[c][n + 1]
            <4>1. history[c] \in Seq(CL!Transition) /\ n \in Nat
                BY <1>0
            <4>2. history'[c] = Append(history[c], entry) /\ entry.to = next
                  /\ cells'[c].status = next
                BY <1>0, <2>2, <3>1 DEF StatusMoved
            <4> HIDE DEF entry
            <4>3. Len(history'[c]) = n + 1 /\ history'[c][n + 1] = entry
                BY <4>1, <4>2
            <4>4. LastLogged(c)' = next
                BY <4>1, <4>2, <4>3 DEF LastLogged, CL!StatusAfter
            <4> QED
                BY <4>2, <4>4
        <3>2. CASE c # d
            <4>1. cells'[c] = cells[c] /\ history'[c] = history[c]
                BY <1>0, <2>2, <3>2 DEF StatusMoved
            <4>2. LastLogged(c)' = LastLogged(c)
                BY <4>1 DEF LastLogged, CL!StatusAfter
            <4>3. PICK o \in Order : Explains(o, c)
                BY <1>0, <1>b, <4>1, <4>2
            <4> QED
                BY <1>c, <2>0, <4>1, <4>3
        <3> QED
            BY <3>1, <3>2
    <2>3. CASE CellCreated(d)
        <3>1. CASE c = d
            <4>1. history'[c] = << >> /\ cells'[c].status = "surveyed"
                BY <2>3, <3>1, RowsFound DEF CellCreated
            <4>2. LastLogged(c)' = "surveyed"
                BY <4>1 DEF LastLogged, CL!StatusAfter
            <4> QED
                BY <4>1, <4>2
        <3>2. CASE c # d
            <4>1. cells'[c] = cells[c] /\ history' = history
                BY <2>3, <3>2 DEF CellCreated
            <4>2. PICK o \in Order : Explains(o, c)
                BY <1>0, <1>a, <1>b, <4>1
            <4> QED
                BY <1>c, <2>0, <4>1, <4>2
        <3> QED
            BY <3>1, <3>2
    <2> QED
        BY <1>1, <2>1, <2>2, <2>3, CellOperated
<1>2. ASSUME NEW o \in Order, NEW role \in Role, NEW next \in MO!Status,
             AdvanceOrder(o, next, role)
      PROVE  \E i \in Order : Explains(i, c)'
    <2>0. /\ orders'[o].status = next /\ orders'[o].cell = orders[o].cell
          /\ \A i \in Order \ {o} : orders'[i] = orders[i]
          /\ history' = history
        BY <1>2, OrderAdvanced DEF AdvanceOrder
    <2>1. CASE cells'[c] = cells[c]
        <3>1. PICK i \in Order : Explains(i, c)
            BY <1>0, <1>a, <1>b, <2>0, <2>1
        <3>2. CASE i # o
            BY <1>c, <2>0, <2>1, <3>1, <3>2
        <3>3. CASE i = o
            <4>1. orders[o].status \in { "executing", "verifying" } /\ Started(o)'
                BY <1>2, <3>1, <3>3, StartedStaysStarted DEF Explains
            <4>2. cells'[c].status # "production"
                BY <2>1, <3>1, <3>3, <4>1 DEF Explains
            <4> QED
                BY <2>0, <3>1, <3>3, <4>1, <4>2 DEF Explains
        <3> QED
            BY <3>2, <3>3
    <2>2. CASE cells'[c] # cells[c]
        <3>1. /\ c = orders[o].cell
              /\ \/ next = "executing" /\ cells'[c].status = "maintenance"
                 \/ next = "closed" /\ cells'[c].status = "production"
            BY <1>2, <2>2, CellSwitched DEF Switched
        <3>2. Explains(o, c)'
            BY <2>0, <3>1 DEF Explains, Started
        <3> QED
            BY <3>2
    <2> QED
        BY <2>1, <2>2
<1>3. ASSUME NEW o \in Order, NEW role \in Role, NEW order \in MO!Requestable,
             OpenOrder(o, order, role)
      PROVE  \E i \in Order : Explains(i, c)'
    <2>1. /\ cells' = cells /\ history' = history /\ orders[o] = MO!NoOrder
          /\ \A i \in Order \ {o} : orders'[i] = orders[i]
        BY <1>3, RowsFound DEF OpenOrder, MO!Open, cellVars
    <2>2. PICK i \in Order : Explains(i, c)
        BY <1>0, <1>a, <1>b, <2>1
    <2>3. i # o
        BY <2>1, <2>2 DEF Explains, Started, MO!NoOrder
    <2> QED
        BY <1>c, <2>1, <2>2, <2>3
<1>4. CASE UNCHANGED << cellVars, orders >>
    <2>1. cells' = cells /\ history' = history /\ orders' = orders
        BY <1>4 DEF cellVars
    <2>2. PICK o \in Order : Explains(o, c)
        BY <1>0, <1>a, <1>b, <2>1
    <2> QED
        BY <1>c, <2>1, <2>2
<1>5. ASSUME NEW w \in Window, NEW role \in Role,
             \/ \E window \in Requestable : RequestWindow(w, window, role)
             \/ \E kind \in QualificationKind : ApproveWindow(w, kind, role)
             \/ CancelWindow(w, role)
      PROVE  UNCHANGED << cellVars, orders >>
    BY <1>5 DEF RequestWindow, ApproveWindow, CancelWindow, orderVars
<1>6. TimePasses \/ UNCHANGED systemVars => UNCHANGED << cellVars, orders >>
    BY DEF TimePasses, systemVars, orderVars
<1> QED
    BY <1>1, <1>2, <1>3, <1>4, <1>5, <1>6 DEF SystemNext

-----------------------------------------------------------------------------
\* The system starts in its inductive invariant.
LEMMA SystemInvInit ==
    ASSUME SystemInit
    PROVE  SystemInv
<1>1. CP!IInv /\ MP!AInv /\ WindowsInv
    BY CellsInit, OrdersInit, WindowsInit DEF SystemInit
<1>2. OrderVersions
    BY DEF SystemInit, OrderVersions, MO!NoOrder
<1>3. WindowVersions
    BY DEF SystemInit, Init, WindowVersions, NoWindow
<1>4. \A c \in Cell : cells[c].status = "none" /\ ~CL!Exists(c)
    BY DEF SystemInit, CL!Init, CL!Exists, CL!NoCell
<1>5. RetirementStrandsNothing /\ EveryMoveIsExplained
    BY <1>4 DEF RetirementStrandsNothing, EveryMoveIsExplained
<1>6. late \subseteq Order \cup Window
    BY DEF SystemInit
<1> QED
    BY <1>1, <1>2, <1>3, <1>5, <1>6 DEF SystemInv

\* Every step of the system preserves its inductive invariant.
LEMMA SystemInvStep ==
    ASSUME SystemInv, [SystemNext]_systemVars
    PROVE  SystemInv'
<1>1. CP!IInv'
    BY CellsFollow, CellsInduction DEF SystemInv
<1>2. MP!AInv'
    BY OrderRowsFollow, OrdersInduction DEF SystemInv
<1>3. WindowsInv' /\ WindowVersions'
    BY WindowsFollow, WindowsInduction, WindowVersionsStep DEF SystemInv
<1>4. OrderVersions' /\ late' \subseteq Order \cup Window
    BY OrderVersionsStep, NotesStep
<1>5. RetirementStrandsNothing' /\ EveryMoveIsExplained'
    BY StrandsStep, ExplainedStep
<1> QED
    BY <1>1, <1>2, <1>3, <1>4, <1>5 DEF SystemInv

\* The tables of the database keep the invariants of all three components, and
\* what the components owe each other.
THEOREM SystemInvariant == SystemSpec => []SystemInv
<1>1. SystemInit => SystemInv
    BY SystemInvInit
<1>2. SystemInv /\ [SystemNext]_systemVars => SystemInv'
    BY SystemInvStep
<1> QED
    BY <1>1, <1>2, PTL DEF SystemSpec

\* The tables always hold rows of their types (SystemTypeOK).
THEOREM SystemTypeCorrect == SystemSpec => []SystemTypeOK
<1>1. SystemInv => SystemTypeOK
    BY CellsImply, OrdersImply DEF SystemInv, WindowsInv, SystemTypeOK
<1> QED
    BY <1>1, SystemInvariant, PTL

\* AdvanceMaintenance does to a cell, and a retirement finds in the other tables,
\* nothing that CellLifecycle does not provide for (CellsFollowTheirModel).
THEOREM CellsAreOnesOfTheirModel == SystemSpec => CellsFollowTheirModel
<1>1. SystemInv /\ [SystemNext]_systemVars => [CL!Next]_(CL!vars)
    BY CellsFollow
<1> QED
    BY <1>1, SystemInvariant, PTL DEF SystemSpec, CellsFollowTheirModel

\* No operation of a cell does to its orders what MaintenanceOrders leaves out
\* (OrdersFollowTheirModel).
THEOREM OrdersAreOnesOfTheirModel == SystemSpec => OrdersFollowTheirModel
<1>1. SystemInv /\ [SystemNext]_systemVars =>
        [MO!Next \/ \E c \in Cell : ~CL!Exists(c) /\ CL!Exists(c)']_(MO!vars)
    BY OrdersFollow
<1> QED
    BY <1>1, SystemInvariant, PTL DEF SystemSpec, OrdersFollowTheirModel

\* An open order or a held reservation of a retired cell was opened or approved
\* when the cell was retired already (RetirementStrandsNothing).
THEOREM RetirementsStrandNothing == SystemSpec => []RetirementStrandsNothing
<1>1. SystemInv => RetirementStrandsNothing
    BY DEF SystemInv
<1> QED
    BY <1>1, SystemInvariant, PTL

\* What cell_transitions does not tell of a cell's status, its maintenance orders
\* do (EveryMoveIsExplained).
THEOREM MovesAreExplained == SystemSpec => []EveryMoveIsExplained
<1>1. SystemInv => EveryMoveIsExplained
    BY DEF SystemInv
<1> QED
    BY <1>1, SystemInvariant, PTL

-----------------------------------------------------------------------------
\* The system implements CellLifecycle, with the busy cells that it computes from
\* its tables, and the windows of WorkWindows.
THEOREM SystemImplementsCells == SystemSpec => CL!Spec
<1>1. SystemInit => CL!Init
    BY DEF SystemInit
<1>2. SystemInv /\ [SystemNext]_systemVars => [CL!Next]_(CL!vars)
    BY CellsFollow
<1> QED
    BY <1>1, <1>2, SystemInvariant, PTL DEF SystemSpec, CL!Spec

\* The transactions that write maintenance_windows, whatever else they write, do to
\* the windows what WorkWindows says: what is proved of the windows on their own
\* holds in the system.
THEOREM SystemImplementsWindows == SystemSpec => Spec
<1>1. SystemInit => Init
    BY DEF SystemInit
<1>2. SystemInv /\ [SystemNext]_systemVars => [Next]_vars
    BY WindowsFollow
<1> QED
    BY <1>1, <1>2, SystemInvariant, PTL DEF SystemSpec, Spec

\* So the cells of the system are accepted, reviewed and documented as
\* CellLifecycle promises, whatever orders and windows do meanwhile.
THEOREM SystemCellsAreSafe ==
    SystemSpec => [](/\ CL!CommissionedIsAccepted /\ CL!FlagsMatchEvidence
                     /\ CL!HistoryIsAPath /\ CL!OneWritePerVersion
                     /\ CL!EvidenceIsFromReviews /\ CL!CommissionedPassedEveryPhase)
<1>1. SystemInv => /\ CP!CommissionedIsAccepted /\ CP!FlagsMatchEvidence
                   /\ CP!HistoryIsAPath /\ CP!OneWritePerVersion
                   /\ CP!EvidenceIsFromReviews /\ CP!CommissionedPassedEveryPhase
    <2> SUFFICES ASSUME CP!IInv
                 PROVE  /\ CP!CommissionedIsAccepted /\ CP!FlagsMatchEvidence
                        /\ CP!HistoryIsAPath /\ CP!OneWritePerVersion
                        /\ CP!EvidenceIsFromReviews /\ CP!CommissionedPassedEveryPhase
        BY DEF SystemInv
    <2> QED
        BY CellsConstants, CP!InvariantImplies, Zenon
<1>2. /\ CP!CommissionedIsAccepted <=> CL!CommissionedIsAccepted
      /\ CP!FlagsMatchEvidence <=> CL!FlagsMatchEvidence
    BY CellTerms DEF CP!CommissionedIsAccepted, CL!CommissionedIsAccepted,
           CP!Commissioned, CL!Commissioned, CP!Accepted, CL!Accepted,
           CP!FlagsMatchEvidence, CL!FlagsMatchEvidence, CP!LastOf, CL!LastOf
<1>3. CP!HistoryIsAPath <=> CL!HistoryIsAPath
    BY CellTerms DEF CP!HistoryIsAPath, CL!HistoryIsAPath, CP!StatusAfter, CL!StatusAfter,
           CP!SameButForMaintenance, CL!SameButForMaintenance
<1>4. /\ CP!OneWritePerVersion <=> CL!OneWritePerVersion
      /\ CP!EvidenceIsFromReviews <=> CL!EvidenceIsFromReviews
    BY DEF CP!OneWritePerVersion, CL!OneWritePerVersion,
           CP!EvidenceIsFromReviews, CL!EvidenceIsFromReviews
<1>5. CP!CommissionedPassedEveryPhase <=> CL!CommissionedPassedEveryPhase
    BY DEF CP!CommissionedPassedEveryPhase, CL!CommissionedPassedEveryPhase,
           CP!Commissioned, CL!Commissioned, CP!Visited, CL!Visited
<1> QED
    BY <1>1, <1>2, <1>3, <1>4, <1>5, SystemInvariant, PTL

\* A retired cell stays as it is: no order, window, compensation or inspection of
\* the system touches it or its evidence.
THEOREM SystemRetirementIsFinal == SystemSpec => CL!RetiredIsFinal
<1>1. CL!Spec => CP!Spec
    <2>1. CL!Init => CP!Init
        BY CellTerms
    <2>2. [CL!Next]_(CL!vars) => [CP!Next]_(CP!vars)
        BY CellTerms, CellSteps
    <2> QED
        BY <2>1, <2>2, PTL DEF CL!Spec, CP!Spec
<1>2. CP!Spec => CP!RetiredIsFinal
    BY CellsConstants, CP!RetirementIsFinal, Zenon
<1>3. CP!RetiredIsFinal => CL!RetiredIsFinal
    <2> DEFINE Final == \A c \in Cell : cells[c].status = "retired" =>
                            /\ cells'[c] = cells[c]
                            /\ history'[c] = history[c]
                            /\ inspections'[c] = inspections[c]
    <2>1. [Final]_(CP!vars) => [Final]_(CL!vars)
        BY CellTerms
    <2> QED
        BY <2>1, PTL DEF CP!RetiredIsFinal, CL!RetiredIsFinal
<1> QED
    BY <1>1, <1>2, <1>3, SystemImplementsCells, PTL

\* And the stock is what MaintenanceOrders promises, whatever the cells do.
THEOREM SystemStockIsSafe ==
    SystemSpec => [](/\ MO!ReservedPiecesExist /\ MO!LedgerBalances
                     /\ MO!ReservationsAreAccounted /\ MO!VerifiedOrderCanClose)
<1>1. SystemInv => /\ MP!ReservedPiecesExist /\ MP!LedgerBalances
                   /\ MP!ReservationsAreAccounted /\ MP!VerifiedOrderCanClose
    <2> SUFFICES ASSUME MP!AInv
                 PROVE  /\ MP!ReservedPiecesExist /\ MP!LedgerBalances
                        /\ MP!ReservationsAreAccounted /\ MP!VerifiedOrderCanClose
        BY DEF SystemInv
    <2> QED
        BY OrdersConstants, MP!AccountsImply, Zenon
<1>2. /\ MP!ReservedPiecesExist <=> MO!ReservedPiecesExist
      /\ MP!VerifiedOrderCanClose <=> MO!VerifiedOrderCanClose
    BY DEF MP!ReservedPiecesExist, MO!ReservedPiecesExist,
           MP!VerifiedOrderCanClose, MO!VerifiedOrderCanClose,
           MP!UsesPart, MO!UsesPart, MP!CanConsume, MO!CanConsume, MP!Moved, MO!Moved
<1>3. \A S : MP!Cardinality(S) = MO!Cardinality(S)
    BY DEF MP!Cardinality, MO!Cardinality
<1>4. MP!LedgerBalances <=> MO!LedgerBalances
    BY <1>3 DEF MP!LedgerBalances, MO!LedgerBalances, MP!Pieces, MO!Pieces,
           MP!Moves, MO!Moves
<1>5. MP!ReservationsAreAccounted <=> MO!ReservationsAreAccounted
    BY <1>2, <1>3 DEF MP!ReservationsAreAccounted, MO!ReservationsAreAccounted,
           MP!Promised, MO!Promised, MP!InWork, MO!InWork,
           MP!CancelledInWork, MO!CancelledInWork, MP!Moved, MO!Moved
<1> QED
    BY <1>1, <1>2, <1>4, <1>5, SystemInvariant, PTL

\* And windows hold their resources as WorkWindows promises.
THEOREM SystemBookingsAreSafe ==
    SystemSpec => [](/\ ReservedHoldsItsResources /\ NoDoubleBookingOnWholeSeconds
                     /\ DoubleBookingIsBelowOneSecond)
BY SystemImplementsWindows, ReservationsFollowWindows, WholeSecondBookingsAreExclusive,
   DoubleBookingIsShort, PTL

=============================================================================
