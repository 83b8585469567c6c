-------------------------- MODULE RobotCellSystem --------------------------
(***************************************************************************)
(* One database: the life of the cells (CellLifecycle), the maintenance    *)
(* orders (MaintenanceOrders) and the downtime windows (WorkWindows) with  *)
(* the tables they share.  An order writes the status of its cell, and a   *)
(* retirement reads the orders and the reservations of its cell.           *)
(*                                                                         *)
(* Each component summarises the others: CellLifecycle by the set busy and *)
(* the action MaintenanceWrites, MaintenanceOrders by the array cellStatus *)
(* and the action CellMoves.  Here both are computed from the tables.  No  *)
(* cell belongs to an active batch: nothing under src/ activates one.      *)
(* Nobody but WorkWindows writes the windows, so they are extended and the *)
(* other two are instances.                                                *)
(***************************************************************************)
EXTENDS WorkWindows, Sequences

CONSTANTS
    MaxVersion, Job, CalibrationWriter,                  \* of CellLifecycle
    Order, Assignee, Part, NoPart, Stock, MaxQuantity, MaxOrderVersion,
    MaintenanceQualified                                 \* of MaintenanceOrders

ASSUME CellsAssumption ==
    /\ MaxVersion \in Nat /\ CalibrationWriter \in BOOLEAN
    /\ "user" \notin Job

ASSUME OrdersAssumption ==
    /\ NoPart \notin Part
    /\ Stock \in [Part -> Nat]
    /\ MaxQuantity \in Nat /\ MaxOrderVersion \in Nat
    /\ MaintenanceQualified \subseteq Assignee

VARIABLES
    cells, history, inspections,
    orders, parts, movements,
    late               \* history: orders opened and windows approved for a
                       \* cell that was retired already

cellVars == << cells, history, inspections >>
orderVars == << orders, parts, movements >>
systemVars == << cellVars, orderVars, vars, late >>

-----------------------------------------------------------------------------
ActiveOrder(o) == orders[o].status \notin { "none", "closed", "cancelled" }

OrdersOn(c) == { o \in Order : ActiveOrder(o) /\ orders[o].cell = c }

ReservedOn(c) == { r \in reservations : ~r.released /\ windows[r.window].cell = c }

\* Mutant: RetireCell does not look for maintenance orders.
BusyWithoutOrders == { c \in Cell : ReservedOn(c) # {} }

\* What RetireCell counts.
Busy == { c \in Cell : OrdersOn(c) # {} \/ ReservedOn(c) # {} }

CL == INSTANCE CellLifecycle WITH busy <- Busy

MO == INSTANCE MaintenanceOrders WITH cellStatus <- [c \in Cell |-> cells[c].status]

-----------------------------------------------------------------------------
SystemInit ==
    /\ CL!Init /\ Init
    /\ orders = [o \in Order |-> MO!NoOrder]
    /\ parts = [p \in Part |-> [available |-> Stock[p], reserved |-> 0]]
    /\ movements = {}
    /\ late = {}

\* What happens to an order or a window of a cell that is retired already.
Notes(id, c) == late' = IF cells[c].status = "retired" THEN late \cup {id} ELSE late

\* The operations of the cells; RetireCell sees the other tables through Busy.
\* Of the versions a caller may send, here and below, only the row's is accepted.
CellOperation(c, role) ==
    /\ UNCHANGED << orderVars, vars, late >>
    /\ \/ CL!CreateCell(c, role)
       \/ \E kind \in CL!InspectionKind, passed \in BOOLEAN :
              CL!RecordInspection(c, kind, passed, role)
       \/ \E next \in DOMAIN CL!allowed :
              CL!Exists(c) /\ CL!TransitionCell(c, cells[c].version, next, role)
       \/ CL!Exists(c) /\ CL!RetireCell(c, cells[c].version, role)
       \/ \E job \in Job : CL!CompensateCalibration(c, job)
       \/ CL!WriteCalibrationRef(c)

OpenOrder(o, order, role) ==
    /\ CL!Exists(order.cell)
    /\ UNCHANGED << cellVars, vars >>
    /\ MO!Open(o, order, role)
    /\ Notes(o, order.cell)

\* Mutant: the cell's status is written without a new version.
OrderWritesCellKeepingVersion(c, from, to) ==
    IF cells[c].status = from
    THEN CL!HasVersionLeft(c) /\ cells' = [cells EXCEPT ![c].status = to]
    ELSE UNCHANGED cells

\* UPDATE robot_cells SET status=?, version=version+1 WHERE id=? AND status=?.
OrderWritesCell(c, from, to) ==
    IF cells[c].status = from
    THEN CL!HasVersionLeft(c) /\ cells' = [cells EXCEPT ![c] = CL!Moved(c, to)]
    ELSE UNCHANGED cells

\* AdvanceMaintenance: MaintenanceOrders has the order's side of it.
AdvanceOrder(o, next, role) ==
    /\ ActiveOrder(o)
    /\ LET c == orders[o].cell
       IN  CASE next = "executing" -> OrderWritesCell(c, "production", "maintenance")
             [] next = "closed" /\ MO!UsesPart(o)
                    -> OrderWritesCell(c, "maintenance", "production")
             [] OTHER -> UNCHANGED cells
    /\ UNCHANGED << history, inspections, vars, late >>
    /\ MO!Advance(o, orders[o].version, next, role)

RequestWindow(w, window, role) ==
    /\ CL!Exists(window.cell)
    /\ UNCHANGED << cellVars, orderVars, late >>
    /\ Request(w, window, role)

ApproveWindow(w, kind, role) ==
    /\ windows[w] # NoWindow
    /\ UNCHANGED << cellVars, orderVars >>
    /\ Approve(w, windows[w].version, kind, role)
    /\ Notes(w, windows[w].cell)

CancelWindow(w, role) ==
    /\ windows[w] # NoWindow
    /\ UNCHANGED << cellVars, orderVars, late >>
    /\ Cancel(w, windows[w].version, role)

TimePasses == ClockAdvances /\ UNCHANGED << cellVars, orderVars, late >>

SystemNext ==
    \/ TimePasses
    \/ \E role \in Role :
         \/ \E c \in Cell : CellOperation(c, role)
         \/ \E o \in Order :
              \/ \E order \in MO!Requestable : OpenOrder(o, order, role)
              \/ \E next \in MO!Status : AdvanceOrder(o, next, role)
         \/ \E w \in Window :
              \/ \E window \in Requestable : RequestWindow(w, window, role)
              \/ \E kind \in QualificationKind : ApproveWindow(w, kind, role)
              \/ CancelWindow(w, role)

SystemSpec == SystemInit /\ [][SystemNext]_systemVars

-----------------------------------------------------------------------------
SystemTypeOK ==
    /\ CL!TypeOK /\ TypeOK
    /\ orders \in [Order -> MO!OrderRow \cup {MO!NoOrder}]
    /\ parts \in [Part -> MO!SparePart]
    /\ movements \subseteq MO!PartMovement
    /\ late \subseteq Order \cup Window

\* What AdvanceMaintenance does to a cell, and what a retirement finds in the
\* other tables, is what CellLifecycle says of it: every step of the system is
\* one of its steps, so what is proved of every behaviour of CellLifecycle holds
\* of the cells here.
CellsFollowTheirModel == [][CL!Next]_CL!vars

\* And every step is one of MaintenanceOrders, whose cells move by themselves, or
\* adds a cell: no transition, compensation or retirement of a cell does to its
\* orders what MaintenanceOrders leaves out.
OrdersFollowTheirModel ==
    [][MO!Next \/ \E c \in Cell : ~CL!Exists(c) /\ CL!Exists(c)']_MO!vars

\* Nobody works on a retired cell but those who asked for it afterwards: an open
\* order or a held reservation of a retired cell was opened or approved when the
\* cell was retired already.  Neither operation looks at the cell's status.
RetirementStrandsNothing ==
    \A c \in Cell : cells[c].status = "retired" =>
        OrdersOn(c) \cup { r.window : r \in ReservedOn(c) } \subseteq late

\* The order was in work at some time: "executing" is version 4 or later.
Started(o) ==
    \/ orders[o].status \in { "executing", "verifying", "closed" }
    \/ orders[o].status = "cancelled" /\ orders[o].version > 4

LastLogged(c) == CL!StatusAfter(history[c], Len(history[c]))

\* Where cell_transitions does not say how a cell came to its status, the orders
\* do: a cell in maintenance without a row for it has an order that was started,
\* and a cell that left maintenance without a row has one that was closed.
EveryMoveIsExplained ==
    \A c \in Cell : CL!Exists(c) /\ LastLogged(c) # cells[c].status =>
        \E o \in Order :
            /\ Started(o) /\ orders[o].cell = c
            /\ cells[c].status = "production" => orders[o].status = "closed"

=============================================================================
