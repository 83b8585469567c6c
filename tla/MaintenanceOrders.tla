------------------------- MODULE MaintenanceOrders -------------------------
(***************************************************************************)
(* Maintenance orders, the spare parts they reserve and consume, and what  *)
(* they do to the status of their cell: internal/maintenance,              *)
(* internal/store/maintenance.go and internal/service/maintenance.go.      *)
(*                                                                         *)
(* AdvanceMaintenance is one SQLite transaction, so one action: any check  *)
(* that fails rolls back all of it.  The rest of a cell's life is the      *)
(* action CellMoves; CellLifecycle models it.                              *)
(***************************************************************************)
EXTENDS Naturals, FiniteSets, CellStates, Identity

CONSTANTS
    Order,             \* ids of maintenance_orders
    Cell, Assignee, Part,
    NoPart,            \* the NULL of spare_part_id
    Stock,             \* available pieces of each part at the start
    MaxQuantity,       \* bound on the quantity an order asks for
    MaxOrderVersion,   \* bound on an order's version: on the rework cycle
    MaintenanceQualified   \* assignees with a valid maintenance qualification

ASSUME MaintenanceAssumption ==
    /\ NoPart \notin Part
    /\ Stock \in [Part -> Nat]
    /\ MaxQuantity \in Nat /\ MaxOrderVersion \in Nat
    /\ MaintenanceQualified \subseteq Assignee

VARIABLES
    orders,            \* maintenance_orders, by id
    parts,             \* spare_parts, by id
    movements,         \* part_movements; rows carry the part through the order
    cellStatus         \* robot_cells.status, by cell

vars == << orders, parts, movements, cellStatus >>

-----------------------------------------------------------------------------
Status == { "opened", "triaged", "approved", "executing", "verifying",
            "closed", "cancelled" }

transitions ==
    { << "opened", "triaged" >>, << "opened", "cancelled" >>,
      << "triaged", "approved" >>, << "triaged", "cancelled" >>,
      << "approved", "executing" >>, << "approved", "cancelled" >>,
      << "executing", "verifying" >>, << "executing", "cancelled" >>,
      << "verifying", "closed" >>, << "verifying", "executing" >> }

CanTransition(order, next) == << order.status, next >> \in transitions

OrderRow == [cell : Cell, assignee : Assignee, part : Part \cup {NoPart},
             quantity : Nat, status : Status, version : Nat]

NoOrder == [status |-> "none"]       \* the id is not in the table

SparePart == [available : Nat, reserved : Nat]

\* kind "release" is in the schema; no code writes it.
PartMovement == [order : Order, part : Part, quantity : Nat,
                 kind : { "reserve", "consume", "release" }]

\* Order.Validate: a quantity goes with a part and only with a part.
Validate(order) == order.part = NoPart <=> order.quantity = 0

UsesPart(o) == orders[o].part # NoPart

\* The row AdvanceMaintenance inserts, and the UNIQUE(order_id, kind) it meets.
Movement(o, kind) == [order |-> o, part |-> orders[o].part,
                      quantity |-> orders[o].quantity, kind |-> kind]

Moved(o, kind) == \E m \in movements : m.order = o /\ m.kind = kind

Active(o) == orders[o] # NoOrder /\ orders[o].status \notin { "closed", "cancelled" }

-----------------------------------------------------------------------------
Init ==
    /\ orders = [o \in Order |-> NoOrder]
    /\ parts = [p \in Part |-> [available |-> Stock[p], reserved |-> 0]]
    /\ movements = {}
    /\ cellStatus \in [Cell -> CellStatus]

\* What a client may ask for; the service sets the status, the store the version.
Requestable == [cell : Cell, assignee : Assignee, part : Part \cup {NoPart},
                quantity : 0..MaxQuantity, status : {"opened"}, version : {1}]

\* Maintenance.Open and Store.CreateMaintenanceOrder.
Open(o, order, role) ==
    /\ role \in {"operator", "maintenance_engineer", "line_manager"}
    /\ orders[o] = NoOrder
    /\ Validate(order)
    /\ orders' = [orders EXCEPT ![o] = order]
    /\ UNCHANGED << parts, movements, cellStatus >>

CanReserve(o) ==
    LET p == parts[orders[o].part]
    IN  /\ p.available - p.reserved >= orders[o].quantity
        /\ ~Moved(o, "reserve")

Reserve(o) ==
    /\ CanReserve(o)
    /\ parts' = [parts EXCEPT ![orders[o].part].reserved = @ + orders[o].quantity]
    /\ movements' = movements \cup { Movement(o, "reserve") }

\* Mutant: the pieces are taken from the stock but stay reserved.
ConsumeKeepingReserved(o) ==
    /\ parts[orders[o].part].reserved >= orders[o].quantity
    /\ ~Moved(o, "consume")
    /\ parts' = [parts EXCEPT ![orders[o].part].available = @ - orders[o].quantity]
    /\ movements' = movements \cup { Movement(o, "consume") }

CanConsume(o) ==
    /\ parts[orders[o].part].reserved >= orders[o].quantity
    /\ ~Moved(o, "consume")

\* Mutant: closing an order drops what other orders have reserved.
ConsumeAllReserved(o) ==
    /\ CanConsume(o)
    /\ parts' = [parts EXCEPT ![orders[o].part] =
                    [available |-> @.available - orders[o].quantity, reserved |-> 0]]
    /\ movements' = movements \cup { Movement(o, "consume") }

Consume(o) ==
    /\ CanConsume(o)
    /\ parts' = [parts EXCEPT ![orders[o].part] =
                    [available |-> @.available - orders[o].quantity,
                     reserved |-> @.reserved - orders[o].quantity]]
    /\ movements' = movements \cup { Movement(o, "consume") }

\* UPDATE robot_cells ... WHERE id=? AND status=?, its row count unread.
SwitchCell(c, from, to) ==
    cellStatus' = [cellStatus EXCEPT ![c] = IF @ = from THEN to ELSE @]

\* Mutant: work starts without reserving its part.
StartWorkWithoutParts(o) ==
    /\ orders[o].assignee \in MaintenanceQualified
    /\ SwitchCell(orders[o].cell, "production", "maintenance")
    /\ UNCHANGED << parts, movements >>

StartWork(o) ==
    /\ orders[o].assignee \in MaintenanceQualified
    /\ IF UsesPart(o) THEN Reserve(o) ELSE UNCHANGED << parts, movements >>
    /\ SwitchCell(orders[o].cell, "production", "maintenance")

\* Only an order with a part hands its cell back.
FinishWork(o) ==
    IF UsesPart(o)
    THEN Consume(o) /\ SwitchCell(orders[o].cell, "maintenance", "production")
    ELSE UNCHANGED << parts, movements, cellStatus >>

\* Maintenance.Advance and Store.AdvanceMaintenance.
Advance(o, expected, next, role) ==
    /\ role \in {"maintenance_engineer", "line_manager", "quality_engineer"}
    /\ orders[o] # NoOrder
    /\ orders[o].version = expected /\ expected < MaxOrderVersion
    /\ CanTransition(orders[o], next)
    /\ \/ next = "executing" /\ StartWork(o)
       \/ next = "closed" /\ FinishWork(o)
       \/ next \notin {"executing", "closed"} /\ UNCHANGED << parts, movements, cellStatus >>
    /\ orders' = [orders EXCEPT ![o].status = next, ![o].version = @ + 1]

\* The cell's own transitions; a retirement looks for open orders first.
CellMoves(c, next) ==
    /\ << cellStatus[c], next >> \in cellTransitions
    /\ next = "retired" => \A o \in Order : Active(o) => orders[o].cell # c
    /\ cellStatus' = [cellStatus EXCEPT ![c] = next]
    /\ UNCHANGED << orders, parts, movements >>

Next ==
    \/ \E o \in Order, role \in Role :
         \/ \E order \in Requestable : Open(o, order, role)
         \/ \E expected \in 1..MaxOrderVersion, next \in Status :
                Advance(o, expected, next, role)
    \/ \E c \in Cell, next \in CellStatus : CellMoves(c, next)

Spec == Init /\ [][Next]_vars

-----------------------------------------------------------------------------
TypeOK ==
    /\ orders \in [Order -> OrderRow \cup {NoOrder}]
    /\ parts \in [Part -> SparePart]
    /\ movements \subseteq PartMovement
    /\ cellStatus \in [Cell -> CellStatus]

\* The pieces of some movements and of some orders, one by one, so that a sum of
\* quantities is the number of a set.
Pieces(rows) == UNION { {row} \X (1..row.quantity) : row \in rows }

Promised(os) == UNION { {o} \X (1..orders[o].quantity) : o \in os }

Moves(p, kind) == { m \in movements : m.part = p /\ m.kind = kind }

\* The stock and the ledger agree: what part_movements says was reserved and
\* consumed accounts for both columns of spare_parts, whichever orders were
\* advanced, in whatever order.
LedgerBalances ==
    \A p \in Part :
        LET reserved == Cardinality(Pieces(Moves(p, "reserve")))
            consumed == Cardinality(Pieces(Moves(p, "consume")))
        IN  /\ parts[p].available + consumed = Stock[p]
            /\ parts[p].reserved + consumed = reserved

InWork(p) == { o \in Order : orders[o].status \in {"executing", "verifying"}
                             /\ orders[o].part = p }

\* Nothing is promised that is not there.
ReservedPiecesExist == \A p \in Part : parts[p].reserved <= parts[p].available

\* An order whose work is being verified can be closed: nobody else has
\* taken its pieces and it has not consumed them before.
VerifiedOrderCanClose ==
    \A o \in Order : orders[o].status = "verifying" /\ UsesPart(o) => CanConsume(o)

CancelledInWork(p) == { o \in Order : /\ orders[o].status = "cancelled"
                                      /\ orders[o].part = p
                                      /\ Moved(o, "reserve") }

\* Orders that compete for a part are promised what there is, and each piece is
\* promised to one: pieces are reserved for orders in work and, for ever, for
\* those that were cancelled in work.  The cancellation gives nothing back,
\* although the schema has a movement of kind "release" for it.
ReservationsAreAccounted ==
    /\ ReservedPiecesExist
    /\ \A p \in Part :
         parts[p].reserved = Cardinality(Promised(InWork(p) \cup CancelledInWork(p)))

\* What the transition table and its test say: work that fails verification
\* goes back to execution.  An order with a part has its "reserve" row already,
\* and the second one is refused.
ReworkIsPossible ==
    \A o \in Order : orders[o].status = "verifying" /\ UsesPart(o) => ~Moved(o, "reserve")

=============================================================================
