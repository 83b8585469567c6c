---------------------- MODULE MaintenanceOrdersProofs ----------------------
(***************************************************************************)
(* For any orders, parts, stocks and quantities: the tables keep their     *)
(* types, every reserved piece exists, the ledger accounts for the stock   *)
(* and each reserved piece belongs to one order.  The type is not          *)
(* inductive without the second of these, which makes the pieces an order  *)
(* consumes exist.                                                         *)
(*                                                                         *)
(* None of it needs the status of the cells, so the invariant is of the    *)
(* three tables only: RobotCellSystemProofs has it for the whole system.   *)
(***************************************************************************)
EXTENDS MaintenanceOrders, FiniteSetTheorems, TLAPS

RowsTyped ==
    /\ orders \in [Order -> OrderRow \cup {NoOrder}]
    /\ parts \in [Part -> SparePart]
    /\ movements \subseteq PartMovement

IInv == RowsTyped /\ ReservedPiecesExist

-----------------------------------------------------------------------------
\* The fields of an order.
LEMMA OrderParts ==
    ASSUME RowsTyped, NEW o \in Order, orders[o] # NoOrder
    PROVE  /\ orders[o] \in OrderRow
           /\ orders[o].cell \in Cell /\ orders[o].part \in Part \cup {NoPart}
           /\ orders[o].quantity \in Nat /\ orders[o].version \in Nat
    BY DEF RowsTyped, OrderRow

\* The fields of a spare part.
LEMMA PartParts ==
    ASSUME RowsTyped, NEW p \in Part
    PROVE  /\ parts[p] \in SparePart
           /\ parts[p].available \in Nat /\ parts[p].reserved \in Nat
    BY DEF RowsTyped, SparePart

\* What a reservation and a consumption do to the part of their order.
LEMMA Reserving ==
    ASSUME IInv, NEW o \in Order, orders[o] # NoOrder, UsesPart(o), Reserve(o)
    PROVE  /\ parts' \in [Part -> SparePart] /\ movements' \subseteq PartMovement
           /\ ReservedPiecesExist'
<1> DEFINE p == orders[o].part
           q == orders[o].quantity
           part == [parts[p] EXCEPT !.reserved = @ + q]
<1>1. p \in Part /\ q \in Nat
    BY OrderParts DEF IInv, UsesPart
<1>2. parts[p] \in SparePart /\ parts[p].available \in Nat /\ parts[p].reserved \in Nat
    BY <1>1, PartParts DEF IInv
<1>3. parts[p].available - parts[p].reserved >= q
    BY DEF Reserve, CanReserve
<1>4. part \in SparePart /\ part.available = parts[p].available
      /\ part.reserved = parts[p].reserved + q
    BY <1>1, <1>2 DEF SparePart
<1>5. parts' = [parts EXCEPT ![p] = part]
    BY DEF Reserve
<1>6. Movement(o, "reserve") \in PartMovement
    BY <1>1 DEF Movement, PartMovement
<1>7. part.reserved <= part.available
    BY <1>1, <1>2, <1>3, <1>4
<1> HIDE DEF part
<1> QED
    BY <1>1, <1>4, <1>5, <1>6, <1>7 DEF IInv, RowsTyped, ReservedPiecesExist, Reserve

\* A consumption finds the pieces its order has reserved.
LEMMA Consuming ==
    ASSUME IInv, NEW o \in Order, orders[o] # NoOrder, UsesPart(o), Consume(o)
    PROVE  /\ parts' \in [Part -> SparePart] /\ movements' \subseteq PartMovement
           /\ ReservedPiecesExist'
<1> DEFINE p == orders[o].part
           q == orders[o].quantity
           part == [available |-> parts[p].available - q, reserved |-> parts[p].reserved - q]
<1>1. p \in Part /\ q \in Nat
    BY OrderParts DEF IInv, UsesPart
<1>2. /\ parts[p].available \in Nat /\ parts[p].reserved \in Nat
      /\ parts[p].reserved <= parts[p].available
    BY <1>1, PartParts DEF IInv, ReservedPiecesExist
<1>3. parts[p].reserved >= q
    BY DEF Consume, CanConsume
<1>4. part \in SparePart /\ part.reserved <= part.available
    BY <1>1, <1>2, <1>3 DEF SparePart
<1>5. parts' = [parts EXCEPT ![p] = part]
    BY <1>1 DEF Consume, IInv, RowsTyped
<1>6. Movement(o, "consume") \in PartMovement
    BY <1>1 DEF Movement, PartMovement
<1> HIDE DEF part
<1> QED
    BY <1>1, <1>4, <1>5, <1>6 DEF IInv, RowsTyped, ReservedPiecesExist, Consume

\* One move of an order keeps the rows sound.
LEMMA Advancing ==
    ASSUME IInv, NEW o \in Order, NEW expected, NEW next \in Status, NEW role,
           Advance(o, expected, next, role)
    PROVE  IInv'
<1>1. orders[o] # NoOrder /\ orders[o] \in OrderRow /\ orders[o].cell \in Cell
      /\ orders[o].version \in Nat
    BY OrderParts DEF IInv, Advance
<1>2. orders' \in [Order -> OrderRow \cup {NoOrder}]
    <2>0. orders[o].version + 1 \in Nat
        BY <1>1
    <2>1. [orders[o] EXCEPT !.status = next, !.version = @ + 1] \in OrderRow
        BY <1>1, <2>0 DEF OrderRow
    <2> QED
        BY <2>1 DEF Advance, IInv, RowsTyped
<1>3. /\ parts' \in [Part -> SparePart] /\ movements' \subseteq PartMovement
      /\ ReservedPiecesExist'
    <2>1. CASE UNCHANGED << parts, movements >>
        BY <2>1 DEF IInv, RowsTyped, ReservedPiecesExist
    <2>2. CASE StartWork(o)
        <3>1. CASE UsesPart(o)
            BY <1>1, <2>2, <3>1, Reserving DEF StartWork
        <3>2. CASE ~UsesPart(o)
            BY <2>1, <2>2, <3>2 DEF StartWork
        <3> QED
            BY <3>1, <3>2
    <2>3. CASE FinishWork(o)
        <3>1. CASE UsesPart(o)
            BY <1>1, <2>3, <3>1, Consuming DEF FinishWork
        <3>2. CASE ~UsesPart(o)
            BY <2>1, <2>3, <3>2 DEF FinishWork
        <3> QED
            BY <3>1, <3>2
    <2> QED
        BY <2>1, <2>2, <2>3 DEF Advance
<1> QED
    BY <1>2, <1>3 DEF IInv, RowsTyped

\* Every step keeps the rows sound.
LEMMA RowsStep ==
    ASSUME IInv, Next \/ UNCHANGED << orders, parts, movements >>
    PROVE  IInv'
<1>1. ASSUME NEW o \in Order, NEW role \in Role, NEW order \in Requestable,
             Open(o, order, role)
      PROVE  IInv'
    <2>1. order \in OrderRow
        BY MaintenanceAssumption DEF Requestable, OrderRow, Status
    <2> QED
        BY <1>1, <2>1 DEF Open, IInv, RowsTyped, ReservedPiecesExist
<1>2. CASE UNCHANGED << orders, parts, movements >>
    BY <1>2 DEF IInv, RowsTyped, ReservedPiecesExist
<1>3. ASSUME NEW c \in Cell, NEW next \in CellStatus, CellMoves(c, next)
      PROVE  IInv'
    BY <1>2, <1>3 DEF CellMoves
<1> QED
    BY <1>1, <1>2, <1>3, Advancing DEF Next

-----------------------------------------------------------------------------
\* The orders a reserved piece may belong to.
Holding(p) == InWork(p) \cup CancelledInWork(p)

\* Every movement is of an order that exists, with its part and its quantity, and
\* of a kind that its status allows; an order in work has reserved.
MovementsFollowOrders ==
    /\ \A m \in movements :
         /\ orders[m.order] # NoOrder
         /\ m.part = orders[m.order].part /\ m.quantity = orders[m.order].quantity
         /\ m.kind = "consume" => orders[m.order].status = "closed"
         /\ m.kind = "reserve" =>
                orders[m.order].status \in { "executing", "verifying", "closed", "cancelled" }
    /\ \A o \in Order : orders[o].status \in { "executing", "verifying" } /\ UsesPart(o)
           => Moved(o, "reserve")

\* What LedgerBalances and ReservationsAreAccounted say of one part, whose sets
\* of pieces have a number.
Accounted(p) ==
    LET reserved == Pieces(Moves(p, "reserve"))
        consumed == Pieces(Moves(p, "consume"))
        promised == Promised(Holding(p))
    IN  /\ IsFiniteSet(reserved) /\ IsFiniteSet(consumed) /\ IsFiniteSet(promised)
        /\ parts[p].available + Cardinality(consumed) = Stock[p]
        /\ parts[p].reserved + Cardinality(consumed) = Cardinality(reserved)
        /\ parts[p].reserved = Cardinality(promised)

AInv == IInv /\ MovementsFollowOrders /\ \A p \in Part : Accounted(p)

-----------------------------------------------------------------------------
\* An order of n pieces stands for n elements.
LEMMA PiecesOfOne ==
    ASSUME NEW x, NEW n \in Nat
    PROVE  IsFiniteSet({x} \X (1..n)) /\ Cardinality({x} \X (1..n)) = n
<1>1. IsFiniteSet({x}) /\ Cardinality({x}) = 1
    BY FS_Singleton
<1>2. IsFiniteSet(1..n) /\ Cardinality(1..n) = n
    BY FS_Interval
<1> DEFINE S == {x}
           T == 1..n
<1> HIDE DEF S, T
<1>3. IsFiniteSet(S \X T) /\ Cardinality(S \X T) = Cardinality(S) * Cardinality(T)
    BY <1>1, <1>2, FS_Product DEF S, T
<1>4. Cardinality(S) = 1 /\ Cardinality(T) = n
    BY <1>1, <1>2 DEF S, T
<1>5. Cardinality(S \X T) = n
    BY <1>3, <1>4
<1> QED
    BY <1>3, <1>5 DEF S, T

\* An order that joins adds its quantity to the pieces counted.
LEMMA MorePieces ==
    ASSUME NEW A, IsFiniteSet(A), NEW x, NEW n \in Nat, A \cap ({x} \X (1..n)) = {}
    PROVE  /\ IsFiniteSet(A \cup ({x} \X (1..n)))
           /\ Cardinality(A \cup ({x} \X (1..n))) = Cardinality(A) + n
<1>1. Cardinality({}) = 0 /\ Cardinality(A) \in Nat
    BY FS_EmptySet, FS_CardinalityType
<1>2. IsFiniteSet({x} \X (1..n)) /\ Cardinality({x} \X (1..n)) = n
    BY PiecesOfOne
<1> DEFINE B == {x} \X (1..n)
<1> HIDE DEF B
<1> QED
    BY <1>1, <1>2, FS_Union DEF B

\* An order that leaves takes its quantity from the pieces counted.
LEMMA FewerPieces ==
    ASSUME NEW A, IsFiniteSet(A), NEW x, NEW n \in Nat, ({x} \X (1..n)) \subseteq A
    PROVE  /\ IsFiniteSet(A \ ({x} \X (1..n))) /\ n <= Cardinality(A)
           /\ Cardinality(A \ ({x} \X (1..n))) = Cardinality(A) - n
<1> DEFINE B == {x} \X (1..n)
<1>1. Cardinality(B) = n /\ A \cap B = B
    BY PiecesOfOne
<1>2. B \in SUBSET A
    OBVIOUS
<1> HIDE DEF B
<1>3. Cardinality(B) <= Cardinality(A)
    BY <1>2, FS_Subset
<1>4. IsFiniteSet(A \ B) /\ Cardinality(A \ B) = Cardinality(A) - Cardinality(A \cap B)
    BY FS_Difference
<1> QED
    BY <1>1, <1>3, <1>4 DEF B

\* A new row adds its pieces to the moves of its part and kind, and to no others.
LEMMA NewRow ==
    ASSUME NEW row, row \notin movements, row.quantity \in Nat,
           movements' = movements \cup {row},
           NEW p, NEW kind, IsFiniteSet(Pieces(Moves(p, kind)))
    PROVE  /\ IsFiniteSet(Pieces(Moves(p, kind)))'
           /\ Cardinality(Pieces(Moves(p, kind)))' =
                  IF row.part = p /\ row.kind = kind
                  THEN Cardinality(Pieces(Moves(p, kind))) + row.quantity
                  ELSE Cardinality(Pieces(Moves(p, kind)))
<1> DEFINE A == Pieces(Moves(p, kind))
           B == {row} \X (1..row.quantity)
<1>1. CASE row.part = p /\ row.kind = kind
    <2>1. Moves(p, kind)' = Moves(p, kind) \cup {row}
        BY <1>1 DEF Moves
    <2>2. A' = A \cup B
        BY <2>1 DEF Pieces
    <2>3. A \cap B = {}
        BY DEF Pieces, Moves
    <2> HIDE DEF A
    <2>4. IsFiniteSet(A \cup B) /\ Cardinality(A \cup B) = Cardinality(A) + row.quantity
        BY <2>3, MorePieces DEF A
    <2> QED
        BY <1>1, <2>2, <2>4 DEF A
<1>2. CASE ~(row.part = p /\ row.kind = kind)
    <2>1. Moves(p, kind)' = Moves(p, kind)
        BY <1>2 DEF Moves
    <2> QED
        BY <1>2, <2>1 DEF Pieces
<1> QED
    BY <1>1, <1>2

\* What a change of one order does to the pieces promised of a part.
LEMMA NewPromises ==
    ASSUME NEW p, NEW o \in Order, IsFiniteSet(Promised(Holding(p))),
           \A i \in Order \ {o} : /\ orders'[i] = orders[i]
                                  /\ i \in Holding(p)' <=> i \in Holding(p)
    PROVE  /\ o \notin Holding(p) /\ o \notin Holding(p)' =>
                  Promised(Holding(p))' = Promised(Holding(p))
           /\ orders[o].quantity \in Nat /\ orders'[o].quantity = orders[o].quantity =>
                /\ (o \in Holding(p) <=> o \in Holding(p)') =>
                       Promised(Holding(p))' = Promised(Holding(p))
                /\ o \notin Holding(p) /\ o \in Holding(p)' =>
                     /\ IsFiniteSet(Promised(Holding(p)))'
                     /\ Cardinality(Promised(Holding(p)))' =
                            Cardinality(Promised(Holding(p))) + orders[o].quantity
                /\ o \in Holding(p) /\ o \notin Holding(p)' =>
                     /\ IsFiniteSet(Promised(Holding(p)))'
                     /\ Cardinality(Promised(Holding(p)))' =
                            Cardinality(Promised(Holding(p))) - orders[o].quantity
<1> DEFINE H == Holding(p)
           A == Promised(H)
           B == {o} \X (1..orders[o].quantity)
<1>0. H \subseteq Order /\ H' \subseteq Order
    BY DEF Holding, InWork, CancelledInWork
<1>a. /\ A = UNION { {i} \X (1..orders[i].quantity) : i \in H }
      /\ A' = UNION { {i} \X (1..orders'[i].quantity) : i \in H' }
    BY DEF Promised
<1>b. /\ \A i \in Order \ {o} : orders'[i] = orders[i]
      /\ \A i \in Order \ {o} : i \in H' <=> i \in H
    OBVIOUS
<1>c. IsFiniteSet(A)
    OBVIOUS
<1> SUFFICES /\ o \notin H /\ o \notin H' => A' = A
             /\ orders[o].quantity \in Nat /\ orders'[o].quantity = orders[o].quantity =>
                  /\ (o \in H <=> o \in H') => A' = A
                  /\ o \notin H /\ o \in H' =>
                        IsFiniteSet(A') /\ Cardinality(A') = Cardinality(A) + orders[o].quantity
                  /\ o \in H /\ o \notin H' =>
                        IsFiniteSet(A') /\ Cardinality(A') = Cardinality(A) - orders[o].quantity
    OBVIOUS
<1> HIDE DEF H, A
<1>1. ASSUME o \notin H, o \notin H'
      PROVE  A' = A
    <2>1. H' = H
        BY <1>0, <1>1, <1>b
    <2>2. \A i \in H : orders'[i] = orders[i]
        BY <1>0, <1>1, <1>b
    <2> QED
        BY <1>a, <2>1, <2>2
<1>2. ASSUME orders'[o].quantity = orders[o].quantity, o \in H <=> o \in H'
      PROVE  A' = A
    <2>1. H' = H
        BY <1>0, <1>2, <1>b
    <2>2. \A i \in H : orders'[i].quantity = orders[i].quantity
        BY <1>0, <1>2, <1>b
    <2> QED
        BY <1>a, <2>1, <2>2
<1>3. ASSUME orders[o].quantity \in Nat, orders'[o].quantity = orders[o].quantity,
             o \notin H, o \in H'
      PROVE  IsFiniteSet(A') /\ Cardinality(A') = Cardinality(A) + orders[o].quantity
    <2>1. H' = H \cup {o}
        BY <1>0, <1>3, <1>b
    <2>2. \A i \in H' : orders'[i].quantity = orders[i].quantity
        BY <1>0, <1>3, <1>b
    <2>3. A' = A \cup B
        BY <1>a, <2>1, <2>2
    <2>4. A \cap B = {}
        BY <1>a, <1>3
    <2> QED
        BY <1>3, <1>c, <2>3, <2>4, MorePieces
<1>4. ASSUME orders[o].quantity \in Nat, orders'[o].quantity = orders[o].quantity,
             o \in H, o \notin H'
      PROVE  IsFiniteSet(A') /\ Cardinality(A') = Cardinality(A) - orders[o].quantity
    <2>1. H' = H \ {o}
        BY <1>0, <1>4, <1>b
    <2>2. \A i \in H' : orders'[i].quantity = orders[i].quantity
        BY <1>0, <1>4, <1>b
    <2>3. A' = A \ B
        BY <1>a, <2>1, <2>2
    <2>4. B \subseteq A
        BY <1>a, <1>4
    <2> QED
        BY <1>4, <1>c, <2>3, <2>4, FewerPieces
<1> QED
    BY <1>1, <1>2, <1>3, <1>4

-----------------------------------------------------------------------------
\* What an advance does to the order itself.
LEMMA AdvancedOrder ==
    ASSUME RowsTyped, NEW o \in Order, NEW expected, NEW next \in Status, NEW role,
           Advance(o, expected, next, role)
    PROVE  /\ orders[o] # NoOrder /\ orders[o].quantity \in Nat
           /\ orders[o].part \in Part \cup {NoPart}
           /\ << orders[o].status, next >> \in transitions
           /\ orders'[o] # NoOrder /\ orders'[o].status = next
           /\ orders'[o].part = orders[o].part /\ orders'[o].quantity = orders[o].quantity
           /\ \A i \in Order \ {o} : orders'[i] = orders[i]
<1> DEFINE row == [orders[o] EXCEPT !.status = next, !.version = @ + 1]
<1>1. /\ orders[o] # NoOrder /\ orders[o] \in OrderRow /\ orders[o].quantity \in Nat
      /\ orders[o].part \in Part \cup {NoPart}
    BY OrderParts DEF Advance
<1>2. << orders[o].status, next >> \in transitions
    BY DEF Advance, CanTransition
<1>3. /\ row.status = next /\ row.part = orders[o].part
      /\ row.quantity = orders[o].quantity
    BY <1>1 DEF OrderRow
<1> HIDE DEF row
<1>4. orders' = [orders EXCEPT ![o] = row]
    BY DEF Advance, row
<1>5. orders'[o] = row /\ \A i \in Order \ {o} : orders'[i] = orders[i]
    BY <1>4 DEF RowsTyped
<1>6. row # NoOrder
    BY <1>3 DEF NoOrder, Status
<1> QED
    BY <1>1, <1>2, <1>3, <1>5, <1>6

\* What an advance does to the stock and the ledger: nothing, or one movement for
\* an order that has none of its kind.
LEMMA AdvancedStock ==
    ASSUME MovementsFollowOrders, NEW o \in Order, NEW expected, NEW next \in Status,
           NEW role, Advance(o, expected, next, role)
    PROVE  \/ /\ parts' = parts /\ movements' = movements
              /\ UsesPart(o) => next \notin { "executing", "closed" }
           \/ /\ next = "executing" /\ UsesPart(o) /\ orders[o].status = "approved"
              /\ Reserve(o) /\ ~Moved(o, "reserve")
           \/ /\ next = "closed" /\ UsesPart(o) /\ orders[o].status = "verifying"
              /\ Consume(o) /\ ~Moved(o, "consume")
<1>1. << orders[o].status, next >> \in transitions
    BY DEF Advance, CanTransition
<1>2. CASE next = "executing" /\ StartWork(o) /\ UsesPart(o)
    <2>1. Reserve(o) /\ ~Moved(o, "reserve")
        BY <1>2 DEF StartWork, Reserve, CanReserve
    <2>2. orders[o].status = "approved"
        BY <1>1, <1>2, <2>1 DEF transitions, MovementsFollowOrders
    <2> QED
        BY <1>2, <2>1, <2>2
<1>3. CASE next = "executing" /\ StartWork(o) /\ ~UsesPart(o)
    BY <1>3 DEF StartWork
<1>4. CASE next = "closed" /\ FinishWork(o) /\ UsesPart(o)
    <2>1. Consume(o) /\ ~Moved(o, "consume")
        BY <1>4 DEF FinishWork, Consume, CanConsume
    <2>2. orders[o].status = "verifying"
        BY <1>1, <1>4 DEF transitions
    <2> QED
        BY <1>4, <2>1, <2>2
<1>5. CASE next = "closed" /\ FinishWork(o) /\ ~UsesPart(o)
    BY <1>5 DEF FinishWork
<1>6. CASE next \notin { "executing", "closed" } /\ UNCHANGED << parts, movements, cellStatus >>
    BY <1>6
<1> QED
    BY <1>2, <1>3, <1>4, <1>5, <1>6 DEF Advance

\* A move writes the movement its order's new status calls for.
LEMMA MovementsStep ==
    ASSUME RowsTyped, MovementsFollowOrders, NEW o \in Order, NEW expected,
           NEW next \in Status, NEW role, Advance(o, expected, next, role)
    PROVE  MovementsFollowOrders'
<1>1. /\ << orders[o].status, next >> \in transitions
      /\ orders'[o] # NoOrder /\ orders'[o].status = next
      /\ orders'[o].part = orders[o].part /\ orders'[o].quantity = orders[o].quantity
      /\ \A i \in Order \ {o} : orders'[i] = orders[i]
    BY AdvancedOrder
<1>2. movements \subseteq PartMovement
    BY DEF RowsTyped
<1>3. ASSUME NEW m \in movements
      PROVE  /\ m.order \in Order /\ orders'[m.order] # NoOrder
             /\ m.part = orders'[m.order].part /\ m.quantity = orders'[m.order].quantity
             /\ m.kind = "consume" => orders'[m.order].status = "closed"
             /\ m.kind = "reserve" =>
                 orders'[m.order].status \in { "executing", "verifying", "closed", "cancelled" }
    <2>1. m.order \in Order
        BY <1>2 DEF PartMovement
    <2>2. CASE m.order # o
        BY <1>1, <2>1, <2>2 DEF MovementsFollowOrders
    <2>3. CASE m.order = o
        <3>1. m.kind # "consume"
            BY <1>1, <2>3 DEF MovementsFollowOrders, transitions
        <3>2. m.kind = "reserve" =>
                  next \in { "executing", "verifying", "closed", "cancelled" }
            BY <1>1, <2>3 DEF MovementsFollowOrders, transitions
        <3> QED
            BY <1>1, <2>1, <2>3, <3>1, <3>2 DEF MovementsFollowOrders
    <2> QED
        BY <2>2, <2>3
<1>4. ASSUME NEW kind \in { "reserve", "consume" },
             movements' = movements \cup { Movement(o, kind) },
             next = IF kind = "reserve" THEN "executing" ELSE "closed"
      PROVE  MovementsFollowOrders'
    <2> DEFINE row == Movement(o, kind)
    <2>1. /\ row.order = o /\ row.part = orders[o].part
          /\ row.quantity = orders[o].quantity /\ row.kind = kind
        BY DEF Movement
    <2> HIDE DEF row
    <2>2. \A m \in movements' : m \in movements \/ m = row
        BY <1>4 DEF row
    <2>3. \A m \in movements' :
             /\ orders'[m.order] # NoOrder
             /\ m.part = orders'[m.order].part /\ m.quantity = orders'[m.order].quantity
             /\ m.kind = "consume" => orders'[m.order].status = "closed"
             /\ m.kind = "reserve" =>
                 orders'[m.order].status \in { "executing", "verifying", "closed", "cancelled" }
        BY <1>1, <1>3, <1>4, <2>1, <2>2
    <2>4. ASSUME NEW i \in Order, orders'[i].status \in { "executing", "verifying" },
                 orders'[i].part # NoPart
          PROVE  \E m \in movements' : m.order = i /\ m.kind = "reserve"
        <3>1. CASE i = o
            BY <1>1, <1>4, <2>1, <2>4, <3>1 DEF row
        <3>2. CASE i # o
            BY <1>1, <1>4, <2>4, <3>2 DEF MovementsFollowOrders, Moved, UsesPart
        <3> QED
            BY <3>1, <3>2
    <2> QED
        BY <2>3, <2>4 DEF MovementsFollowOrders, Moved, UsesPart
<1>5. ASSUME movements' = movements, UsesPart(o) => next \notin { "executing", "closed" }
      PROVE  MovementsFollowOrders'
    <2>1. ASSUME NEW i \in Order, orders'[i].status \in { "executing", "verifying" },
                 orders'[i].part # NoPart
          PROVE  \E m \in movements : m.order = i /\ m.kind = "reserve"
        <3>1. CASE i = o
            <4>1. UsesPart(o) /\ orders[o].status = "executing"
                BY <1>1, <1>5, <2>1, <3>1 DEF UsesPart, transitions
            <4> QED
                BY <3>1, <4>1 DEF MovementsFollowOrders, Moved
        <3>2. CASE i # o
            BY <1>1, <2>1, <3>2 DEF MovementsFollowOrders, Moved, UsesPart
        <3> QED
            BY <3>1, <3>2
    <2> QED
        BY <1>3, <1>5, <2>1 DEF MovementsFollowOrders, Moved, UsesPart
<1> QED
    BY <1>4, <1>5, AdvancedStock DEF Reserve, Consume

\* An advance leaves the other orders' claims on a part alone.
LEMMA OtherHolders ==
    ASSUME RowsTyped, MovementsFollowOrders, NEW o \in Order, NEW expected,
           NEW next \in Status, NEW role, Advance(o, expected, next, role),
           NEW p, NEW i \in Order \ {o}
    PROVE  i \in Holding(p)' <=> i \in Holding(p)
<1>1. orders'[i] = orders[i]
    BY AdvancedOrder
<1>2. ASSUME NEW kind, movements' = movements \cup { Movement(o, kind) }
      PROVE  Moved(i, "reserve")' <=> Moved(i, "reserve")
    <2>1. Movement(o, kind).order = o
        BY DEF Movement
    <2> DEFINE row == Movement(o, kind)
    <2> HIDE DEF row
    <2>2. \A m \in movements' : m \in movements \/ m.order = o
        BY <1>2, <2>1 DEF row
    <2> QED
        BY <1>2, <2>2 DEF Moved
<1>3. ASSUME movements' = movements
      PROVE  Moved(i, "reserve")' <=> Moved(i, "reserve")
    BY <1>3 DEF Moved
<1>4. Moved(i, "reserve")' <=> Moved(i, "reserve")
    BY <1>2, <1>3, AdvancedStock DEF Reserve, Consume
<1> QED
    BY <1>1, <1>4 DEF Holding, InWork, CancelledInWork

\* A move of an order keeps the accounts of every part.
LEMMA AccountsStep ==
    ASSUME RowsTyped, MovementsFollowOrders, NEW p \in Part, Accounted(p),
           NEW o \in Order, NEW expected, NEW next \in Status, NEW role,
           Advance(o, expected, next, role)
    PROVE  Accounted(p)'
<1> DEFINE q == orders[o].quantity
           R == Cardinality(Pieces(Moves(p, "reserve")))
           C == Cardinality(Pieces(Moves(p, "consume")))
           H == Cardinality(Promised(Holding(p)))
<1>1. /\ q \in Nat /\ << orders[o].status, next >> \in transitions
      /\ orders'[o].status = next
      /\ orders'[o].part = orders[o].part /\ orders'[o].quantity = q
      /\ \A i \in Order \ {o} : orders'[i] = orders[i]
    BY AdvancedOrder
<1>2. \A i \in Order \ {o} : i \in Holding(p)' <=> i \in Holding(p)
    BY OtherHolders
<1>3. /\ IsFiniteSet(Pieces(Moves(p, "reserve"))) /\ IsFiniteSet(Pieces(Moves(p, "consume")))
      /\ IsFiniteSet(Promised(Holding(p)))
      /\ parts[p].available + C = Stock[p] /\ parts[p].reserved + C = R
      /\ parts[p].reserved = H
      /\ R \in Nat /\ C \in Nat /\ H \in Nat /\ Stock[p] \in Nat
      /\ parts[p].available \in Nat /\ parts[p].reserved \in Nat
    BY FS_CardinalityType, PartParts, MaintenanceAssumption DEF Accounted
<1>n. p # NoPart
    BY MaintenanceAssumption
<1>h. /\ o \in Holding(p) <=>
           /\ orders[o].part = p
           /\ \/ orders[o].status \in { "executing", "verifying" }
              \/ orders[o].status = "cancelled" /\ Moved(o, "reserve")
      /\ o \in Holding(p)' <=>
           /\ orders[o].part = p
           /\ \/ next \in { "executing", "verifying" }
              \/ next = "cancelled" /\ Moved(o, "reserve")'
    BY <1>1 DEF Holding, InWork, CancelledInWork
<1> HIDE DEF q, R, C, H
<1>4. CASE parts' = parts /\ movements' = movements
           /\ (UsesPart(o) => next \notin { "executing", "closed" })
    <2>1. o \in Holding(p) <=> o \in Holding(p)'
        <3>1. Moved(o, "reserve")' <=> Moved(o, "reserve")
            BY <1>4 DEF Moved
        <3>2. CASE orders[o].part # p
            BY <1>1, <1>h, <3>2
        <3>3. CASE orders[o].part = p
            <4>1. next \notin { "executing", "closed" }
                BY <1>4, <1>n, <3>3 DEF UsesPart
            <4>2. orders[o].status = "executing" => Moved(o, "reserve")
                BY <1>n, <3>3 DEF MovementsFollowOrders, UsesPart
            <4>3. Moved(o, "reserve") =>
                    orders[o].status \in { "executing", "verifying", "closed", "cancelled" }
                BY DEF MovementsFollowOrders, Moved
            <4> QED
                BY <1>1, <1>h, <3>1, <3>3, <4>1, <4>2, <4>3 DEF transitions
        <3> QED
            BY <3>2, <3>3
    <2>2. Promised(Holding(p))' = Promised(Holding(p))
        BY <1>1, <1>2, <1>3, <2>1, NewPromises DEF q
    <2>3. Pieces(Moves(p, "reserve"))' = Pieces(Moves(p, "reserve"))
          /\ Pieces(Moves(p, "consume"))' = Pieces(Moves(p, "consume"))
        BY <1>4 DEF Moves, Pieces
    <2> QED
        BY <1>3, <1>4, <2>2, <2>3 DEF Accounted, R, C, H
<1>5. ASSUME next = "executing", UsesPart(o), orders[o].status = "approved",
             Reserve(o), ~Moved(o, "reserve")
      PROVE  Accounted(p)'
    <2> DEFINE row == Movement(o, "reserve")
    <2>1. row.part = orders[o].part /\ row.quantity = q /\ row.kind = "reserve"
          /\ row.order = o
        BY DEF Movement, q
    <2>2. movements' = movements \cup {row} /\ row \notin movements
        BY <1>5, <2>1 DEF Reserve, Moved
    <2> HIDE DEF row
    <2>3. /\ IsFiniteSet(Pieces(Moves(p, "reserve")))'
          /\ IsFiniteSet(Pieces(Moves(p, "consume")))'
          /\ C' = C /\ R' = IF orders[o].part = p THEN R + q ELSE R
        BY <1>1, <1>3, <2>1, <2>2, NewRow DEF R, C
    <2>4. CASE orders[o].part = p
        <3>1. o \notin Holding(p) /\ o \in Holding(p)'
            BY <1>1, <1>5, <1>h, <2>4
        <3>2. IsFiniteSet(Promised(Holding(p)))' /\ H' = H + q
            BY <1>1, <1>2, <1>3, <3>1, NewPromises DEF q, H
        <3>3. parts'[p].available = parts[p].available
              /\ parts'[p].reserved = parts[p].reserved + q
            BY <1>5, <2>4 DEF Reserve, RowsTyped, SparePart, q
        <3> QED
            BY <1>1, <1>3, <2>3, <2>4, <3>2, <3>3 DEF Accounted, R, C, H
    <2>5. CASE orders[o].part # p
        <3>1. o \notin Holding(p) /\ o \notin Holding(p)'
            BY <1>1, <1>h, <2>5
        <3>2. Promised(Holding(p))' = Promised(Holding(p))
            BY <1>1, <1>2, <1>3, <3>1, NewPromises
        <3>3. parts'[p] = parts[p]
            BY <1>5, <2>5 DEF Reserve, RowsTyped
        <3> QED
            BY <1>3, <2>3, <2>5, <3>2, <3>3 DEF Accounted, R, C, H
    <2> QED
        BY <2>4, <2>5
<1>6. ASSUME next = "closed", UsesPart(o), orders[o].status = "verifying",
             Consume(o), ~Moved(o, "consume")
      PROVE  Accounted(p)'
    <2> DEFINE row == Movement(o, "consume")
    <2>1. row.part = orders[o].part /\ row.quantity = q /\ row.kind = "consume"
          /\ row.order = o
        BY DEF Movement, q
    <2>2. movements' = movements \cup {row} /\ row \notin movements
        BY <1>6, <2>1 DEF Consume, Moved
    <2> HIDE DEF row
    <2>3. /\ IsFiniteSet(Pieces(Moves(p, "reserve")))'
          /\ IsFiniteSet(Pieces(Moves(p, "consume")))'
          /\ R' = R /\ C' = IF orders[o].part = p THEN C + q ELSE C
        BY <1>1, <1>3, <2>1, <2>2, NewRow DEF R, C
    <2>4. CASE orders[o].part = p
        <3>1. o \in Holding(p) /\ o \notin Holding(p)'
            BY <1>1, <1>6, <1>h, <2>4
        <3>2. IsFiniteSet(Promised(Holding(p)))' /\ H' = H - q
            BY <1>1, <1>2, <1>3, <3>1, NewPromises DEF q, H
        <3>3. parts'[p].available = parts[p].available - q
              /\ parts'[p].reserved = parts[p].reserved - q
            BY <1>6, <2>4 DEF Consume, RowsTyped, SparePart, q
        <3> QED
            BY <1>1, <1>3, <2>3, <2>4, <3>2, <3>3 DEF Accounted, R, C, H
    <2>5. CASE orders[o].part # p
        <3>1. o \notin Holding(p) /\ o \notin Holding(p)'
            BY <1>1, <1>h, <2>5
        <3>2. Promised(Holding(p))' = Promised(Holding(p))
            BY <1>1, <1>2, <1>3, <3>1, NewPromises
        <3>3. parts'[p] = parts[p]
            BY <1>6, <2>5 DEF Consume, RowsTyped
        <3> QED
            BY <1>3, <2>3, <2>5, <3>2, <3>3 DEF Accounted, R, C, H
    <2> QED
        BY <2>4, <2>5
<1> QED
    BY <1>4, <1>5, <1>6, AdvancedStock

\* A new order holds nothing and has no movements.
LEMMA OpeningStep ==
    ASSUME RowsTyped, MovementsFollowOrders, \A p \in Part : Accounted(p),
           NEW o \in Order, NEW order \in Requestable, NEW role, Open(o, order, role)
    PROVE  MovementsFollowOrders' /\ \A p \in Part : Accounted(p)'
<1>1. /\ orders[o] = NoOrder /\ orders'[o] = order /\ order.status = "opened"
      /\ \A i \in Order \ {o} : orders'[i] = orders[i]
      /\ movements' = movements /\ parts' = parts
    BY DEF Open, Requestable, RowsTyped
<1>2. orders[o].status = "none"
    BY <1>1 DEF NoOrder
<1>3. \A m \in movements : m.order \in Order /\ m.order # o
    BY <1>1 DEF MovementsFollowOrders, RowsTyped, PartMovement
<1>4. \A i \in Order : Moved(i, "reserve")' <=> Moved(i, "reserve")
    BY <1>1 DEF Moved
<1>5. MovementsFollowOrders'
    <2>1. \A m \in movements : orders'[m.order] = orders[m.order]
        BY <1>1, <1>3
    <2>2. \A i \in Order : orders'[i].status \in { "executing", "verifying" } =>
              i # o /\ orders'[i] = orders[i]
        BY <1>1
    <2> QED
        BY <1>1, <1>4, <2>1, <2>2 DEF MovementsFollowOrders, UsesPart
<1>6. ASSUME NEW p \in Part
      PROVE  Accounted(p)'
    <2>1. o \notin Holding(p) /\ o \notin Holding(p)'
        BY <1>1, <1>2 DEF Holding, InWork, CancelledInWork
    <2>2. \A i \in Order \ {o} : i \in Holding(p)' <=> i \in Holding(p)
        BY <1>1, <1>4 DEF Holding, InWork, CancelledInWork
    <2>3. Promised(Holding(p))' = Promised(Holding(p))
        BY <1>1, <2>1, <2>2, NewPromises DEF Accounted
    <2>4. /\ Pieces(Moves(p, "reserve"))' = Pieces(Moves(p, "reserve"))
          /\ Pieces(Moves(p, "consume"))' = Pieces(Moves(p, "consume"))
        BY <1>1 DEF Moves, Pieces
    <2> QED
        BY <1>1, <2>3, <2>4 DEF Accounted
<1> QED
    BY <1>5, <1>6

\* Without a write of the three tables the accounts stand still.
LEMMA NothingMoves ==
    ASSUME MovementsFollowOrders, \A p \in Part : Accounted(p),
           UNCHANGED << orders, parts, movements >>
    PROVE  MovementsFollowOrders' /\ \A p \in Part : Accounted(p)'
<1>1. \A i \in Order : (Moved(i, "reserve")' <=> Moved(i, "reserve"))
                       /\ (UsesPart(i)' <=> UsesPart(i))
    BY DEF Moved, UsesPart
<1>2. MovementsFollowOrders'
    BY <1>1 DEF MovementsFollowOrders
<1>3. ASSUME NEW p \in Part
      PROVE  Accounted(p)'
    <2>1. Holding(p)' = Holding(p)
        BY <1>1 DEF Holding, InWork, CancelledInWork
    <2>2. Promised(Holding(p))' = Promised(Holding(p))
        BY <2>1 DEF Promised
    <2>3. /\ Pieces(Moves(p, "reserve"))' = Pieces(Moves(p, "reserve"))
          /\ Pieces(Moves(p, "consume"))' = Pieces(Moves(p, "consume"))
        BY DEF Moves, Pieces
    <2> QED
        BY <2>2, <2>3 DEF Accounted
<1> QED
    BY <1>2, <1>3

-----------------------------------------------------------------------------
\* The parts of the invariant, established and kept together, whatever happens
\* to the cells.
LEMMA AccountsInit ==
    ASSUME orders = [o \in Order |-> NoOrder], movements = {},
           parts = [p \in Part |-> [available |-> Stock[p], reserved |-> 0]]
    PROVE  AInv
<1>1. IInv
    BY MaintenanceAssumption DEF IInv, RowsTyped, ReservedPiecesExist, SparePart
<1>2. /\ movements = {} /\ \A o \in Order : orders[o].status = "none"
      /\ \A p \in Part : parts[p] = [available |-> Stock[p], reserved |-> 0]
    BY DEF NoOrder
<1>3. MovementsFollowOrders
    BY <1>2 DEF MovementsFollowOrders
<1>4. ASSUME NEW p \in Part
      PROVE  Accounted(p)
    <2>1. /\ Pieces(Moves(p, "reserve")) = {} /\ Pieces(Moves(p, "consume")) = {}
          /\ Promised(Holding(p)) = {}
        BY <1>2 DEF Pieces, Moves, Promised, Holding, InWork, CancelledInWork
    <2>2. IsFiniteSet({}) /\ Cardinality({}) = 0 /\ Stock[p] \in Nat
        BY FS_EmptySet, MaintenanceAssumption
    <2> DEFINE part == parts[p]
    <2>a. part = [available |-> Stock[p], reserved |-> 0]
        BY <1>2
    <2> HIDE DEF part
    <2>3. part.available = Stock[p] /\ part.reserved = 0
        BY <2>a
    <2> QED
        BY <2>1, <2>2, <2>3 DEF Accounted, part
<1> QED
    BY <1>1, <1>3, <1>4 DEF AInv

\* The rows, the movements and the accounts together are inductive.
LEMMA AccountsInduction ==
    ASSUME AInv, Next \/ UNCHANGED << orders, parts, movements >>
    PROVE  AInv'
<1>0. RowsTyped /\ MovementsFollowOrders /\ \A p \in Part : Accounted(p)
    BY DEF AInv, IInv
<1> SUFFICES MovementsFollowOrders' /\ \A p \in Part : Accounted(p)'
    BY RowsStep DEF AInv
<1>1. ASSUME NEW o \in Order, NEW role \in Role, NEW order \in Requestable,
             Open(o, order, role)
      PROVE  MovementsFollowOrders' /\ \A p \in Part : Accounted(p)'
    BY <1>0, <1>1, OpeningStep
<1>2. ASSUME NEW o \in Order, NEW role \in Role, NEW expected \in 1..MaxOrderVersion,
             NEW next \in Status, Advance(o, expected, next, role)
      PROVE  MovementsFollowOrders' /\ \A p \in Part : Accounted(p)'
    BY <1>0, <1>2, MovementsStep, AccountsStep
<1>3. ASSUME NEW c \in Cell, NEW next \in CellStatus, CellMoves(c, next)
      PROVE  MovementsFollowOrders' /\ \A p \in Part : Accounted(p)'
    BY <1>0, <1>3, NothingMoves DEF CellMoves
<1>4. CASE UNCHANGED << orders, parts, movements >>
    BY <1>0, <1>4, NothingMoves
<1> QED
    BY <1>1, <1>2, <1>3, <1>4 DEF Next

\* What the invariant says of stock, ledger and orders.
LEMMA AccountsImply ==
    ASSUME AInv
    PROVE  ReservedPiecesExist /\ LedgerBalances
           /\ ReservationsAreAccounted /\ VerifiedOrderCanClose
<1>1. ReservedPiecesExist /\ LedgerBalances /\ ReservationsAreAccounted
    BY DEF AInv, IInv, Accounted, Holding, LedgerBalances, ReservationsAreAccounted
<1>2. ASSUME NEW o \in Order, orders[o].status = "verifying", UsesPart(o)
      PROVE  CanConsume(o)
    <2> DEFINE p == orders[o].part
               B == {o} \X (1..orders[o].quantity)
    <2>0. RowsTyped /\ orders[o] # NoOrder
        BY <1>2 DEF AInv, IInv, NoOrder
    <2>1. p \in Part /\ orders[o].quantity \in Nat
        BY <1>2, <2>0, OrderParts DEF UsesPart
    <2>2. o \in Holding(p)
        BY <1>2 DEF Holding, InWork
    <2>3. B \subseteq Promised(Holding(p))
        BY <2>2 DEF Promised
    <2>4. /\ IsFiniteSet(Promised(Holding(p)))
          /\ parts[p].reserved = Cardinality(Promised(Holding(p)))
        BY <2>1 DEF AInv, Accounted
    <2>5. orders[o].quantity <= parts[p].reserved
        BY <2>1, <2>3, <2>4, FewerPieces
    <2>6. ~Moved(o, "consume")
        BY <1>2 DEF AInv, MovementsFollowOrders, Moved
    <2>7. parts[p].reserved \in Nat
        BY <2>0, <2>1, PartParts
    <2> QED
        BY <2>1, <2>5, <2>6, <2>7 DEF CanConsume
<1> QED
    BY <1>1, <1>2 DEF VerifiedOrderCanClose

-----------------------------------------------------------------------------
\* Tables and movements account for each other, whatever is opened and advanced.
THEOREM AccountsInvariant == Spec => []AInv
<1>1. Init => AInv
    BY AccountsInit DEF Init
<1>2. AInv /\ [Next]_vars => AInv'
    BY AccountsInduction DEF vars
<1> QED
    BY <1>1, <1>2, PTL DEF Spec

\* Stocks, reservations and versions are never negative, rows are rows.
THEOREM TypeCorrect == Spec => []TypeOK
<1>1. Init => TypeOK /\ AInv
    BY AccountsInit DEF Init, AInv, IInv, RowsTyped, TypeOK
<1>2. TypeOK /\ AInv /\ [Next]_vars => (TypeOK /\ AInv)'
    <2> SUFFICES ASSUME TypeOK, AInv, AInv', [Next]_vars
                 PROVE  cellStatus' \in [Cell -> CellStatus]
        BY AccountsInduction DEF vars, AInv, IInv, RowsTyped, TypeOK
    <2>1. ASSUME NEW c \in Cell, NEW from, NEW to \in CellStatus, SwitchCell(c, from, to)
          PROVE  cellStatus' \in [Cell -> CellStatus]
        BY <2>1 DEF SwitchCell, TypeOK
    <2>2. ASSUME NEW o \in Order, NEW expected, NEW next \in Status, NEW role,
                 Advance(o, expected, next, role)
          PROVE  cellStatus' \in [Cell -> CellStatus]
        <3>1. orders[o].cell \in Cell
            BY <2>2, OrderParts DEF Advance, AInv, IInv
        <3>2. {"maintenance", "production"} \subseteq CellStatus
            BY DEF CellStatus
        <3>3. CASE StartWork(o) \/ FinishWork(o)
            BY <2>1, <3>1, <3>2, <3>3 DEF StartWork, FinishWork, TypeOK
        <3>4. CASE UNCHANGED cellStatus
            BY <3>4 DEF TypeOK
        <3> QED
            BY <2>2, <3>3, <3>4 DEF Advance
    <2> QED
        BY <2>2 DEF Next, Open, CellMoves, vars, TypeOK
<1> QED
    BY <1>1, <1>2, PTL DEF Spec

\* Whatever orders compete for a part, what AdvanceMaintenance has reserved of it
\* is in the stock.
THEOREM ReservationsAreBacked == Spec => []ReservedPiecesExist
<1>1. AInv => ReservedPiecesExist
    BY AccountsImply
<1> QED
    BY <1>1, AccountsInvariant, PTL

\* Both columns of spare_parts are what the movements add up to (LedgerBalances).
THEOREM StockFollowsTheLedger == Spec => []LedgerBalances
<1>1. AInv => LedgerBalances
    BY AccountsImply
<1> QED
    BY <1>1, AccountsInvariant, PTL

\* Each reserved piece is in the stock and belongs to one order, in work or
\* cancelled in work (ReservationsAreAccounted).
THEOREM EveryPieceHasItsOrder == Spec => []ReservationsAreAccounted
<1>1. AInv => ReservationsAreAccounted
    BY AccountsImply
<1> QED
    BY <1>1, AccountsInvariant, PTL

\* Closing an order that was verified finds its pieces reserved and its movement
\* not yet written (VerifiedOrderCanClose).
THEOREM VerifiedOrdersClose == Spec => []VerifiedOrderCanClose
<1>1. AInv => VerifiedOrderCanClose
    BY AccountsImply
<1> QED
    BY <1>1, AccountsInvariant, PTL

=============================================================================
