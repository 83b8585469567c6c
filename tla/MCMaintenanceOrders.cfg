SPECIFICATION Spec
CONSTANTS
    Order = {o1, o2}
    Cell = {c1}
    Assignee = {qualified, unqualified}
    MaintenanceQualified = {qualified}
    Part = {p1}
    NoPart = NoPart
    Stock <- MCStock
    MaxQuantity = 2
    MaxOrderVersion = 8
INVARIANTS
    LedgerBalances
    VerifiedOrderCanClose
    ReservationsAreAccounted
CHECK_DEADLOCK FALSE
