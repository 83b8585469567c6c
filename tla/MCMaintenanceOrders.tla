------------------------ MODULE MCMaintenanceOrders ------------------------
(***************************************************************************)
(* Two orders that compete for three pieces of one part and for one cell:  *)
(* any two orders of two pieces exceed the stock, other pairs do not.      *)
(***************************************************************************)
EXTENDS MaintenanceOrders

MCStock == [p \in Part |-> 3]

=============================================================================
