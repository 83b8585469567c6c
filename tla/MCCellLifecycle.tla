-------------------------- MODULE MCCellLifecycle --------------------------
(***************************************************************************)
(* One cell: CellLifecycle's operations never look at two.  The shortest   *)
(* life retires it at version 11; the bound in the cfg leaves three more   *)
(* writes, enough for a return to an earlier phase and back on the way.    *)
(***************************************************************************)
EXTENDS CellLifecycle
=============================================================================
