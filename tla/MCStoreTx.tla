------------------------------ MODULE MCStoreTx ------------------------------
(***************************************************************************)
(* Two transactions on two objects and a job, and one rejected request at  *)
(* a time: both transactions can read one state and try to write on it, on *)
(* one row or on several, or to claim one job, while a rejection or a      *)
(* single statement commits between them.  Three events are one more than  *)
(* may link to one event.  Transactions and objects are interchangeable,   *)
(* and no property is about liveness.                                      *)
(***************************************************************************)
EXTENDS StoreTx, TLC

MCSymmetry == Permutations(Transaction) \cup Permutations(Object)

=============================================================================
