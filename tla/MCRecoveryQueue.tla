-------------------------- MODULE MCRecoveryQueue --------------------------
(***************************************************************************)
(* Workers 1 and 2 share a name, as server processes on one database do;   *)
(* worker 3 has a name of its own, as workers of the repository's tests do. *)
(* Two attempts and two lost claims let a job go through a retry, an overrun *)
(* lease, a second claim and a late answer.                                *)
(***************************************************************************)
EXTENDS RecoveryQueue

MCOwner == [w \in Worker |-> IF w = 3 THEN "own-worker" ELSE "server-worker"]

=============================================================================
