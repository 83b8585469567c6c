------------------------------ MODULE MCServer ------------------------------
(***************************************************************************)
(* Two processes that may start on one new database at the same time; two  *)
(* migrations as in the repository, two of the bootstrap's six users, and  *)
(* one request each.                                                       *)
(***************************************************************************)
EXTENDS Server
=============================================================================
