------------------------------ MODULE Identity ------------------------------
(***************************************************************************)
(* The six roles a principal can have (internal/identity).  Every service  *)
(* method admits a set of roles; a request from another role changes       *)
(* nothing but the audit log, which AuditLog models.                       *)
(***************************************************************************)

Role == { "line_manager", "operator", "safety_officer", "quality_engineer",
          "maintenance_engineer", "integrator" }

=============================================================================
