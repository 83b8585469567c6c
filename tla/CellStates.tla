----------------------------- MODULE CellStates -----------------------------
(***************************************************************************)
(* The statuses of a robot cell and the moves between them                 *)
(* (internal/lifecycle).                                                   *)
(***************************************************************************)

CellStatus == { "surveyed", "proposed", "approved", "scheduled", "installing",
                "calibrating", "safety_review", "production", "maintenance",
                "retired" }

\* Mutant: a cell may skip its installation.
cellTransitionsWithShortcut ==
    { << "surveyed", "proposed" >>, << "proposed", "approved" >>,
      << "approved", "scheduled" >>, << "scheduled", "calibrating" >>,
      << "calibrating", "safety_review" >>, << "safety_review", "production" >>,
      << "production", "retired" >> }

cellTransitions ==
    { << "surveyed", "proposed" >>,
      << "proposed", "approved" >>, << "proposed", "surveyed" >>,
      << "approved", "scheduled" >>,
      << "scheduled", "installing" >>, << "scheduled", "approved" >>,
      << "installing", "calibrating" >>, << "installing", "scheduled" >>,
      << "calibrating", "safety_review" >>, << "calibrating", "installing" >>,
      << "safety_review", "production" >>, << "safety_review", "calibrating" >>,
      << "production", "maintenance" >>, << "production", "retired" >>,
      << "maintenance", "production" >>, << "maintenance", "retired" >> }

=============================================================================
