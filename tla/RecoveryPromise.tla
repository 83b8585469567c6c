--------------------------- MODULE RecoveryPromise ---------------------------
(***************************************************************************)
(* What the recovery queue promises to who files a job: it is open until   *)
(* it is settled, once and for ever, and it is settled as succeeded only   *)
(* if a handler did its work.  Workers, leases, attempts and time are      *)
(* RecoveryQueue's business, which implements this.                        *)
(***************************************************************************)
CONSTANT Job

VARIABLES
    outcome,         \* what a reader of recovery_jobs is told of each job
    handled          \* jobs a handler has returned success for

vars == << outcome, handled >>

-----------------------------------------------------------------------------
Settlement == { "succeeded", "permanent_failed", "cancelled" }

Init ==
    /\ outcome = [j \in Job |-> "absent"]
    /\ handled = {}

Open(j) ==
    /\ outcome[j] = "absent"
    /\ outcome' = [outcome EXCEPT ![j] = "open"]
    /\ UNCHANGED handled

\* A handler may finish at any time, long after the job was settled.
Handle(j) ==
    /\ outcome[j] # "absent"
    /\ handled' = handled \cup {j}
    /\ UNCHANGED outcome

Settle(j, settlement) ==
    /\ outcome[j] = "open"
    /\ settlement = "succeeded" => j \in handled
    /\ outcome' = [outcome EXCEPT ![j] = settlement]
    /\ UNCHANGED handled

Next ==
    \E j \in Job : \/ Open(j) \/ Handle(j)
                   \/ \E settlement \in Settlement : Settle(j, settlement)

Spec == Init /\ [][Next]_vars

=============================================================================
