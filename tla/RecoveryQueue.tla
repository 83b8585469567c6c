--------------------------- MODULE RecoveryQueue ---------------------------
(***************************************************************************)
(* The queue of recovery jobs and the workers that serve it:               *)
(* internal/recovery, internal/store/recovery.go, internal/worker and the  *)
(* producer of the jobs, Lifecycle.ReportCalibrationFailure.               *)
(*                                                                         *)
(* Every statement on recovery_jobs is a transaction, so an action; what a *)
(* worker does between two of them is an action too, because the row may   *)
(* change meanwhile.  Time is kept as what is left of it: next_attempt_at  *)
(* and lease_until count down to now, in whole seconds, and stay there.    *)
(* The worker takes the job that has been due for longest; as the due ones *)
(* are all at 0 here, it takes any of them.                                *)
(***************************************************************************)
EXTENDS Naturals, FiniteSets

CONSTANTS
    Job,             \* jobs, by idempotency key
    Worker,
    Owner,           \* the name each worker writes into lease_owner
    MaxAttempts,     \* max_attempts of every job
    Lease,           \* seconds a claim lasts
    MaxFaults        \* bound on lost claims: TLC allows no more of them

ASSUME RecoveryAssumption ==
    /\ MaxAttempts \in Nat \ {0} /\ Lease \in Nat \ {0} /\ MaxFaults \in Nat
    /\ IsFiniteSet(Worker)
    /\ \A w \in Worker : Owner[w] # ""

VARIABLES
    jobs,            \* recovery_jobs, by key
    workers,         \* where each worker is in drainOne
    handled,         \* jobs a handler has returned success for
    faults           \* claims lost so far, to a worker's end or to its slowness

vars == << jobs, workers, handled, faults >>

-----------------------------------------------------------------------------
Status == { "pending", "running", "retry_wait", "succeeded",
            "permanent_failed", "cancelled" }

Settled == { "succeeded", "permanent_failed", "cancelled" }

Name == { Owner[w] : w \in Worker }

Doubling == << 1, 2, 4, 8, 16, 32, 64, 128 >>

Backoff(attempt) ==
    Doubling[IF attempt < 1 THEN 1 ELSE IF attempt > 8 THEN 8 ELSE attempt]

\* left: what is left until next_attempt_at, or of the lease of a running job.
JobRow == [status : Status, attempts : Nat, left : Nat, owner : Name \cup {""}]

NoJob == [status |-> "none"]         \* the key is not in the table

NewJob == [status |-> "pending", attempts |-> 0, left |-> 0, owner |-> ""]

Idle == [stage |-> "idle"]

\* The job a worker holds, as it read it: with its own attempt.
Busy == [stage : { "handling", "succeeded", "failed" }, job : Job, attempt : Nat]

-----------------------------------------------------------------------------
Init ==
    /\ jobs = [j \in Job |-> NoJob]
    /\ workers = [w \in Worker |-> Idle]
    /\ handled = {}
    /\ faults = 0

\* ReportCalibrationFailure and CreateRecoveryJob.  A key already in the table
\* returns its job and changes nothing.
CreateRecoveryJob(j) ==
    /\ jobs[j] = NoJob
    /\ jobs' = [jobs EXCEPT ![j] = NewJob]
    /\ UNCHANGED << workers, handled, faults >>

\* What every UPDATE that ends a claim does; left is 0 where it is not read again.
Release(j, status, left) ==
    jobs' = [jobs EXCEPT ![j] = [status |-> status, attempts |-> @.attempts,
                                 left |-> left, owner |-> ""]]

\* Mutant: cancelling does not look at the status.
CancelAnyTime(j) ==
    /\ jobs[j] # NoJob
    /\ Release(j, "cancelled", 0)
    /\ UNCHANGED << workers, handled, faults >>

\* Exported by the store; no service calls it yet.
CancelRecoveryJob(j) ==
    /\ jobs[j].status \in { "pending", "retry_wait" }
    /\ Release(j, "cancelled", 0)
    /\ UNCHANGED << workers, handled, faults >>

\* Mutant: a running job can be claimed before its lease is over.
ClaimableWhileLeased(row) ==
    \/ row.status \in { "pending", "retry_wait" } /\ row.left = 0
    \/ row.status = "running"

\* Mutant: a running job is never claimed again.
ClaimableOnce(row) == row.status \in { "pending", "retry_wait" } /\ row.left = 0

ClaimableAt(row) ==
    row.status \in { "pending", "retry_wait", "running" } /\ row.left = 0

\* ClaimRecoveryJob: SELECT, conditional UPDATE and SELECT in one transaction.
ClaimRecoveryJob(w, j) ==
    /\ workers[w] = Idle
    /\ jobs[j] # NoJob /\ ClaimableAt(jobs[j])
    /\ jobs' = [jobs EXCEPT ![j] = [status |-> "running", attempts |-> @.attempts + 1,
                                    left |-> Lease, owner |-> Owner[w]]]
    /\ workers' = [workers EXCEPT ![w] = [stage |-> "handling", job |-> j,
                                          attempt |-> jobs[j].attempts + 1]]
    /\ UNCHANGED << handled, faults >>

\* The handler returns; a kind without a handler fails, and so does a handler
\* that meets its deadline.
HandlerReturns(w, outcome) ==
    /\ workers[w].stage = "handling"
    /\ workers' = [workers EXCEPT ![w].stage = outcome]
    /\ handled' = IF outcome = "succeeded" THEN handled \cup { workers[w].job } ELSE handled
    /\ UNCHANGED << jobs, faults >>

\* Mutant: the update does not ask who holds the lease.
OwnsWhateverRuns(w, row) == row.status = "running"

\* The WHERE of Complete and of Fail; where it fails they report a conflict.
Owns(w, row) == row.status = "running" /\ row.owner = Owner[w]

CompleteRecoveryJob(w) ==
    /\ workers[w].stage = "succeeded"
    /\ LET j == workers[w].job
       IN  IF Owns(w, jobs[j]) THEN Release(j, "succeeded", 0) ELSE UNCHANGED jobs
    /\ workers' = [workers EXCEPT ![w] = Idle]
    /\ UNCHANGED << handled, faults >>

\* Mutant: the last attempt is retried like the others.
FailOneTooLate(w) ==
    /\ workers[w].stage = "failed"
    /\ LET j == workers[w].job
           attempt == workers[w].attempt
       IN  IF ~Owns(w, jobs[j]) THEN UNCHANGED jobs
           ELSE IF attempt > MaxAttempts THEN Release(j, "permanent_failed", 0)
           ELSE Release(j, "retry_wait", Backoff(attempt))
    /\ workers' = [workers EXCEPT ![w] = Idle]
    /\ UNCHANGED << handled, faults >>

\* The attempt is the worker's, not the row's.
FailRecoveryJob(w) ==
    /\ workers[w].stage = "failed"
    /\ LET j == workers[w].job
           attempt == workers[w].attempt
       IN  IF ~Owns(w, jobs[j]) THEN UNCHANGED jobs
           ELSE IF attempt >= MaxAttempts THEN Release(j, "permanent_failed", 0)
           ELSE Release(j, "retry_wait", Backoff(attempt))
    /\ workers' = [workers EXCEPT ![w] = Idle]
    /\ UNCHANGED << handled, faults >>

\* The worker's process dies and is restarted, its context is cancelled, or the
\* database refuses the last update: in each case the row stays as it is.
Abandon(w) ==
    /\ workers[w] # Idle /\ faults < MaxFaults
    /\ workers' = [workers EXCEPT ![w] = Idle]
    /\ faults' = faults + 1
    /\ UNCHANGED << jobs, handled >>

\* Workers whose lease is over in a second.
Overrunning ==
    { w \in Worker : /\ workers[w] # Idle
                     /\ Owns(w, jobs[workers[w].job])
                     /\ jobs[workers[w].job].left = 1 }

Tick ==
    /\ faults + Cardinality(Overrunning) <= MaxFaults
    /\ jobs' = [j \in Job |-> IF jobs[j] # NoJob /\ jobs[j].left > 0
                              THEN [jobs[j] EXCEPT !.left = @ - 1] ELSE jobs[j]]
    /\ faults' = faults + Cardinality(Overrunning)
    /\ UNCHANGED << workers, handled >>

WorkerStep(w) ==
    \/ \E j \in Job : ClaimRecoveryJob(w, j)
    \/ \E outcome \in { "succeeded", "failed" } : HandlerReturns(w, outcome)
    \/ CompleteRecoveryJob(w)
    \/ FailRecoveryJob(w)

Next ==
    \/ \E j \in Job : CreateRecoveryJob(j) \/ CancelRecoveryJob(j)
    \/ \E w \in Worker : WorkerStep(w) \/ Abandon(w)
    \/ Tick

Spec == Init /\ [][Next]_vars

\* Time passes; a worker's ticker keeps calling drainOne, which ends because
\* its handler has a deadline; a dead worker is restarted.
FairSpec == Spec /\ WF_vars(Tick) /\ \A w \in Worker : WF_vars(WorkerStep(w))

-----------------------------------------------------------------------------
TypeOK ==
    /\ jobs \in [Job -> JobRow \cup {NoJob}]
    /\ workers \in [Worker -> Busy \cup {Idle}]
    /\ handled \subseteq Job
    /\ faults \in Nat

\* A job reported as succeeded was handled with success, whichever worker
\* wrote the status and whoever else was still working on the job.
SuccessWasHandled == \A j \in Job : jobs[j].status = "succeeded" => j \in handled

\* Retries are limited: beyond max_attempts a job is tried again only for a
\* claim that was lost, and it is given up only after all its attempts.
RetriesAreLimited ==
    \A j \in Job : jobs[j] # NoJob =>
        /\ jobs[j].attempts <= MaxAttempts + faults
        /\ jobs[j].status = "permanent_failed" => jobs[j].attempts >= MaxAttempts

Holders(j) == { w \in Worker : workers[w] # Idle /\ workers[w].job = j }

\* Two workers are on one job only after a claim was lost, and never with the
\* same attempt: SQLite lets one of two concurrent claims win.
ClaimsAreExclusive ==
    \A j \in Job : \A v, w \in Holders(j) :
        v # w => faults > 0 /\ workers[v].attempt # workers[w].attempt

\* A late worker cannot reopen a job: what is succeeded, given up or cancelled
\* stays so, though a worker whose lease was lost may still report its end.
SettledIsFinal ==
    [][\A j \in Job : jobs[j].status \in Settled => jobs'[j] = jobs[j]]_vars

NamedAlone(w) == \A v \in Worker : Owner[v] = Owner[w] => v = w

\* Only the worker of the latest claim ends a running job, unless it is one that
\* shares its name: a worker with a name of its own that has lost its lease to
\* another one changes nothing, though workers under one name end each other's
\* claims.
EndedByItsClaimant ==
    [][\A j \in Job : jobs[j].status = "running" /\ jobs'[j].status # "running" =>
          \E w \in Holders(j) :
              /\ NamedAlone(w) => workers[w].attempt = jobs[j].attempts
              /\ workers'[w] = Idle]_vars

\* What a reader of the table is told of a job.
Outcome(row) ==
    IF row = NoJob THEN "absent"
    ELSE IF row.status \in Settled THEN row.status ELSE "open"

Promise == INSTANCE RecoveryPromise WITH outcome <- [j \in Job |-> Outcome(jobs[j])]

\* With all its leases, retries, late workers and shared names the queue is
\* what its callers take it for: a job opens once, is settled at most once and
\* is called succeeded only if a handler did the work.
KeepsThePromise == Promise!Spec

\* Every job is settled in the end: it succeeds, is given up or is cancelled,
\* provided only finitely many claims are lost.
EveryJobSettles ==
    \A j \in Job : jobs[j] # NoJob ~> jobs[j].status \in Settled

=============================================================================
