------------------------ MODULE RecoveryQueueProofs ------------------------
(***************************************************************************)
(* For any jobs, workers, limits and leases: a settled job stays settled,  *)
(* success is never reported without a handler's success, and a worker     *)
(* with a name of its own ends a running job under its latest claim only.  *)
(* Attempts go beyond their limit, and workers share a job, only for as    *)
(* many claims as were lost.                                               *)
(***************************************************************************)
EXTENDS RecoveryQueue, FiniteSetTheorems, TLAPS

\* A settled job waits for nothing, so time does not change its row.
SettledIsDue == \A j \in Job : jobs[j].status \in Settled => jobs[j].left = 0

\* A worker whose handler succeeded has left its mark.
SuccessLeavesAMark ==
    \A w \in Worker : workers[w].stage = "succeeded" => workers[w].job \in handled

IInv == TypeOK /\ SettledIsDue /\ SuccessLeavesAMark /\ SuccessWasHandled

\* A worker with a name of its own that still owns its job's row made the
\* row's latest claim.
OwnersAreLatest ==
    \A w \in Worker :
        NamedAlone(w) /\ workers[w] # Idle /\ Owns(w, jobs[workers[w].job])
            => workers[w].attempt = jobs[workers[w].job].attempts

\* A backoff is a number of time units, the cap included.
LEMMA BackoffIsNatural ==
    ASSUME NEW attempt \in Nat
    PROVE  Backoff(attempt) \in Nat
<1> DEFINE n == IF attempt < 1 THEN 1 ELSE IF attempt > 8 THEN 8 ELSE attempt
<1>1. n \in 1..8
    OBVIOUS
<1>2. \A i \in 1..8 : Doubling[i] \in Nat
    <2> SUFFICES ASSUME NEW i \in 1..8
                 PROVE  Doubling[i] \in Nat
        OBVIOUS
    <2>1. i = 1 \/ i = 2 \/ i = 3 \/ i = 4 \/ i = 5 \/ i = 6 \/ i = 7 \/ i = 8
        OBVIOUS
    <2> QED
        BY <2>1 DEF Doubling
<1> QED
    BY <1>1, <1>2 DEF Backoff

\* What a worker holds and what its row is.
LEMMA HeldJob ==
    ASSUME TypeOK, NEW w \in Worker, workers[w] # Idle
    PROVE  /\ workers[w] \in Busy /\ workers[w].job \in Job /\ workers[w].attempt \in Nat
           /\ jobs[workers[w].job] \in JobRow \cup {NoJob}
    BY DEF TypeOK, Busy

\* The fields of a row, and a row from its fields.
LEMMA RowFields ==
    ASSUME NEW row \in JobRow
    PROVE  /\ row.status \in Status /\ row.attempts \in Nat
           /\ row.left \in Nat /\ row.owner \in Name \cup {""}
    BY DEF JobRow

\* A row put together from its fields.
LEMMA RowFromFields ==
    ASSUME NEW status \in Status, NEW attempts \in Nat,
           NEW left \in Nat, NEW owner \in Name \cup {""}
    PROVE  [status |-> status, attempts |-> attempts, left |-> left, owner |-> owner]
               \in JobRow
    BY DEF JobRow

\* A worker in one of the stages of a claim is not idle.
LEMMA StagedIsBusy ==
    ASSUME NEW w, workers[w].stage \in { "handling", "succeeded", "failed" }
    PROVE  workers[w] # Idle
    BY DEF Idle

\* An update that ends a claim, as it meets the rows.
LEMMA Released ==
    ASSUME TypeOK, NEW j \in Job, jobs[j] # NoJob,
           NEW status \in Status, NEW left \in Nat, Release(j, status, left)
    PROVE  /\ jobs' \in [Job -> JobRow \cup {NoJob}]
           /\ jobs'[j] = [status |-> status, attempts |-> jobs[j].attempts,
                          left |-> left, owner |-> ""]
           /\ jobs'[j].status = status /\ jobs'[j].left = left
           /\ jobs'[j].attempts = jobs[j].attempts
           /\ \A i \in Job \ {j} : jobs'[i] = jobs[i]
<1>1. jobs[j] \in JobRow
    BY DEF TypeOK
<1>2. jobs'[j] = [status |-> status, attempts |-> jobs[j].attempts,
                  left |-> left, owner |-> ""]
    BY <1>1 DEF TypeOK, Release, JobRow
<1>a. jobs[j].attempts \in Nat /\ "" \in Name \cup {""}
    BY <1>1 DEF JobRow
<1>3. jobs'[j] \in JobRow
    BY <1>2, <1>a, RowFromFields
<1>4. /\ DOMAIN jobs' = Job /\ jobs' = [i \in Job |-> jobs'[i]]
      /\ \A i \in Job \ {j} : jobs'[i] = jobs[i]
    BY DEF TypeOK, Release
<1> DEFINE row == jobs'[j]
<1>5. row = [status |-> status, attempts |-> jobs[j].attempts,
             left |-> left, owner |-> ""]
    BY <1>2
<1> HIDE DEF row
<1>6. row.status = status /\ row.left = left /\ row.attempts = jobs[j].attempts
    BY <1>5
<1> QED
    BY <1>2, <1>3, <1>4, <1>6 DEF TypeOK, row

\* What each worker's update does to the job it holds: nothing, or one release.
LEMMA Ended ==
    ASSUME TypeOK, NEW w \in Worker, CompleteRecoveryJob(w) \/ FailRecoveryJob(w)
    PROVE  /\ workers[w] # Idle /\ workers[w].job \in Job
           /\ \/ jobs' = jobs
              \/ /\ Owns(w, jobs[workers[w].job])
                 /\ \E status \in { "succeeded", "permanent_failed", "retry_wait" }, left \in Nat :
                      /\ status = "succeeded" => workers[w].stage = "succeeded"
                      /\ status # "retry_wait" => left = 0
                      /\ Release(workers[w].job, status, left)
<1>1. workers[w] # Idle
    BY StagedIsBusy DEF CompleteRecoveryJob, FailRecoveryJob
<1>2. workers[w].job \in Job /\ workers[w].attempt \in Nat
    BY <1>1, HeldJob
<1>3. Backoff(workers[w].attempt) \in Nat /\ 0 \in Nat
    BY <1>2, BackoffIsNatural
<1>4. CASE CompleteRecoveryJob(w)
    BY <1>1, <1>2, <1>3, <1>4 DEF CompleteRecoveryJob
<1>5. CASE FailRecoveryJob(w)
    BY <1>1, <1>2, <1>3, <1>5 DEF FailRecoveryJob
<1> QED
    BY <1>4, <1>5

\* A claim: the row and the worker carry the same attempt.
LEMMA Claimed ==
    ASSUME TypeOK, NEW w \in Worker, NEW j \in Job, ClaimRecoveryJob(w, j)
    PROVE  /\ jobs' \in [Job -> JobRow \cup {NoJob}]
           /\ jobs[j] \in JobRow /\ jobs[j].status \notin Settled
           /\ jobs'[j] = [status |-> "running", attempts |-> jobs[j].attempts + 1,
                          left |-> Lease, owner |-> Owner[w]]
           /\ jobs'[j].status = "running" /\ jobs'[j].owner = Owner[w]
           /\ jobs'[j].attempts = jobs[j].attempts + 1
           /\ \A i \in Job \ {j} : jobs'[i] = jobs[i]
           /\ workers' \in [Worker -> Busy \cup {Idle}]
           /\ workers'[w] = [stage |-> "handling", job |-> j,
                             attempt |-> jobs[j].attempts + 1]
           /\ workers'[w].stage = "handling" /\ workers'[w].job = j
           /\ workers'[w].attempt = jobs[j].attempts + 1
           /\ \A v \in Worker \ {w} : workers'[v] = workers[v]
<1>1. jobs[j] \in JobRow /\ jobs[j].status \notin Settled
    BY DEF TypeOK, ClaimRecoveryJob, ClaimableAt, Settled
<1>b. jobs[j].attempts \in Nat
    BY <1>1, RowFields
<1>0. jobs[j].attempts + 1 \in Nat
    BY <1>b
<1>a. "running" \in Status /\ Lease \in Nat /\ Owner[w] \in Name \cup {""}
    BY RecoveryAssumption DEF Status, Name
<1>2. [status |-> "running", attempts |-> jobs[j].attempts + 1,
       left |-> Lease, owner |-> Owner[w]] \in JobRow
    BY <1>0, <1>a, RowFromFields
<1>3. [stage |-> "handling", job |-> j, attempt |-> jobs[j].attempts + 1] \in Busy
    BY <1>0 DEF Busy
<1> DEFINE row == jobs'[j]
          held == workers'[w]
<1>4. /\ row = [status |-> "running", attempts |-> jobs[j].attempts + 1,
                left |-> Lease, owner |-> Owner[w]]
      /\ held = [stage |-> "handling", job |-> j, attempt |-> jobs[j].attempts + 1]
    BY DEF TypeOK, ClaimRecoveryJob
<1> HIDE DEF row, held
<1>5. /\ row.status = "running" /\ row.owner = Owner[w]
      /\ row.attempts = jobs[j].attempts + 1
    BY <1>4
<1>6. /\ held.stage = "handling" /\ held.job = j
      /\ held.attempt = jobs[j].attempts + 1
    BY <1>4
<1>7. /\ jobs' \in [Job -> JobRow \cup {NoJob}] /\ \A i \in Job \ {j} : jobs'[i] = jobs[i]
      /\ workers' \in [Worker -> Busy \cup {Idle}]
      /\ \A v \in Worker \ {w} : workers'[v] = workers[v]
    BY <1>2, <1>3 DEF TypeOK, ClaimRecoveryJob
<1> QED
    BY <1>1, <1>4, <1>5, <1>6, <1>7 DEF row, held

\* A second passes: every row keeps all but what is left.
LEMMA Ticked ==
    ASSUME TypeOK, Tick
    PROVE  /\ jobs' \in [Job -> JobRow \cup {NoJob}]
           /\ \A j \in Job : /\ jobs'[j].status = jobs[j].status
                             /\ jobs'[j].attempts = jobs[j].attempts
                             /\ jobs'[j].owner = jobs[j].owner
                             /\ jobs[j] = NoJob \/ jobs[j].left = 0 => jobs'[j] = jobs[j]
           /\ faults' \in Nat
<1>1. ASSUME NEW j \in Job
      PROVE  /\ jobs'[j] \in JobRow \cup {NoJob}
             /\ jobs'[j].status = jobs[j].status
             /\ jobs'[j].attempts = jobs[j].attempts
             /\ jobs'[j].owner = jobs[j].owner
             /\ jobs[j] = NoJob \/ jobs[j].left = 0 => jobs'[j] = jobs[j]
    <2>1. CASE jobs[j] # NoJob /\ jobs[j].left > 0
        <3>1. jobs[j] \in JobRow
            BY <2>1 DEF TypeOK
        <3>2. jobs'[j] = [jobs[j] EXCEPT !.left = @ - 1]
            BY <2>1 DEF Tick
        <3>a. /\ jobs[j].status \in Status /\ jobs[j].attempts \in Nat
              /\ jobs[j].left \in Nat /\ jobs[j].owner \in Name \cup {""}
            BY <3>1, RowFields
        <3>b. jobs[j].left \in Nat /\ jobs[j].left > 0
            BY <2>1, <3>a
        <3>3. jobs[j].left - 1 \in Nat
            BY <3>b
        <3>4. jobs'[j] = [status |-> jobs[j].status, attempts |-> jobs[j].attempts,
                          left |-> jobs[j].left - 1, owner |-> jobs[j].owner]
            BY <3>1, <3>2 DEF JobRow
        <3>5. jobs'[j] \in JobRow
            BY <3>a, <3>3, <3>4, RowFromFields
        <3>6. jobs[j].left # 0
            BY <3>b
        <3> QED
            BY <2>1, <3>4, <3>5, <3>6
    <2>2. CASE ~(jobs[j] # NoJob /\ jobs[j].left > 0)
        BY <2>2 DEF Tick, TypeOK
    <2> QED
        BY <2>1, <2>2
<1>2. jobs' = [j \in Job |-> jobs'[j]]
    BY DEF Tick
<1>3. Cardinality(Overrunning) \in Nat
    BY RecoveryAssumption, FS_CardinalityType, FS_Subset DEF Overrunning
<1> QED
    BY <1>1, <1>2, <1>3 DEF Tick, TypeOK

\* The rows a step may change, and how, seen from one job.
LEMMA RowChanges ==
    ASSUME TypeOK, SettledIsDue, [Next]_vars, NEW j \in Job,
           jobs'[j] # jobs[j]
    PROVE  /\ jobs[j].status \notin Settled
           /\ jobs'[j].status = "succeeded" =>
                 \E w \in Worker : workers[w].stage = "succeeded" /\ workers[w].job = j
           /\ jobs'[j].status \in Settled => jobs'[j].left = 0
<1>1. ASSUME NEW i \in Job, CreateRecoveryJob(i)
      PROVE  /\ jobs[j] = NoJob /\ jobs'[j] = NewJob
    BY <1>1 DEF CreateRecoveryJob, TypeOK
<1>2. ASSUME NEW i \in Job, CancelRecoveryJob(i)
      PROVE  /\ jobs[j].status \in { "pending", "retry_wait" }
             /\ jobs'[j].status = "cancelled" /\ jobs'[j].left = 0
    <2>1. jobs[i] # NoJob
        BY <1>2 DEF CancelRecoveryJob, NoJob
    <2>2. "cancelled" \in Status /\ 0 \in Nat
        BY DEF Status
    <2>3. /\ jobs'[i].status = "cancelled" /\ jobs'[i].left = 0
          /\ \A k \in Job \ {i} : jobs'[k] = jobs[k]
        BY <1>2, <2>1, <2>2, Released DEF CancelRecoveryJob
    <2>4. i = j
        BY <2>3
    <2> QED
        BY <1>2, <2>3, <2>4 DEF CancelRecoveryJob
<1>3. ASSUME NEW w \in Worker, NEW i \in Job, ClaimRecoveryJob(w, i)
      PROVE  jobs[j].status \notin Settled /\ jobs'[j].status = "running"
    <2>1. jobs[i].status \notin Settled
        BY <1>3, Claimed
    <2>2. jobs'[i].status = "running"
        BY <1>3, Claimed
    <2>3. \A k \in Job \ {i} : jobs'[k] = jobs[k]
        BY <1>3 DEF ClaimRecoveryJob, TypeOK
    <2> QED
        BY <2>1, <2>2, <2>3
<1>4. ASSUME NEW w \in Worker, CompleteRecoveryJob(w) \/ FailRecoveryJob(w)
      PROVE  /\ jobs[j].status = "running" /\ workers[w].job = j
             /\ jobs'[j].status = "succeeded" => workers[w].stage = "succeeded"
             /\ jobs'[j].status # "retry_wait" => jobs'[j].left = 0
    <2>1. PICK status \in { "succeeded", "permanent_failed", "retry_wait" }, left \in Nat :
              /\ status = "succeeded" => workers[w].stage = "succeeded"
              /\ status # "retry_wait" => left = 0
              /\ Release(workers[w].job, status, left)
              /\ Owns(w, jobs[workers[w].job])
        BY <1>4, Ended
    <2>2. workers[w].job \in Job /\ jobs[workers[w].job] # NoJob /\ status \in Status
        BY <1>4, <2>1, Ended DEF Owns, NoJob, Status
    <2> DEFINE i == workers[w].job
    <2>a. Release(i, status, left) /\ i \in Job /\ jobs[i] # NoJob
        BY <2>1, <2>2
    <2> HIDE DEF i
    <2>3. /\ jobs'[i].status = status /\ jobs'[i].left = left
          /\ \A k \in Job \ {i} : jobs'[k] = jobs[k]
        BY <2>2, <2>a, Released
    <2>4. i = j
        BY <2>a, <2>3
    <2> QED
        BY <2>1, <2>3, <2>4 DEF i, Owns
<1>5. CASE Tick
    <2>1. jobs[j] # NoJob /\ jobs[j].left # 0 /\ jobs'[j].status = jobs[j].status
        BY <1>5, Ticked
    <2>2. jobs[j].status \notin Settled
        BY <2>1 DEF SettledIsDue
    <2> QED
        BY <2>1, <2>2 DEF Settled
<1>6. ASSUME NEW w \in Worker,
             Abandon(w) \/ \E outcome \in { "succeeded", "failed" } : HandlerReturns(w, outcome)
      PROVE  FALSE
    BY <1>6 DEF Abandon, HandlerReturns
<1>7. CASE UNCHANGED vars
    BY <1>7 DEF vars
<1>8. ASSUME NEW i \in Job, CreateRecoveryJob(i)
      PROVE  jobs[j].status \notin Settled /\ jobs'[j].status = "pending"
    <2>1. jobs[j] = NoJob /\ jobs'[j] = NewJob
        BY <1>1, <1>8
    <2>2. jobs[j].status = "none"
        BY <2>1 DEF NoJob
    <2> DEFINE row == jobs'[j]
    <2>3. row = NewJob
        BY <2>1
    <2> HIDE DEF row
    <2>4. row.status = "pending"
        BY <2>3 DEF NewJob
    <2> QED
        BY <2>2, <2>4 DEF row, Settled
<1>9. ASSUME NEW w \in Worker, CompleteRecoveryJob(w) \/ FailRecoveryJob(w)
      PROVE  /\ jobs[j].status \notin Settled
             /\ jobs'[j].status = "succeeded" =>
                   \E v \in Worker : workers[v].stage = "succeeded" /\ workers[v].job = j
             /\ jobs'[j].status \in Settled => jobs'[j].left = 0
    BY <1>4, <1>9 DEF Settled
<1> QED
    BY <1>2, <1>3, <1>5, <1>6, <1>7, <1>8, <1>9 DEF Next, WorkerStep, Settled

\* The type is inductive.
LEMMA TypeStep ==
    ASSUME TypeOK, [Next]_vars
    PROVE  TypeOK'
<1>1. ASSUME NEW j \in Job, CreateRecoveryJob(j)
      PROVE  TypeOK'
    <2>1. NewJob \in JobRow
        BY RowFromFields DEF NewJob, Status
    <2> QED
        BY <1>1, <2>1 DEF CreateRecoveryJob, TypeOK
<1>2. ASSUME NEW j \in Job, CancelRecoveryJob(j)
      PROVE  TypeOK'
    <2>1. jobs[j] # NoJob /\ "cancelled" \in Status /\ 0 \in Nat
        BY <1>2 DEF CancelRecoveryJob, NoJob, Status
    <2> QED
        BY <1>2, <2>1, Released DEF CancelRecoveryJob, TypeOK
<1>3. ASSUME NEW w \in Worker, NEW j \in Job, ClaimRecoveryJob(w, j)
      PROVE  TypeOK'
    BY <1>3, Claimed DEF ClaimRecoveryJob, TypeOK
<1>4. ASSUME NEW w \in Worker, CompleteRecoveryJob(w) \/ FailRecoveryJob(w)
      PROVE  TypeOK'
    <2>1. jobs' \in [Job -> JobRow \cup {NoJob}]
        <3>1. CASE jobs' = jobs
            BY <3>1 DEF TypeOK
        <3>2. CASE jobs' # jobs
            <4>1. PICK status \in { "succeeded", "permanent_failed", "retry_wait" }, left \in Nat :
                      Release(workers[w].job, status, left) /\ Owns(w, jobs[workers[w].job])
                BY <1>4, <3>2, Ended
            <4>2. /\ workers[w].job \in Job /\ jobs[workers[w].job] # NoJob
                  /\ status \in Status
                BY <1>4, <4>1, Ended DEF Owns, NoJob, Status
            <4> QED
                BY <4>1, <4>2, Released
        <3> QED
            BY <3>1, <3>2
    <2>2. workers' = [workers EXCEPT ![w] = Idle] /\ handled' = handled /\ faults' = faults
        BY <1>4 DEF CompleteRecoveryJob, FailRecoveryJob
    <2> QED
        BY <2>1, <2>2 DEF TypeOK
<1>5. ASSUME NEW w \in Worker, NEW outcome \in { "succeeded", "failed" },
             HandlerReturns(w, outcome)
      PROVE  TypeOK'
    <2>1. workers[w] # Idle
        BY <1>5, StagedIsBusy DEF HandlerReturns
    <2>2. workers[w] \in Busy /\ workers[w].job \in Job
        BY <2>1, HeldJob
    <2>3. [workers[w] EXCEPT !.stage = outcome] \in Busy
        BY <2>2 DEF Busy
    <2>4. workers' \in [Worker -> Busy \cup {Idle}]
        BY <1>5, <2>3 DEF HandlerReturns, TypeOK
    <2> QED
        BY <1>5, <2>2, <2>4 DEF HandlerReturns, TypeOK
<1>6. ASSUME NEW w \in Worker, Abandon(w)
      PROVE  TypeOK'
    BY <1>6 DEF Abandon, TypeOK
<1>7. CASE Tick
    BY <1>7, Ticked DEF Tick, TypeOK
<1>8. CASE UNCHANGED vars
    BY <1>8 DEF vars, TypeOK
<1> QED
    BY <1>1, <1>2, <1>3, <1>4, <1>5, <1>6, <1>7, <1>8 DEF Next, WorkerStep

\* A settled row is due from the step that settles it on.
LEMMA DueStep ==
    ASSUME TypeOK, SettledIsDue, [Next]_vars
    PROVE  SettledIsDue'
<1> SUFFICES ASSUME NEW j \in Job, jobs'[j].status \in Settled
             PROVE  jobs'[j].left = 0
    BY DEF SettledIsDue
<1>1. CASE jobs'[j] = jobs[j]
    BY <1>1 DEF SettledIsDue
<1>2. CASE jobs'[j] # jobs[j]
    BY <1>2, RowChanges
<1> QED
    BY <1>1, <1>2

\* Marks are never taken back, and a worker gets to "succeeded" leaving one.
LEMMA MarkStep ==
    ASSUME TypeOK, SuccessLeavesAMark, [Next]_vars
    PROVE  SuccessLeavesAMark' /\ handled \subseteq handled'
<1>1. ASSUME NEW w \in Worker, NEW j \in Job, ClaimRecoveryJob(w, j)
      PROVE  SuccessLeavesAMark' /\ handled \subseteq handled'
    <2>1. handled' = handled
        BY <1>1 DEF ClaimRecoveryJob
    <2>2. /\ workers'[w].stage = "handling"
          /\ \A v \in Worker \ {w} : workers'[v] = workers[v]
        BY <1>1, Claimed
    <2> QED
        BY <2>1, <2>2 DEF SuccessLeavesAMark
<1>2. ASSUME NEW w \in Worker, workers' = [workers EXCEPT ![w] = Idle], handled' = handled
      PROVE  SuccessLeavesAMark' /\ handled \subseteq handled'
    BY <1>2 DEF SuccessLeavesAMark, TypeOK, Idle
<1>3. ASSUME NEW w \in Worker, NEW outcome \in { "succeeded", "failed" },
             HandlerReturns(w, outcome)
      PROVE  SuccessLeavesAMark' /\ handled \subseteq handled'
    <2>1. workers[w] \in Busy
        BY <1>3, StagedIsBusy, HeldJob DEF HandlerReturns
    <2>2. /\ workers'[w].stage = outcome /\ workers'[w].job = workers[w].job
          /\ \A v \in Worker \ {w} : workers'[v] = workers[v]
        BY <1>3, <2>1 DEF HandlerReturns, TypeOK, Busy
    <2>3. handled' = IF outcome = "succeeded" THEN handled \cup { workers[w].job } ELSE handled
        BY <1>3 DEF HandlerReturns
    <2> QED
        BY <2>2, <2>3 DEF SuccessLeavesAMark
<1>4. ASSUME workers' = workers, handled' = handled
      PROVE  SuccessLeavesAMark' /\ handled \subseteq handled'
    BY <1>4 DEF SuccessLeavesAMark
<1>5. ASSUME NEW w \in Worker, \/ CompleteRecoveryJob(w) \/ FailRecoveryJob(w) \/ Abandon(w)
      PROVE  workers' = [workers EXCEPT ![w] = Idle] /\ handled' = handled
    BY <1>5 DEF CompleteRecoveryJob, FailRecoveryJob, Abandon
<1>6. ASSUME NEW j \in Job, CreateRecoveryJob(j) \/ CancelRecoveryJob(j)
      PROVE  workers' = workers /\ handled' = handled
    BY <1>6 DEF CreateRecoveryJob, CancelRecoveryJob
<1>7. CASE Tick
    BY <1>4, <1>7 DEF Tick
<1>8. CASE UNCHANGED vars
    BY <1>4, <1>8 DEF vars
<1> QED
    BY <1>1, <1>2, <1>3, <1>4, <1>5, <1>6, <1>7, <1>8 DEF Next, WorkerStep

\* A job succeeds only after a handler has run for it.
LEMMA SuccessStep ==
    ASSUME TypeOK, SettledIsDue, SuccessLeavesAMark, SuccessWasHandled, [Next]_vars
    PROVE  SuccessWasHandled'
<1> SUFFICES ASSUME NEW j \in Job, jobs'[j].status = "succeeded"
             PROVE  j \in handled
    BY MarkStep DEF SuccessWasHandled
<1>1. CASE jobs'[j] = jobs[j]
    BY <1>1 DEF SuccessWasHandled
<1>2. CASE jobs'[j] # jobs[j]
    BY <1>2, RowChanges DEF SuccessLeavesAMark
<1> QED
    BY <1>1, <1>2

-----------------------------------------------------------------------------
\* The parts of the invariant, established and kept together.
THEOREM InvariantHolds == Spec => []IInv
<1>1. Init => IInv
    BY DEF Init, IInv, TypeOK, SettledIsDue, SuccessLeavesAMark, SuccessWasHandled,
           NoJob, Idle, Settled
<1>2. IInv /\ [Next]_vars => IInv'
    BY TypeStep, DueStep, MarkStep, SuccessStep DEF IInv
<1> QED
    BY <1>1, <1>2, PTL DEF Spec

\* The rows of recovery_jobs and what the workers hold are of their types.
THEOREM TypeCorrect == Spec => []TypeOK
<1>1. IInv => TypeOK
    BY DEF IInv
<1> QED
    BY <1>1, InvariantHolds, PTL

\* A job reported as succeeded was handled with success.
THEOREM SuccessIsReal == Spec => []SuccessWasHandled
<1>1. IInv => SuccessWasHandled
    BY DEF IInv
<1> QED
    BY <1>1, InvariantHolds, PTL

\* No step of any worker, however late, changes a settled job.
THEOREM SettlementIsFinal == Spec => SettledIsFinal
<1>1. IInv /\ [Next]_vars =>
          [\A j \in Job : jobs[j].status \in Settled => jobs'[j] = jobs[j]]_vars
    BY RowChanges DEF IInv
<1> QED
    BY <1>1, InvariantHolds, PTL DEF Spec, SettledIsFinal

-----------------------------------------------------------------------------
\* A worker that owns its row made the latest claim: another worker's claim
\* takes the row away, if it comes under another name.
LEMMA OwnersStep ==
    ASSUME TypeOK, OwnersAreLatest, [Next]_vars
    PROVE  OwnersAreLatest'
<1> SUFFICES ASSUME NEW v \in Worker, NamedAlone(v), workers'[v] # Idle,
                    jobs'[workers'[v].job].status = "running",
                    jobs'[workers'[v].job].owner = Owner[v]
             PROVE  workers'[v].attempt = jobs'[workers'[v].job].attempts
    BY DEF OwnersAreLatest, Owns
<1> DEFINE k == workers[v].job
\* Nothing to do where the worker and the row's three fields are as before.
<1>1. ASSUME workers'[v].job = k, workers'[v].attempt = workers[v].attempt, workers[v] # Idle,
             jobs'[k].status = jobs[k].status, jobs'[k].attempts = jobs[k].attempts,
             jobs'[k].owner = jobs[k].owner
      PROVE  workers'[v].attempt = jobs'[workers'[v].job].attempts
    BY <1>1 DEF OwnersAreLatest, Owns
<1>2. workers[v] # Idle => k \in Job
    BY HeldJob
<1>3. ASSUME NEW j \in Job, CreateRecoveryJob(j) \/ CancelRecoveryJob(j)
      PROVE  workers'[v].attempt = jobs'[workers'[v].job].attempts
    <2>1. workers' = workers
        BY <1>3 DEF CreateRecoveryJob, CancelRecoveryJob
    <2>2. jobs'[j].status # "running" /\ \A i \in Job \ {j} : jobs'[i] = jobs[i]
        <3>1. CASE CreateRecoveryJob(j)
            <4> DEFINE row == jobs'[j]
            <4>1. row = NewJob /\ \A i \in Job \ {j} : jobs'[i] = jobs[i]
                BY <3>1 DEF CreateRecoveryJob, TypeOK
            <4> HIDE DEF row
            <4>2. row.status = "pending"
                BY <4>1 DEF NewJob
            <4> QED
                BY <4>1, <4>2 DEF row
        <3>2. CASE CancelRecoveryJob(j)
            <4>1. jobs[j] # NoJob /\ "cancelled" \in Status /\ 0 \in Nat
                BY <3>2 DEF CancelRecoveryJob, NoJob, Status
            <4> QED
                BY <3>2, <4>1, Released DEF CancelRecoveryJob
        <3> QED
            BY <1>3, <3>1, <3>2
    <2>3. k \in Job \ {j}
        BY <1>2, <2>1, <2>2
    <2>4. jobs'[k] = jobs[k]
        BY <2>2, <2>3
    <2> QED
        BY <1>1, <2>1, <2>4
<1>4. ASSUME NEW w \in Worker, NEW j \in Job, ClaimRecoveryJob(w, j)
      PROVE  workers'[v].attempt = jobs'[workers'[v].job].attempts
    <2>1. /\ workers'[w].job = j /\ workers'[w].attempt = jobs[j].attempts + 1
          /\ jobs'[j].attempts = jobs[j].attempts + 1 /\ jobs'[j].owner = Owner[w]
        BY <1>4, Claimed
    <2>2. CASE v = w
        BY <2>1, <2>2
    <2>3. CASE v # w
        <3>1. workers'[v] = workers[v] /\ \A i \in Job \ {j} : jobs'[i] = jobs[i]
            BY <1>4, <2>3 DEF ClaimRecoveryJob, TypeOK
        <3>2. k # j
            BY <2>1, <2>3, <3>1 DEF NamedAlone
        <3>3. jobs'[k] = jobs[k]
            BY <1>2, <3>1, <3>2
        <3> QED
            BY <1>1, <3>1, <3>3
    <2> QED
        BY <2>2, <2>3
<1>5. ASSUME NEW w \in Worker, CompleteRecoveryJob(w) \/ FailRecoveryJob(w)
      PROVE  workers'[v].attempt = jobs'[workers'[v].job].attempts
    <2>1. workers' = [workers EXCEPT ![w] = Idle]
        BY <1>5 DEF CompleteRecoveryJob, FailRecoveryJob
    <2>2. workers'[v] = workers[v]
        BY <2>1 DEF TypeOK
    <2>3. CASE jobs' = jobs
        BY <1>1, <2>2, <2>3
    <2>4. CASE jobs' # jobs
        <3> DEFINE j == workers[w].job
        <3>1. PICK status \in { "succeeded", "permanent_failed", "retry_wait" }, left \in Nat :
                  Release(j, status, left) /\ Owns(w, jobs[j])
            BY <1>5, <2>4, Ended
        <3>2. j \in Job /\ jobs[j] # NoJob /\ status \in Status
            BY <1>5, <3>1, Ended DEF Owns, NoJob, Status
        <3>3. jobs'[j].status = status /\ \A i \in Job \ {j} : jobs'[i] = jobs[i]
            BY <3>1, <3>2, Released
        <3>4. k # j
            BY <2>2, <3>3
        <3>5. jobs'[k] = jobs[k]
            BY <1>2, <2>2, <3>3, <3>4
        <3> QED
            BY <1>1, <2>2, <3>5
    <2> QED
        BY <2>3, <2>4
<1>6. ASSUME NEW w \in Worker, NEW outcome \in { "succeeded", "failed" },
             HandlerReturns(w, outcome)
      PROVE  workers'[v].attempt = jobs'[workers'[v].job].attempts
    <2>1. workers[w] # Idle /\ workers[w] \in Busy
        BY <1>6, StagedIsBusy, HeldJob DEF HandlerReturns
    <2>2. /\ workers'[v].job = k /\ workers'[v].attempt = workers[v].attempt
          /\ workers[v] # Idle /\ jobs' = jobs
        BY <1>6, <2>1 DEF HandlerReturns, TypeOK, Busy
    <2> QED
        BY <1>1, <2>2
<1>7. ASSUME NEW w \in Worker, Abandon(w)
      PROVE  workers'[v].attempt = jobs'[workers'[v].job].attempts
    <2>1. workers'[v] = workers[v] /\ jobs' = jobs
        BY <1>7 DEF Abandon, TypeOK
    <2> QED
        BY <1>1, <2>1
<1>8. CASE Tick
    <2>1. workers' = workers
        BY <1>8 DEF Tick
    <2>2. /\ jobs'[k].status = jobs[k].status /\ jobs'[k].attempts = jobs[k].attempts
          /\ jobs'[k].owner = jobs[k].owner
        BY <1>2, <1>8, <2>1, Ticked
    <2> QED
        BY <1>1, <2>1, <2>2
<1>9. CASE UNCHANGED vars
    BY <1>1, <1>9 DEF vars
<1> QED
    BY <1>3, <1>4, <1>5, <1>6, <1>7, <1>8, <1>9 DEF Next, WorkerStep

\* Who ends a running job, in one step.
LEMMA EndStep ==
    ASSUME TypeOK, SettledIsDue, OwnersAreLatest, [Next]_vars,
           NEW j \in Job, jobs[j].status = "running", jobs'[j].status # "running"
    PROVE  \E w \in Holders(j) :
               /\ NamedAlone(w) => workers[w].attempt = jobs[j].attempts
               /\ workers'[w] = Idle
<1>1. ASSUME NEW i \in Job, CreateRecoveryJob(i) \/ CancelRecoveryJob(i)
      PROVE  FALSE
    <2>1. jobs[i].status # "running"
        BY <1>1 DEF CreateRecoveryJob, CancelRecoveryJob, NoJob
    <2>2. jobs'[j] = jobs[j]
        BY <1>1, <2>1 DEF CreateRecoveryJob, CancelRecoveryJob, Release, TypeOK
    <2> QED
        BY <2>2
<1>2. ASSUME NEW w \in Worker, NEW i \in Job, ClaimRecoveryJob(w, i)
      PROVE  FALSE
    <2>1. jobs'[i].status = "running"
        BY <1>2, Claimed
    <2>2. \A k \in Job \ {i} : jobs'[k] = jobs[k]
        BY <1>2 DEF ClaimRecoveryJob, TypeOK
    <2> QED
        BY <2>1, <2>2
<1>3. ASSUME NEW w \in Worker, CompleteRecoveryJob(w) \/ FailRecoveryJob(w)
      PROVE  /\ w \in Holders(j) /\ workers'[w] = Idle
             /\ NamedAlone(w) => workers[w].attempt = jobs[j].attempts
    <2> DEFINE i == workers[w].job
    <2>1. PICK status \in { "succeeded", "permanent_failed", "retry_wait" }, left \in Nat :
              Release(i, status, left) /\ Owns(w, jobs[i])
        BY <1>3, Ended
    <2>2. workers[w] # Idle /\ i \in Job
        BY <1>3, Ended
    <2>3. i = j
        BY <2>1, <2>2 DEF Release, TypeOK
    <2>4. workers'[w] = Idle
        BY <1>3 DEF CompleteRecoveryJob, FailRecoveryJob, TypeOK
    <2> QED
        BY <2>1, <2>2, <2>3, <2>4 DEF Holders, OwnersAreLatest
<1>4. CASE Tick
    BY <1>4, Ticked
<1>5. ASSUME NEW w \in Worker,
             Abandon(w) \/ \E outcome \in { "succeeded", "failed" } : HandlerReturns(w, outcome)
      PROVE  FALSE
    BY <1>5 DEF Abandon, HandlerReturns
<1>6. CASE UNCHANGED vars
    BY <1>6 DEF vars
<1> QED
    BY <1>1, <1>2, <1>3, <1>4, <1>5, <1>6 DEF Next, WorkerStep

\* A running job is ended by the worker of its latest claim, or by one that
\* shares its name with another.
THEOREM EndsBelongToTheClaimant == Spec => EndedByItsClaimant
<1>1. Init => OwnersAreLatest
    BY DEF Init, OwnersAreLatest
<1>2. IInv /\ OwnersAreLatest /\ [Next]_vars => OwnersAreLatest'
    BY OwnersStep DEF IInv
<1>3. IInv /\ OwnersAreLatest /\ [Next]_vars =>
          [\A j \in Job : jobs[j].status = "running" /\ jobs'[j].status # "running" =>
              \E w \in Holders(j) :
                  /\ NamedAlone(w) => workers[w].attempt = jobs[j].attempts
                  /\ workers'[w] = Idle]_vars
    BY EndStep DEF IInv
<1> QED
    BY <1>1, <1>2, <1>3, InvariantHolds, PTL DEF Spec, EndedByItsClaimant

-----------------------------------------------------------------------------
\* A worker works on a job that is there.
HeldJobsExist ==
    \A w \in Worker : workers[w] # Idle => jobs[workers[w].job] # NoJob

\* What a reader is told depends on the status alone.
LEMMA OutcomeOfRow ==
    ASSUME NEW row \in JobRow
    PROVE  /\ row # NoJob
           /\ Outcome(row) = IF row.status \in Settled THEN row.status ELSE "open"
<1>1. row.status \in Status /\ NoJob.status \notin Status
    BY RowFields DEF NoJob, Status
<1> QED
    BY <1>1 DEF Outcome

\* Rows do not vanish: a job that is there stays there.
LEMMA RowsStay ==
    ASSUME TypeOK, [Next]_vars, NEW j \in Job, jobs[j] # NoJob
    PROVE  jobs'[j] # NoJob
<1>1. ASSUME NEW i \in Job, NEW status \in Status, NEW left \in Nat,
             jobs[i] # NoJob, Release(i, status, left)
      PROVE  jobs'[j] # NoJob
    <2>1. jobs'[i].status = status /\ \A k \in Job \ {i} : jobs'[k] = jobs[k]
        BY <1>1, Released
    <2>2. status # NoJob.status
        BY DEF Status, NoJob
    <2> QED
        BY <2>1, <2>2
<1>2. ASSUME NEW i \in Job, CreateRecoveryJob(i)
      PROVE  jobs'[j] # NoJob
    BY <1>2 DEF CreateRecoveryJob, TypeOK
<1>3. ASSUME NEW i \in Job, CancelRecoveryJob(i)
      PROVE  jobs'[j] # NoJob
    <2>1. jobs[i] # NoJob /\ "cancelled" \in Status /\ 0 \in Nat
        BY <1>3 DEF CancelRecoveryJob, NoJob, Status
    <2> QED
        BY <1>1, <1>3, <2>1 DEF CancelRecoveryJob
<1>4. ASSUME NEW w \in Worker, NEW i \in Job, ClaimRecoveryJob(w, i)
      PROVE  jobs'[j] # NoJob
    <2>1. jobs'[i].status = "running"
        BY <1>4, Claimed
    <2>2. \A k \in Job \ {i} : jobs'[k] = jobs[k]
        BY <1>4 DEF ClaimRecoveryJob, TypeOK
    <2> QED
        BY <2>1, <2>2 DEF NoJob
<1>5. ASSUME NEW w \in Worker, CompleteRecoveryJob(w) \/ FailRecoveryJob(w)
      PROVE  jobs'[j] # NoJob
    <2>1. CASE jobs' = jobs
        BY <2>1
    <2>2. ASSUME Owns(w, jobs[workers[w].job]),
                 NEW status \in { "succeeded", "permanent_failed", "retry_wait" },
                 NEW left \in Nat, Release(workers[w].job, status, left)
          PROVE  jobs'[j] # NoJob
        <3>1. workers[w].job \in Job /\ status \in Status
            BY <1>5, Ended DEF Status
        <3>2. jobs[workers[w].job] # NoJob
            BY <2>2 DEF Owns, NoJob
        <3> QED
            BY <1>1, <2>2, <3>1, <3>2
    <2> QED
        BY <1>5, <2>1, <2>2, Ended
<1>6. CASE Tick
    BY <1>6 DEF Tick, NoJob, TypeOK, JobRow
<1>7. CASE UNCHANGED jobs
    BY <1>7
<1> QED
    BY <1>2, <1>3, <1>4, <1>5, <1>6, <1>7
       DEF Next, WorkerStep, HandlerReturns, Abandon, vars

\* A worker holds no job that was never created.
LEMMA HeldStep ==
    ASSUME TypeOK, HeldJobsExist, [Next]_vars
    PROVE  HeldJobsExist'
<1> SUFFICES ASSUME NEW v \in Worker, workers'[v] # Idle
             PROVE  jobs'[workers'[v].job] # NoJob
    BY DEF HeldJobsExist
<1>1. CASE workers[v] # Idle /\ workers'[v].job = workers[v].job
    BY <1>1, HeldJob, RowsStay DEF HeldJobsExist
<1>2. ASSUME NEW j \in Job, ClaimRecoveryJob(v, j)
      PROVE  jobs'[workers'[v].job] # NoJob
    <2>1. jobs'[j].status = "running" /\ workers'[v].job = j
        BY <1>2, Claimed
    <2> QED
        BY <2>1 DEF NoJob
<1>3. ASSUME NEW w \in Worker, NEW outcome \in { "succeeded", "failed" },
             HandlerReturns(w, outcome)
      PROVE  workers[v] # Idle /\ workers'[v].job = workers[v].job
    <2>1. workers[w] # Idle
        BY <1>3, StagedIsBusy DEF HandlerReturns
    <2>2. CASE v = w
        BY <1>3, <2>1, <2>2, HeldJob DEF HandlerReturns, TypeOK, Busy
    <2>3. CASE v # w
        BY <1>3, <2>3 DEF HandlerReturns, TypeOK
    <2> QED
        BY <2>2, <2>3
<1>4. ASSUME NEW w \in Worker, NEW j \in Job, ClaimRecoveryJob(w, j), w # v
      PROVE  workers'[v] = workers[v]
    BY <1>4 DEF ClaimRecoveryJob, TypeOK
<1>5. ASSUME NEW w \in Worker,
             CompleteRecoveryJob(w) \/ FailRecoveryJob(w) \/ Abandon(w)
      PROVE  workers'[v] = workers[v]
    BY <1>5 DEF CompleteRecoveryJob, FailRecoveryJob, Abandon, TypeOK
<1>6. CASE workers' = workers
    BY <1>1, <1>6
<1>7. CASE workers'[v] = workers[v]
    BY <1>1, <1>7
<1> QED
    BY <1>1, <1>2, <1>3, <1>4, <1>5, <1>6, <1>7
       DEF Next, WorkerStep, CreateRecoveryJob, CancelRecoveryJob, Tick, vars

\* A step that settles a job, or reopens it for a retry, is a step of the
\* promise or none.
LEMMA ReleaseIsPromised ==
    ASSUME TypeOK, NEW j \in Job, jobs[j] # NoJob, jobs[j].status \notin Settled,
           NEW status \in Status, status = "succeeded" => j \in handled,
           NEW left \in Nat, Release(j, status, left), UNCHANGED handled
    PROVE  [Promise!Next]_(Promise!vars)
<1> DEFINE told == [i \in Job |-> Outcome(jobs[i])]
<1> DEFINE toldNext == [i \in Job |-> Outcome(jobs'[i])]
<1>1. /\ jobs[j] \in JobRow /\ Outcome(jobs[j]) = "open"
      /\ \A i \in Job \ {j} : jobs'[i] = jobs[i]
      /\ jobs'[j] \in JobRow \cup {NoJob} /\ jobs'[j].status = status
    BY OutcomeOfRow, Released DEF TypeOK
<1>2. NoJob.status # status
    BY DEF NoJob, Status
<1>3. Outcome(jobs'[j]) = IF status \in Settled THEN status ELSE "open"
    BY <1>1, <1>2, OutcomeOfRow
<1>4. CASE status \in Settled
    <2>1. toldNext = [told EXCEPT ![j] = status]
        BY <1>1, <1>3, <1>4
    <2>2. Promise!Settle(j, status)
        BY <1>1, <2>1 DEF Promise!Settle
    <2> QED
        BY <1>4, <2>2 DEF Promise!Next, Promise!Settlement, Settled
<1>5. CASE status \notin Settled
    <2>1. toldNext = told
        BY <1>1, <1>3, <1>5
    <2> QED
        BY <2>1 DEF Promise!vars
<1> QED
    BY <1>4, <1>5

\* Every step of the queue is a step of RecoveryPromise or changes nothing there.
LEMMA PromiseStep ==
    ASSUME TypeOK, SettledIsDue, SuccessLeavesAMark, HeldJobsExist, [Next]_vars
    PROVE  [Promise!Next]_(Promise!vars)
<1> DEFINE told == [i \in Job |-> Outcome(jobs[i])]
<1> DEFINE toldNext == [i \in Job |-> Outcome(jobs'[i])]
<1>1. ASSUME NEW j \in Job, CreateRecoveryJob(j)
      PROVE  Promise!Open(j)
    <2>1. /\ jobs[j] = NoJob /\ jobs'[j] = NewJob
          /\ \A i \in Job \ {j} : jobs'[i] = jobs[i]
        BY <1>1 DEF CreateRecoveryJob, TypeOK
    <2>2. NewJob.status = "pending" /\ NoJob.status = "none"
        BY DEF NewJob, NoJob
    <2>3. Outcome(NoJob) = "absent" /\ Outcome(NewJob) = "open"
        BY <2>2 DEF Outcome, Settled
    <2>4. toldNext = [told EXCEPT ![j] = "open"]
        BY <2>1, <2>3
    <2> QED
        BY <1>1, <2>1, <2>3, <2>4 DEF Promise!Open, CreateRecoveryJob
<1>2. ASSUME NEW j \in Job, CancelRecoveryJob(j)
      PROVE  [Promise!Next]_(Promise!vars)
    <2>1. jobs[j] # NoJob /\ jobs[j].status \notin Settled
        BY <1>2 DEF CancelRecoveryJob, NoJob, Settled
    <2>2. "cancelled" \in Status /\ "cancelled" # "succeeded" /\ 0 \in Nat
        BY DEF Status
    <2>3. Release(j, "cancelled", 0) /\ UNCHANGED handled
        BY <1>2 DEF CancelRecoveryJob
    <2> QED
        BY <2>1, <2>2, <2>3, ReleaseIsPromised
<1>3. ASSUME NEW w \in Worker, CompleteRecoveryJob(w) \/ FailRecoveryJob(w)
      PROVE  [Promise!Next]_(Promise!vars)
    <2>1. UNCHANGED handled
        BY <1>3 DEF CompleteRecoveryJob, FailRecoveryJob
    <2>2. CASE jobs' = jobs
        BY <2>1, <2>2 DEF Promise!vars
    <2>3. ASSUME Owns(w, jobs[workers[w].job]),
                 NEW status \in { "succeeded", "permanent_failed", "retry_wait" },
                 NEW left \in Nat, status = "succeeded" => workers[w].stage = "succeeded",
                 Release(workers[w].job, status, left)
          PROVE  [Promise!Next]_(Promise!vars)
        <3>1. workers[w].job \in Job /\ status \in Status
            BY <1>3, Ended DEF Status
        <3>2. /\ jobs[workers[w].job] # NoJob
              /\ jobs[workers[w].job].status \notin Settled
            BY <2>3 DEF Owns, NoJob, Settled
        <3>3. status = "succeeded" => workers[w].job \in handled
            BY <2>3 DEF SuccessLeavesAMark
        <3> QED
            BY <2>1, <2>3, <3>1, <3>2, <3>3, ReleaseIsPromised
    <2> QED
        BY <1>3, <2>2, <2>3, Ended
<1>4. ASSUME NEW w \in Worker, NEW j \in Job, ClaimRecoveryJob(w, j)
      PROVE  UNCHANGED Promise!vars
    <2>1. /\ jobs[j] \in JobRow /\ jobs[j].status \notin Settled
          /\ jobs'[j].status = "running" /\ jobs'[j] \in JobRow \cup {NoJob}
        BY <1>4, Claimed
    <2>2. \A i \in Job \ {j} : jobs'[i] = jobs[i]
        BY <1>4 DEF ClaimRecoveryJob, TypeOK
    <2>3. NoJob.status # "running" /\ "running" \notin Settled
        BY DEF NoJob, Settled
    <2>4. Outcome(jobs[j]) = "open" /\ Outcome(jobs'[j]) = "open"
        BY <2>1, <2>3, OutcomeOfRow
    <2>5. toldNext = told
        BY <2>2, <2>4
    <2> QED
        BY <1>4, <2>5 DEF Promise!vars, ClaimRecoveryJob
<1>5. ASSUME NEW w \in Worker, NEW ending \in { "succeeded", "failed" },
             HandlerReturns(w, ending)
      PROVE  [Promise!Next]_(Promise!vars)
    <2>1. workers[w] # Idle /\ UNCHANGED jobs
        BY <1>5, StagedIsBusy DEF HandlerReturns
    <2>2. workers[w].job \in Job /\ jobs[workers[w].job] \in JobRow
        BY <2>1, HeldJob DEF HeldJobsExist
    <2>3. Outcome(jobs[workers[w].job]) # "absent"
        BY <2>2, OutcomeOfRow DEF Settled
    <2>4. CASE handled' = handled
        BY <2>1, <2>4 DEF Promise!vars
    <2>5. CASE handled' = handled \cup { workers[w].job }
        <3>1. Promise!Handle(workers[w].job)
            BY <2>1, <2>2, <2>3, <2>5 DEF Promise!Handle
        <3> QED
            BY <2>2, <3>1 DEF Promise!Next
    <2> QED
        BY <1>5, <2>4, <2>5 DEF HandlerReturns
<1>6. CASE Tick
    <2>1. ASSUME NEW j \in Job
          PROVE  Outcome(jobs'[j]) = Outcome(jobs[j])
        <3>1. CASE jobs[j] = NoJob
            BY <1>6, <3>1, Ticked
        <3>2. CASE jobs[j] # NoJob
            <4>1. /\ jobs[j] \in JobRow /\ jobs'[j] \in JobRow \cup {NoJob}
                  /\ jobs'[j].status = jobs[j].status
                BY <1>6, <3>2, Ticked DEF TypeOK
            <4>2. jobs[j].status # NoJob.status
                BY <4>1, RowFields DEF NoJob, Status
            <4> QED
                BY <4>1, <4>2, OutcomeOfRow
        <3> QED
            BY <3>1, <3>2
    <2>2. toldNext = told
        BY <2>1
    <2> QED
        BY <1>6, <2>2 DEF Tick, Promise!vars
<1>7. CASE UNCHANGED << jobs, handled >>
    BY <1>7 DEF Promise!vars
<1> QED
    BY <1>1, <1>2, <1>3, <1>4, <1>5, <1>6, <1>7
       DEF Next, WorkerStep, Abandon, vars, Promise!Next

\* The queue keeps its promise for any workers, names, limits and leases: each
\* step opens a job, lets a handler finish, settles an open job once, or is not
\* seen by those who file and read jobs.
THEOREM QueueKeepsThePromise == Spec => KeepsThePromise
<1>1. Init => Promise!Init
    <2>1. Outcome(NoJob) = "absent"
        BY DEF Outcome
    <2> QED
        BY <2>1 DEF Init, Promise!Init
<1>2. Init => HeldJobsExist
    BY DEF Init, HeldJobsExist
<1>3. IInv /\ HeldJobsExist /\ [Next]_vars => HeldJobsExist'
    BY HeldStep DEF IInv
<1>4. IInv /\ HeldJobsExist /\ [Next]_vars => [Promise!Next]_(Promise!vars)
    BY PromiseStep DEF IInv
<1> QED
    BY <1>1, <1>2, <1>3, <1>4, InvariantHolds, PTL DEF Spec, KeepsThePromise, Promise!Spec

-----------------------------------------------------------------------------
\* A worker whose claim is the row's: nobody has claimed the job since, and the
\* lease is not over.
Current(w) ==
    /\ workers[w] # Idle
    /\ Owns(w, jobs[workers[w].job])
    /\ jobs[workers[w].job].left > 0
    /\ workers[w].attempt = jobs[workers[w].job].attempts

\* The workers that go on although their claim is lost.
Late == { w \in Worker : workers[w] # Idle /\ ~Current(w) }

\* Those of them that can send the job back to the queue, if they share its
\* owner's name, and so cost it one attempt more.
Stale(j) == { w \in Late : workers[w].job = j /\ workers[w].attempt < MaxAttempts }

Covered(j) == \E w \in Holders(j) : Current(w)

\* Claims of a job are numbered by its attempts.
ClaimsAreNumbered ==
    /\ \A w \in Worker : workers[w] # Idle
           => workers[w].attempt <= jobs[workers[w].job].attempts
    /\ \A v, w \in Worker :
           /\ v # w /\ workers[v] # Idle /\ workers[w] # Idle
           /\ workers[v].job = workers[w].job
           => workers[v].attempt # workers[w].attempt

\* A worker is late for a claim that was lost, and each such claim has made one
\* worker late at most.
LateForAFault == Cardinality(Late) <= faults

\* What is left of the lost claims once the late workers have had theirs pays
\* for the attempts beyond the limit, the next one included if nobody has the job.
WithinBudget(j) ==
    /\ jobs[j].attempts <= MaxAttempts + faults
    /\ jobs[j].status = "permanent_failed" => jobs[j].attempts >= MaxAttempts
    /\ Covered(j) => jobs[j].attempts + Cardinality(Stale(j)) <= MaxAttempts + faults
    /\ jobs[j].status \notin Settled /\ ~Covered(j)
           => jobs[j].attempts + 1 + Cardinality(Stale(j)) <= MaxAttempts + faults

ClaimsInv == /\ IInv /\ HeldJobsExist /\ ClaimsAreNumbered /\ LateForAFault
             /\ \A j \in Job : jobs[j] # NoJob => WithinBudget(j)

\* Of two sets of workers the one inside the other is no larger.
LEMMA Smaller ==
    ASSUME NEW S \in SUBSET Worker, NEW T \in SUBSET S
    PROVE  /\ Cardinality(S) \in Nat /\ Cardinality(T) \in Nat
           /\ Cardinality(T) <= Cardinality(S)
           /\ \A x \in S : x \notin T => Cardinality(T) + 1 <= Cardinality(S)
<1>1. IsFiniteSet(S)
    BY RecoveryAssumption, FS_Subset
<1>2. /\ IsFiniteSet(T) /\ Cardinality(T) <= Cardinality(S)
      /\ Cardinality(S) = Cardinality(T) => S = T
    BY <1>1, FS_Subset
<1>3. Cardinality(S) \in Nat /\ Cardinality(T) \in Nat
    BY <1>1, <1>2, FS_CardinalityType
<1> QED
    BY <1>2, <1>3

\* One worker more is at most one more.
LEMMA OneMore ==
    ASSUME NEW S \in SUBSET Worker, NEW x, NEW T \in SUBSET Worker, T \subseteq S \cup {x}
    PROVE  Cardinality(T) <= Cardinality(S) + 1
<1>1. IsFiniteSet(S) /\ Cardinality(S) \in Nat
    BY RecoveryAssumption, FS_Subset, FS_CardinalityType
<1>2. /\ IsFiniteSet(S \cup {x})
      /\ Cardinality(S \cup {x}) = IF x \in S THEN Cardinality(S) ELSE Cardinality(S) + 1
    BY <1>1, FS_AddElement
<1>3. Cardinality(T) <= Cardinality(S \cup {x}) /\ IsFiniteSet(T)
    BY <1>2, FS_Subset
<1>4. Cardinality(T) \in Nat
    BY <1>3, FS_CardinalityType
<1> QED
    BY <1>1, <1>2, <1>3, <1>4

\* One leaves and one comes.
LEMMA Exchanged ==
    ASSUME NEW S \in SUBSET Worker, NEW w \in S, NEW x, NEW T \in SUBSET Worker,
           T \subseteq (S \ {w}) \cup {x}
    PROVE  Cardinality(T) <= Cardinality(S)
<1>1. S \ {w} \in SUBSET Worker /\ S \ {w} \in SUBSET S
    OBVIOUS
<1>2. Cardinality(T) <= Cardinality(S \ {w}) + 1
    BY <1>1, OneMore
<1>3. /\ Cardinality(S \ {w}) + 1 <= Cardinality(S)
      /\ Cardinality(S \ {w}) \in Nat /\ Cardinality(S) \in Nat
    BY <1>1, Smaller
<1>4. T \in SUBSET Worker /\ Cardinality(T) \in Nat
    BY Smaller
<1> QED
    BY <1>2, <1>3, <1>4

\* The workers that are late for a job are among the late ones, and both are counted.
LEMMA LateFacts ==
    ASSUME NEW j \in Job
    PROVE  /\ Late \in SUBSET Worker /\ Stale(j) \in SUBSET Late
           /\ Cardinality(Late) \in Nat /\ Cardinality(Stale(j)) \in Nat
           /\ Cardinality(Stale(j)) <= Cardinality(Late)
<1>1. Late \in SUBSET Worker /\ Stale(j) \in SUBSET Late
    BY DEF Late, Stale
<1> QED
    BY <1>1, Smaller

\* The same after a step.
LEMMA LateFactsNext ==
    ASSUME NEW j \in Job
    PROVE  /\ Late' \in SUBSET Worker /\ Stale(j)' \in SUBSET Late'
           /\ Cardinality(Late') \in Nat /\ Cardinality(Stale(j)') \in Nat
           /\ Cardinality(Stale(j)') <= Cardinality(Late')
<1>1. Late' \in SUBSET Worker /\ Stale(j)' \in SUBSET Late'
    BY DEF Late, Stale
<1> QED
    BY <1>1, Smaller

\* What a step does to a worker: it ends its work, goes on with it, or claims a job.
LEMMA WorkerChanges ==
    ASSUME TypeOK, [Next]_vars, NEW v \in Worker
    PROVE  \/ workers'[v] = Idle
           \/ /\ workers[v] # Idle /\ workers'[v] # Idle
              /\ workers'[v].job = workers[v].job /\ workers'[v].attempt = workers[v].attempt
           \/ \E j \in Job : ClaimRecoveryJob(v, j)
<1>1. ASSUME NEW w \in Worker, NEW outcome \in { "succeeded", "failed" },
             HandlerReturns(w, outcome)
      PROVE  \/ workers'[v] = workers[v]
             \/ /\ workers[v] # Idle /\ workers'[v] # Idle
                /\ workers'[v].job = workers[v].job /\ workers'[v].attempt = workers[v].attempt
    <2>1. workers[w] # Idle /\ workers[w] \in Busy
        BY <1>1, StagedIsBusy, HeldJob DEF HandlerReturns
    <2>2. CASE v = w
        <3>1. /\ workers'[v].stage = outcome /\ workers'[v].job = workers[v].job
              /\ workers'[v].attempt = workers[v].attempt
            BY <1>1, <2>1, <2>2 DEF HandlerReturns, TypeOK, Busy
        <3>2. workers'[v] # Idle
            BY <3>1 DEF Idle
        <3> QED
            BY <2>1, <2>2, <3>1, <3>2
    <2>3. CASE v # w
        BY <1>1, <2>3 DEF HandlerReturns, TypeOK
    <2> QED
        BY <2>2, <2>3
<1>2. ASSUME NEW w \in Worker, NEW j \in Job, ClaimRecoveryJob(w, j), w # v
      PROVE  workers'[v] = workers[v]
    BY <1>2 DEF ClaimRecoveryJob, TypeOK
<1>3. ASSUME NEW w \in Worker, CompleteRecoveryJob(w) \/ FailRecoveryJob(w) \/ Abandon(w)
      PROVE  workers'[v] = workers[v] \/ workers'[v] = Idle
    BY <1>3 DEF CompleteRecoveryJob, FailRecoveryJob, Abandon, TypeOK
<1>4. CASE UNCHANGED workers
    BY <1>4
<1> QED
    BY <1>1, <1>2, <1>3, <1>4
       DEF Next, WorkerStep, CreateRecoveryJob, CancelRecoveryJob, Tick, vars

\* Attempts are never taken back.
LEMMA AttemptsGrow ==
    ASSUME TypeOK, [Next]_vars, NEW j \in Job, jobs[j] # NoJob
    PROVE  /\ jobs[j].attempts \in Nat /\ jobs'[j].attempts \in Nat
           /\ jobs[j].attempts <= jobs'[j].attempts
<1>0. jobs[j].attempts \in Nat
    BY RowFields DEF TypeOK
<1>1. ASSUME NEW i \in Job, NEW status \in Status, NEW left \in Nat,
             jobs[i] # NoJob, Release(i, status, left)
      PROVE  jobs'[j].attempts = jobs[j].attempts
    BY <1>1, Released
<1>2. ASSUME NEW i \in Job, CreateRecoveryJob(i)
      PROVE  jobs'[j] = jobs[j]
    BY <1>2 DEF CreateRecoveryJob, TypeOK
<1>3. ASSUME NEW i \in Job, CancelRecoveryJob(i)
      PROVE  jobs'[j].attempts = jobs[j].attempts
    <2>1. jobs[i] # NoJob /\ "cancelled" \in Status /\ 0 \in Nat
        BY <1>3 DEF CancelRecoveryJob, NoJob, Status
    <2> QED
        BY <1>1, <1>3, <2>1 DEF CancelRecoveryJob
<1>4. ASSUME NEW w \in Worker, NEW i \in Job, ClaimRecoveryJob(w, i)
      PROVE  jobs'[j].attempts = jobs[j].attempts \/ jobs'[j].attempts = jobs[j].attempts + 1
    BY <1>4, Claimed
<1>5. ASSUME NEW w \in Worker, CompleteRecoveryJob(w) \/ FailRecoveryJob(w)
      PROVE  jobs'[j].attempts = jobs[j].attempts
    <2>1. CASE jobs' = jobs
        BY <2>1
    <2>2. ASSUME Owns(w, jobs[workers[w].job]),
                 NEW status \in { "succeeded", "permanent_failed", "retry_wait" },
                 NEW left \in Nat, Release(workers[w].job, status, left)
          PROVE  jobs'[j].attempts = jobs[j].attempts
        <3>1. workers[w].job \in Job /\ status \in Status
            BY <1>5, Ended DEF Status
        <3>2. jobs[workers[w].job] # NoJob
            BY <2>2 DEF Owns, NoJob
        <3> QED
            BY <1>1, <2>2, <3>1, <3>2
    <2> QED
        BY <1>5, <2>1, <2>2, Ended
<1>6. CASE Tick
    BY <1>0, <1>6, Ticked
<1>7. CASE UNCHANGED jobs
    BY <1>0, <1>7
<1> QED
    BY <1>0, <1>2, <1>3, <1>4, <1>5, <1>6, <1>7
       DEF Next, WorkerStep, HandlerReturns, Abandon, vars

\* Every step keeps the claims numbered by the attempts of their job.
LEMMA NumberedStep ==
    ASSUME TypeOK, HeldJobsExist, ClaimsAreNumbered, [Next]_vars
    PROVE  ClaimsAreNumbered'
<1> DEFINE Keeps(v) == /\ workers[v] # Idle
                       /\ workers'[v].job = workers[v].job
                       /\ workers'[v].attempt = workers[v].attempt
<1>1. ASSUME NEW v \in Worker, Keeps(v)
      PROVE  /\ workers[v].job \in Job /\ workers[v].attempt \in Nat
             /\ jobs[workers[v].job].attempts \in Nat
             /\ jobs'[workers[v].job].attempts \in Nat
             /\ workers[v].attempt <= jobs[workers[v].job].attempts
             /\ workers'[v].attempt <= jobs'[workers'[v].job].attempts
    BY <1>1, HeldJob, AttemptsGrow DEF HeldJobsExist, ClaimsAreNumbered
<1>2. ASSUME NEW v \in Worker, NEW j \in Job, ClaimRecoveryJob(v, j)
      PROVE  /\ workers'[v].job = j /\ workers'[v].attempt = jobs[j].attempts + 1
             /\ jobs'[j].attempts = jobs[j].attempts + 1 /\ jobs[j].attempts \in Nat
             /\ \A w \in Worker \ {v} : workers'[w] = workers[w]
    BY <1>2, Claimed, RowFields
<1>3. ASSUME NEW v \in Worker, workers'[v] # Idle
      PROVE  Keeps(v) \/ \E j \in Job : ClaimRecoveryJob(v, j)
    BY <1>3, WorkerChanges
<1> HIDE DEF Keeps
<1>4. ASSUME NEW v \in Worker, workers'[v] # Idle
      PROVE  workers'[v].attempt <= jobs'[workers'[v].job].attempts
    BY <1>1, <1>2, <1>3, <1>4
<1>5. ASSUME NEW v \in Worker, NEW w \in Worker, v # w, workers'[w] # Idle,
             NEW j \in Job, ClaimRecoveryJob(v, j), workers'[w].job = j
      PROVE  workers'[v].attempt # workers'[w].attempt
    <2>1. workers'[w] = workers[w]
        BY <1>2, <1>5
    <2>2. Keeps(w)
        BY <1>5, <2>1 DEF Keeps
    <2> QED
        BY <1>1, <1>2, <1>5, <2>1, <2>2
<1>6. ASSUME NEW v \in Worker, NEW w \in Worker, v # w,
             workers'[v] # Idle, workers'[w] # Idle, workers'[v].job = workers'[w].job
      PROVE  workers'[v].attempt # workers'[w].attempt
    <2>1. CASE Keeps(v) /\ Keeps(w)
        BY <1>6, <2>1 DEF Keeps, ClaimsAreNumbered
    <2> QED
        BY <1>2, <1>3, <1>5, <1>6, <2>1
<1> QED
    BY <1>4, <1>6 DEF ClaimsAreNumbered

-----------------------------------------------------------------------------
\* Two workers do not both have the claim of one job.
LEMMA CurrentAlone ==
    ASSUME ClaimsAreNumbered, NEW v \in Worker, NEW w \in Worker,
           Current(v), Current(w), workers[v].job = workers[w].job
    PROVE  v = w
    BY DEF ClaimsAreNumbered, Current

\* What the assumptions say of the limits, in the form the provers need.
LEMMA LimitsArePositive ==
    /\ MaxAttempts \in Nat /\ MaxAttempts > 0
    /\ Lease \in Nat /\ Lease > 0
<1>1. MaxAttempts \in Nat /\ MaxAttempts # 0 /\ Lease \in Nat /\ Lease # 0
    BY RecoveryAssumption
<1> QED
    BY <1>1

\* The numbers the budget is about.
LEMMA RowNumbers ==
    ASSUME TypeOK, NEW j \in Job, jobs[j] # NoJob
    PROVE  jobs[j] \in JobRow /\ jobs[j].attempts \in Nat /\ jobs[j].left \in Nat
           /\ jobs[j].status \in Status /\ faults \in Nat /\ MaxAttempts \in Nat
    BY RowFields, RecoveryAssumption DEF TypeOK

\* A claim that counts is that of a running job.
LEMMA CoveredRuns ==
    ASSUME TypeOK, NEW j \in Job, Covered(j)
    PROVE  jobs[j].status = "running" /\ jobs[j].left > 0
    BY DEF Covered, Holders, Current, Owns

\* Before the limit the budget holds anyway: the late workers are paid for.
LEMMA EarlyIsPaid ==
    ASSUME NEW j \in Job, LateForAFault', faults' \in Nat, jobs'[j].attempts \in Nat,
           jobs'[j].attempts < MaxAttempts, jobs'[j].status # "permanent_failed"
    PROVE  WithinBudget(j)'
<1>1. /\ Cardinality(Late') \in Nat /\ Cardinality(Stale(j)') \in Nat
      /\ Cardinality(Stale(j)') <= Cardinality(Late') /\ Cardinality(Late') <= faults'
    BY LateFactsNext DEF LateForAFault
<1> DEFINE a == jobs'[j].attempts
           late == Cardinality(Late')
           stale == Cardinality(Stale(j)')
           f == faults'
<1>2. /\ a \in Nat /\ late \in Nat /\ stale \in Nat /\ MaxAttempts \in Nat
      /\ stale <= late /\ late <= f /\ a < MaxAttempts /\ f \in Nat
    BY <1>1, RecoveryAssumption
<1> HIDE DEF a, late, stale, f
<1>3. /\ a + 1 + stale <= MaxAttempts + f /\ a + stale <= MaxAttempts + f
      /\ a <= MaxAttempts + f
    BY <1>2
<1> QED
    BY <1>3 DEF WithinBudget, a, stale, f

\* The worker goes on as before, and its claim counts as before.
KeepsClaim(v) ==
    /\ workers'[v] = Idle <=> workers[v] = Idle
    /\ workers[v] # Idle => /\ workers'[v].job = workers[v].job
                            /\ workers'[v].attempt = workers[v].attempt
                            /\ Current(v)' <=> Current(v)

\* A step that leaves every worker its claim, and does not lose one.
LEMMA CalmStep ==
    ASSUME TypeOK, LateForAFault, faults' = faults, \A v \in Worker : KeepsClaim(v)
    PROVE  /\ LateForAFault'
           /\ \A j \in Job : /\ Stale(j)' = Stale(j)
                             /\ Covered(j)' <=> Covered(j)
                             /\ /\ jobs'[j].status = jobs[j].status
                                /\ jobs'[j].attempts = jobs[j].attempts
                                => (WithinBudget(j)' <=> WithinBudget(j))
<1>1. Late' = Late
    BY DEF Late, KeepsClaim
<1>2. ASSUME NEW j \in Job
      PROVE  Stale(j)' = Stale(j) /\ (Covered(j)' <=> Covered(j))
    <2>1. Stale(j)' = Stale(j)
        BY <1>1 DEF Stale, Late, KeepsClaim
    <2>2. Holders(j)' = Holders(j)
        BY DEF Holders, KeepsClaim
    <2>3. Covered(j)' <=> \E v \in Holders(j) : Current(v)'
        BY <2>2 DEF Covered
    <2> QED
        BY <2>1, <2>3 DEF Covered, Holders, KeepsClaim
<1>3. LateForAFault'
    BY <1>1 DEF LateForAFault
<1>4. ASSUME NEW j \in Job, jobs'[j].status = jobs[j].status,
             jobs'[j].attempts = jobs[j].attempts
      PROVE  WithinBudget(j)' <=> WithinBudget(j)
    BY <1>2, <1>4 DEF WithinBudget
<1> QED
    BY <1>2, <1>3, <1>4

\* A worker's claim counts as before where its row keeps all but what is left.
LEMMA SameClaim ==
    ASSUME NEW v \in Worker, workers[v] # Idle, workers'[v] # Idle,
           workers'[v].job = workers[v].job, workers'[v].attempt = workers[v].attempt,
           jobs'[workers[v].job] = jobs[workers[v].job]
    PROVE  Current(v)' <=> Current(v)
    BY DEF Current, Owns

\* A new job has no holders.
LEMMA CreationClaims ==
    ASSUME TypeOK, HeldJobsExist, NEW i \in Job, CreateRecoveryJob(i)
    PROVE  \A v \in Worker : KeepsClaim(v)
<1>1. /\ jobs[i] = NoJob /\ workers' = workers
      /\ \A k \in Job \ {i} : jobs'[k] = jobs[k]
    BY DEF CreateRecoveryJob, TypeOK
<1>2. ASSUME NEW v \in Worker, workers[v] # Idle
      PROVE  Current(v)' <=> Current(v)
    <2>1. workers[v].job \in Job \ {i}
        BY <1>1, <1>2, HeldJob DEF HeldJobsExist
    <2> QED
        BY <1>1, <1>2, <2>1, SameClaim
<1> QED
    BY <1>1, <1>2 DEF KeepsClaim

\* A new job has used none of its attempts.
LEMMA CreationPays ==
    ASSUME ClaimsInv, NEW i \in Job, CreateRecoveryJob(i)
    PROVE  LateForAFault' /\ \A j \in Job : jobs'[j] # NoJob => WithinBudget(j)'
<1>a. TypeOK /\ HeldJobsExist /\ LateForAFault
    BY DEF ClaimsInv, IInv
<1>1. /\ jobs[i] = NoJob /\ jobs'[i] = NewJob /\ faults' = faults
      /\ \A k \in Job \ {i} : jobs'[k] = jobs[k]
    BY <1>a DEF CreateRecoveryJob, TypeOK
<1>2. \A v \in Worker : KeepsClaim(v)
    BY <1>a, CreationClaims
<1>3. /\ LateForAFault'
      /\ \A j \in Job \ {i} : WithinBudget(j)' <=> WithinBudget(j)
    BY <1>a, <1>1, <1>2, CalmStep
<1>4. WithinBudget(i)'
    <2> DEFINE row == jobs'[i]
    <2>1. row = NewJob
        BY <1>1
    <2> HIDE DEF row
    <2>2. row.attempts = 0 /\ row.status = "pending"
        BY <2>1 DEF NewJob
    <2>a. MaxAttempts \in Nat /\ MaxAttempts > 0
        BY LimitsArePositive
    <2>3. row.attempts \in Nat /\ row.attempts < MaxAttempts
        BY <2>2, <2>a
    <2>4. jobs'[i].status # "permanent_failed"
        BY <2>2 DEF row
    <2>5. faults' \in Nat
        BY <1>a, <1>1 DEF TypeOK
    <2> QED
        BY <1>3, <2>3, <2>4, <2>5, EarlyIsPaid DEF row
<1> QED
    BY <1>1, <1>3, <1>4 DEF ClaimsInv

\* A cancelled job was not running, and is settled.
LEMMA CancellationClaims ==
    ASSUME TypeOK, NEW i \in Job, CancelRecoveryJob(i)
    PROVE  /\ \A v \in Worker : KeepsClaim(v)
           /\ jobs[i] # NoJob /\ jobs[i].status # "running" /\ jobs'[i].status = "cancelled"
           /\ jobs'[i].attempts = jobs[i].attempts /\ faults' = faults
           /\ \A k \in Job \ {i} : jobs'[k] = jobs[k]
<1>0. jobs[i] # NoJob /\ "cancelled" \in Status /\ 0 \in Nat /\ jobs[i].status # "running"
    BY DEF CancelRecoveryJob, NoJob, Status
<1>1. /\ jobs'[i].status = "cancelled" /\ jobs'[i].attempts = jobs[i].attempts
      /\ workers' = workers /\ faults' = faults
      /\ \A k \in Job \ {i} : jobs'[k] = jobs[k]
    BY <1>0, Released DEF CancelRecoveryJob
<1>2. ASSUME NEW v \in Worker, workers[v] # Idle
      PROVE  Current(v)' <=> Current(v)
    <2>1. CASE workers[v].job = i
        BY <1>0, <1>1, <2>1 DEF Current, Owns
    <2>2. CASE workers[v].job # i
        BY <1>1, <1>2, <2>2, HeldJob, SameClaim
    <2> QED
        BY <2>1, <2>2
<1>3. \A v \in Worker : KeepsClaim(v)
    BY <1>1, <1>2 DEF KeepsClaim
<1> QED
    BY <1>0, <1>1, <1>3

\* A cancellation starts no attempt, and makes no worker late without a fault.
LEMMA CancellationPays ==
    ASSUME ClaimsInv, NEW i \in Job, CancelRecoveryJob(i)
    PROVE  LateForAFault' /\ \A j \in Job : jobs'[j] # NoJob => WithinBudget(j)'
<1>a. TypeOK /\ LateForAFault
    BY DEF ClaimsInv, IInv
<1>0. jobs[i] # NoJob /\ jobs[i].status # "running"
    BY <1>a, CancellationClaims
<1>1. /\ jobs'[i].status = "cancelled" /\ jobs'[i].attempts = jobs[i].attempts
      /\ faults' = faults /\ \A k \in Job \ {i} : jobs'[k] = jobs[k]
    BY <1>a, CancellationClaims
<1>2. \A v \in Worker : KeepsClaim(v)
    BY <1>a, CancellationClaims
<1>3. /\ LateForAFault'
      /\ \A j \in Job \ {i} : WithinBudget(j)' <=> WithinBudget(j)
      /\ Covered(i)' <=> Covered(i)
    BY <1>a, <1>1, <1>2, CalmStep
<1>4. ~Covered(i)
    BY <1>a, <1>0, CoveredRuns
<1>5. WithinBudget(i)'
    BY <1>0, <1>1, <1>3, <1>4 DEF WithinBudget, ClaimsInv, Settled
<1> QED
    BY <1>1, <1>3, <1>5 DEF ClaimsInv

\* A handler's end changes no claim.
LEMMA ReturningClaims ==
    ASSUME TypeOK, NEW w \in Worker, NEW outcome \in { "succeeded", "failed" },
           HandlerReturns(w, outcome)
    PROVE  /\ \A v \in Worker : KeepsClaim(v)
           /\ workers[w] # Idle /\ workers'[w] # Idle /\ workers'[w].stage = outcome
           /\ workers'[w].job = workers[w].job
           /\ \A v \in Worker \ {w} : workers'[v] = workers[v]
<1>1. workers[w] # Idle /\ workers[w] \in Busy /\ jobs' = jobs
    BY StagedIsBusy, HeldJob DEF HandlerReturns
<1>2. /\ workers'[w].stage = outcome /\ workers'[w].job = workers[w].job
      /\ workers'[w].attempt = workers[w].attempt
      /\ \A v \in Worker \ {w} : workers'[v] = workers[v]
    BY <1>1 DEF HandlerReturns, TypeOK, Busy
<1>3. workers'[w] # Idle
    BY <1>2 DEF Idle
<1>4. ASSUME NEW v \in Worker
      PROVE  /\ workers'[v] = Idle <=> workers[v] = Idle
             /\ workers[v] # Idle => /\ workers'[v].job = workers[v].job
                                     /\ workers'[v].attempt = workers[v].attempt
    BY <1>1, <1>2, <1>3
<1>5. ASSUME NEW v \in Worker, workers[v] # Idle
      PROVE  Current(v)' <=> Current(v)
    BY <1>1, <1>4, <1>5, SameClaim
<1>6. \A v \in Worker : KeepsClaim(v)
    BY <1>4, <1>5 DEF KeepsClaim
<1> QED
    BY <1>1, <1>2, <1>3, <1>6

\* A handler that returns starts no attempt and makes nobody late.
LEMMA ReturningPays ==
    ASSUME ClaimsInv, NEW w \in Worker, NEW outcome \in { "succeeded", "failed" },
           HandlerReturns(w, outcome)
    PROVE  LateForAFault' /\ \A j \in Job : jobs'[j] # NoJob => WithinBudget(j)'
<1>a. TypeOK /\ LateForAFault /\ jobs' = jobs /\ faults' = faults
    BY DEF ClaimsInv, IInv, HandlerReturns
<1>1. \A v \in Worker : KeepsClaim(v)
    BY <1>a, ReturningClaims
<1>2. LateForAFault' /\ \A j \in Job : (WithinBudget(j)' <=> WithinBudget(j))
    BY <1>a, <1>1, CalmStep
<1> QED
    BY <1>a, <1>2 DEF ClaimsInv

\* The claim of a job is the only one that counts; nobody had one.
LEMMA ClaimClaims ==
    ASSUME TypeOK, ClaimsAreNumbered, NEW w \in Worker, NEW i \in Job,
           ClaimRecoveryJob(w, i)
    PROVE  /\ workers[w] = Idle /\ workers'[w] # Idle /\ Current(w)'
           /\ workers'[w].stage = "handling" /\ workers'[w].job = i
           /\ jobs[i].status \in { "pending", "retry_wait", "running" }
           /\ \A v \in Holders(i) : ~Current(v)
           /\ \A v \in Worker \ {w} : workers'[v] = workers[v] /\ KeepsClaim(v)
<1>0. /\ workers[w] = Idle /\ jobs[i] # NoJob
      /\ jobs[i].status \in { "pending", "retry_wait", "running" } /\ jobs[i].left = 0
    BY DEF ClaimRecoveryJob, ClaimableAt
<1>1. /\ jobs'[i].status = "running" /\ jobs'[i].owner = Owner[w]
      /\ jobs'[i].attempts = jobs[i].attempts + 1
      /\ \A k \in Job \ {i} : jobs'[k] = jobs[k]
      /\ workers'[w].stage = "handling" /\ workers'[w].job = i
      /\ workers'[w].attempt = jobs[i].attempts + 1
      /\ \A v \in Worker \ {w} : workers'[v] = workers[v]
    <2>1. /\ jobs'[i].status = "running" /\ jobs'[i].owner = Owner[w]
          /\ jobs'[i].attempts = jobs[i].attempts + 1
        BY Claimed
    <2>2. /\ workers'[w].stage = "handling" /\ workers'[w].job = i
          /\ workers'[w].attempt = jobs[i].attempts + 1
        BY Claimed
    <2>3. /\ \A k \in Job \ {i} : jobs'[k] = jobs[k]
          /\ \A v \in Worker \ {w} : workers'[v] = workers[v]
        BY DEF ClaimRecoveryJob, TypeOK
    <2> QED
        BY <2>1, <2>2, <2>3
<1>b. workers'[w] # Idle
    BY <1>1 DEF Idle
<1>c. jobs'[i].left = Lease /\ Lease > 0
    <2> DEFINE row == jobs'[i]
    <2>1. row = [status |-> "running", attempts |-> jobs[i].attempts + 1,
                 left |-> Lease, owner |-> Owner[w]]
        BY Claimed
    <2> HIDE DEF row
    <2>2. row.left = Lease
        BY <2>1
    <2>3. Lease > 0
        BY LimitsArePositive
    <2> QED
        BY <2>2, <2>3 DEF row
<1>d. jobs[i].attempts \in Nat
    BY <1>0, RowNumbers
<1>2. ASSUME NEW v \in Worker, v # w, workers[v] # Idle
      PROVE  Current(v)' <=> Current(v)
    <2>1. workers'[v] = workers[v]
        BY <1>1, <1>2
    <2>2. CASE workers[v].job = i
        <3>1. workers[v].attempt \in Nat /\ workers[v].attempt <= jobs[i].attempts
            BY <1>2, <2>2, HeldJob DEF ClaimsAreNumbered
        <3>2. workers[v].attempt # jobs[i].attempts + 1
            BY <1>d, <3>1
        <3>3. ~Current(v)'
            BY <1>1, <2>1, <2>2, <3>2 DEF Current
        <3>4. ~Current(v)
            BY <1>0, <2>2 DEF Current
        <3> QED
            BY <3>3, <3>4
    <2>3. CASE workers[v].job # i
        BY <1>1, <1>2, <2>1, <2>3, HeldJob, SameClaim
    <2> QED
        BY <2>2, <2>3
<1>3. Current(w)'
    BY <1>1, <1>b, <1>c DEF Current, Owns
<1>4. \A v \in Worker \ {w} : workers'[v] = workers[v] /\ KeepsClaim(v)
    BY <1>1, <1>2 DEF KeepsClaim
<1>5. \A v \in Holders(i) : ~Current(v)
    BY <1>0 DEF Holders, Current
<1> QED
    BY <1>0, <1>1, <1>3, <1>4, <1>5, <1>b

\* Budget: a claim takes what the waiting job had put aside for it.
LEMMA ClaimPays ==
    ASSUME ClaimsInv, NEW w \in Worker, NEW i \in Job, ClaimRecoveryJob(w, i)
    PROVE  LateForAFault' /\ \A j \in Job : jobs'[j] # NoJob => WithinBudget(j)'
<1>a. TypeOK /\ LateForAFault /\ ClaimsAreNumbered
    BY DEF ClaimsInv, IInv
<1>0. jobs[i] # NoJob /\ faults' = faults
    BY DEF ClaimRecoveryJob
<1>1. /\ jobs'[i].status = "running" /\ jobs'[i].attempts = jobs[i].attempts + 1
      /\ \A k \in Job \ {i} : jobs'[k] = jobs[k]
    <2>1. jobs'[i].status = "running" /\ jobs'[i].attempts = jobs[i].attempts + 1
        BY <1>a, Claimed
    <2>2. \A k \in Job \ {i} : jobs'[k] = jobs[k]
        BY <1>a DEF ClaimRecoveryJob, TypeOK
    <2> QED
        BY <2>1, <2>2
<1>2. /\ workers[w] = Idle /\ workers'[w] # Idle /\ Current(w)' /\ workers'[w].job = i
      /\ jobs[i].status \in { "pending", "retry_wait", "running" }
    BY <1>a, ClaimClaims
<1>3. /\ \A v \in Holders(i) : ~Current(v)
      /\ \A v \in Worker \ {w} : workers'[v] = workers[v] /\ KeepsClaim(v)
    BY <1>a, ClaimClaims
<1>4. Late' = Late
    BY <1>2, <1>3 DEF Late, KeepsClaim
<1>5. ASSUME NEW j \in Job
      PROVE  Stale(j)' = Stale(j)
    BY <1>2, <1>3, <1>4 DEF Stale, Late
<1>6. ASSUME NEW j \in Job \ {i}
      PROVE  WithinBudget(j)' <=> WithinBudget(j)
    <2>1. Holders(j)' = Holders(j) /\ w \notin Holders(j)
        BY <1>2, <1>3 DEF Holders
    <2>2. Covered(j)' <=> Covered(j)
        BY <1>2, <1>3, <2>1 DEF Covered, Holders, KeepsClaim
    <2> QED
        BY <1>0, <1>1, <1>5, <2>2 DEF WithinBudget
<1>7. Covered(i)' /\ ~Covered(i) /\ jobs[i].status \notin Settled
    <2>1. w \in Holders(i)'
        BY <1>2 DEF Holders
    <2>2. Covered(i)'
        BY <1>2, <2>1 DEF Covered
    <2>3. ~Covered(i)
        BY <1>3 DEF Covered
    <2> QED
        BY <1>2, <2>2, <2>3 DEF Settled
<1>8. WithinBudget(i)'
    <2> DEFINE a == jobs[i].attempts
               stale == Cardinality(Stale(i))
    <2>1. a + 1 + stale <= MaxAttempts + faults
        BY <1>0, <1>7 DEF ClaimsInv, WithinBudget
    <2>2. a \in Nat /\ stale \in Nat /\ MaxAttempts \in Nat /\ faults \in Nat
        BY <1>a, <1>0, RowNumbers, LateFacts
    <2> HIDE DEF a, stale
    <2>3. a + 1 <= MaxAttempts + faults /\ (a + 1) + stale <= MaxAttempts + faults
        BY <2>1, <2>2
    <2>4. jobs'[i].attempts = a + 1 /\ Cardinality(Stale(i)') = stale
        BY <1>1, <1>5 DEF a, stale
    <2> QED
        BY <1>0, <1>1, <1>7, <2>3, <2>4 DEF WithinBudget, Settled
<1> QED
    BY <1>0, <1>1, <1>4, <1>6, <1>8 DEF LateForAFault, ClaimsInv

Leaves(w) == workers' = [workers EXCEPT ![w] = Idle]

\* A worker that leaves changes no other's claim.
LEMMA LeavingClaims ==
    ASSUME TypeOK, NEW w \in Worker, workers[w] # Idle,
           Leaves(w), jobs' = jobs
    PROVE  /\ workers'[w] = Idle
           /\ \A v \in Worker \ {w} : workers'[v] = workers[v] /\ KeepsClaim(v)
<1>1. workers'[w] = Idle /\ \A v \in Worker \ {w} : workers'[v] = workers[v]
    BY DEF Leaves, TypeOK
<1>2. ASSUME NEW v \in Worker \ {w}, workers[v] # Idle
      PROVE  Current(v)' <=> Current(v)
    BY <1>1, <1>2, SameClaim
<1> QED
    BY <1>1, <1>2 DEF KeepsClaim

\* Budget: a worker leaves its job as it is.  If its claim counted, that is a fault.
LEMMA LeavingPays ==
    ASSUME ClaimsInv, NEW w \in Worker, workers[w] # Idle,
           Leaves(w), jobs' = jobs,
           (faults' = faults /\ ~Current(w)) \/ faults' = faults + 1
    PROVE  LateForAFault' /\ \A j \in Job : jobs'[j] # NoJob => WithinBudget(j)'
<1>a. TypeOK /\ LateForAFault /\ faults \in Nat
    BY DEF ClaimsInv, IInv, TypeOK
<1>1. workers'[w] = Idle /\ \A v \in Worker \ {w} : workers'[v] = workers[v]
    BY <1>a, LeavingClaims
<1>2. ASSUME NEW v \in Worker \ {w}, workers[v] # Idle
      PROVE  Current(v)' <=> Current(v)
    BY <1>2, <1>a, LeavingClaims DEF KeepsClaim
<1>3. Late' \in SUBSET Late
    BY <1>1, <1>2 DEF Late
<1>4. LateForAFault'
    <2> DEFINE late == Cardinality(Late)
               lateNext == Cardinality(Late')
    <2>1. Late \in SUBSET Worker
        BY DEF Late
    <2>2. late \in Nat /\ lateNext \in Nat /\ lateNext <= late /\ late <= faults
        BY <1>a, <1>3, <2>1, Smaller DEF LateForAFault
    <2> HIDE DEF late, lateNext
    <2>3. lateNext <= faults'
        BY <1>a, <2>2
    <2> QED
        BY <2>3 DEF LateForAFault, lateNext
<1>5. ASSUME NEW j \in Job, jobs'[j] # NoJob
      PROVE  WithinBudget(j)'
    <2>1. Covered(j)' => Covered(j)
        BY <1>1, <1>2 DEF Covered, Holders
    <2>2. Covered(j) /\ ~Covered(j)' => Current(w)
        BY <1>1, <1>2 DEF Covered, Holders
    <2>3. Stale(j)' \in SUBSET Stale(j) /\ Stale(j) \in SUBSET Worker
        BY <1>1, <1>3 DEF Stale, Late
    <2> DEFINE a == jobs[j].attempts
               stale == Cardinality(Stale(j))
               staleNext == Cardinality(Stale(j)')
               f == faults'
    <2>4. stale \in Nat /\ staleNext \in Nat /\ staleNext <= stale
        BY <2>3, Smaller
    <2>5. a \in Nat /\ MaxAttempts \in Nat
        BY <1>a, <1>5, RowNumbers
    <2>6. f = faults \/ f = faults + 1
        OBVIOUS
    <2>7. Covered(j) /\ ~Covered(j)' => f = faults + 1
        BY <2>2
    <2>8. /\ a <= MaxAttempts + faults
          /\ jobs[j].status = "permanent_failed" => a >= MaxAttempts
          /\ Covered(j) => a + stale <= MaxAttempts + faults
          /\ jobs[j].status \notin Settled /\ ~Covered(j)
                 => a + 1 + stale <= MaxAttempts + faults
        BY <1>5 DEF ClaimsInv, WithinBudget
    <2>b. jobs'[j].attempts = a /\ jobs'[j].status = jobs[j].status
        OBVIOUS
    <2> HIDE DEF a, stale, staleNext, f
    <2>9. /\ a <= MaxAttempts + f
          /\ Covered(j)' => a + staleNext <= MaxAttempts + f
          /\ jobs[j].status \notin Settled /\ ~Covered(j)'
                 => a + 1 + staleNext <= MaxAttempts + f
        BY <1>a, <2>1, <2>4, <2>5, <2>6, <2>7, <2>8
    <2> QED
        BY <2>8, <2>9, <2>b DEF WithinBudget, staleNext, f
<1> QED
    BY <1>4, <1>5

\* What the end of a claim does, and what it is decided on.
LEMMA EndsHow ==
    ASSUME TypeOK, NEW w \in Worker, CompleteRecoveryJob(w) \/ FailRecoveryJob(w)
    PROVE  /\ workers[w] # Idle /\ workers[w].job \in Job
           /\ Leaves(w) /\ faults' = faults
           /\ \/ ~Owns(w, jobs[workers[w].job]) /\ jobs' = jobs
              \/ /\ Owns(w, jobs[workers[w].job])
                 /\ \E status \in { "succeeded", "permanent_failed", "retry_wait" }, left \in Nat :
                      /\ status = "permanent_failed" => workers[w].attempt >= MaxAttempts
                      /\ status = "retry_wait" => /\ ~(workers[w].attempt >= MaxAttempts)
                                                  /\ workers[w].stage = "failed"
                      /\ Release(workers[w].job, status, left)
<1>1. workers[w] # Idle
    BY StagedIsBusy DEF CompleteRecoveryJob, FailRecoveryJob
<1>2. workers[w].job \in Job /\ workers[w].attempt \in Nat
    BY <1>1, HeldJob
<1>3. Backoff(workers[w].attempt) \in Nat /\ 0 \in Nat
    BY <1>2, BackoffIsNatural
<1>4. CASE CompleteRecoveryJob(w)
    BY <1>1, <1>2, <1>3, <1>4 DEF CompleteRecoveryJob, Leaves
<1>5. CASE FailRecoveryJob(w)
    BY <1>1, <1>2, <1>3, <1>5 DEF FailRecoveryJob, Leaves
<1> QED
    BY <1>4, <1>5

\* A release ends every claim of its job, and no other.
ReleasedBy(w, i, status) ==
    /\ workers'[w] = Idle /\ \A v \in Worker \ {w} : workers'[v] = workers[v]
    /\ jobs[i] # NoJob /\ jobs[i].status = "running"
    /\ jobs'[i].status = status /\ jobs'[i].attempts = jobs[i].attempts
    /\ \A k \in Job \ {i} : jobs'[k] = jobs[k]
    /\ \A v \in Worker \ {w} :
           workers[v] # Idle /\ workers[v].job # i => (Current(v)' <=> Current(v))
    /\ \A v \in Worker : workers'[v] # Idle /\ workers'[v].job = i => ~Current(v)'

\* The update of a worker that still owns its job ends the one claim on it.
LEMMA ReleaseClaims ==
    ASSUME TypeOK, NEW w \in Worker, NEW i \in Job, workers[w] # Idle, workers[w].job = i,
           Leaves(w), Owns(w, jobs[i]),
           NEW status \in { "succeeded", "permanent_failed", "retry_wait" }, NEW left \in Nat,
           Release(i, status, left)
    PROVE  ReleasedBy(w, i, status)
<1>0. jobs[i].status = "running" /\ jobs[i] # NoJob /\ status \in Status
    BY DEF Owns, NoJob, Status
<1>1. workers'[w] = Idle /\ \A v \in Worker \ {w} : workers'[v] = workers[v]
    BY DEF Leaves, TypeOK
<1>2. /\ jobs'[i].status = status /\ jobs'[i].attempts = jobs[i].attempts
      /\ \A k \in Job \ {i} : jobs'[k] = jobs[k]
    BY <1>0, Released
<1>3. ASSUME NEW v \in Worker \ {w}, workers[v] # Idle, workers[v].job # i
      PROVE  Current(v)' <=> Current(v)
    <2>1. workers[v].job \in Job \ {i}
        BY <1>3, HeldJob
    <2> QED
        BY <1>1, <1>2, <1>3, <2>1, SameClaim
<1>4. ASSUME NEW v \in Worker, workers'[v] # Idle, workers'[v].job = i
      PROVE  ~Current(v)'
    BY <1>2, <1>4 DEF Current, Owns
<1> QED
    BY <1>0, <1>1, <1>2, <1>3, <1>4 DEF ReleasedBy

\* Budget: the owner's name releases the row.  If it was a late worker's, it has
\* used up its fault, and the worker whose claim it ends takes its place.
LEMMA ReleasePays ==
    ASSUME ClaimsInv, NEW w \in Worker, NEW i \in Job, workers[w] # Idle, workers[w].job = i,
           Leaves(w), faults' = faults,
           Owns(w, jobs[i]),
           NEW status \in { "succeeded", "permanent_failed", "retry_wait" }, NEW left \in Nat,
           status = "permanent_failed" => workers[w].attempt >= MaxAttempts,
           status = "retry_wait" => ~(workers[w].attempt >= MaxAttempts),
           Release(i, status, left)
    PROVE  LateForAFault' /\ \A j \in Job : jobs'[j] # NoJob => WithinBudget(j)'
<1>a. TypeOK /\ LateForAFault /\ ClaimsAreNumbered /\ faults \in Nat
    BY DEF ClaimsInv, IInv, TypeOK
<1>r. ReleasedBy(w, i, status)
    BY <1>a, ReleaseClaims
<1>0. jobs[i].status = "running" /\ jobs[i] # NoJob
    BY <1>r DEF ReleasedBy
<1>1. workers'[w] = Idle /\ \A v \in Worker \ {w} : workers'[v] = workers[v]
    BY <1>r DEF ReleasedBy
<1>2. /\ jobs'[i].status = status /\ jobs'[i].attempts = jobs[i].attempts
      /\ \A k \in Job \ {i} : jobs'[k] = jobs[k]
    BY <1>r DEF ReleasedBy
<1>b. workers[w].attempt \in Nat /\ workers[w].attempt <= jobs[i].attempts
    BY <1>a, HeldJob DEF ClaimsAreNumbered
<1>3. ASSUME NEW v \in Worker \ {w}, workers[v] # Idle, workers[v].job # i
      PROVE  Current(v)' <=> Current(v)
    BY <1>3, <1>r DEF ReleasedBy
<1>4. ASSUME NEW v \in Worker, workers'[v] # Idle, workers'[v].job = i
      PROVE  ~Current(v)'
    BY <1>4, <1>r DEF ReleasedBy
<1>c. ASSUME NEW v \in Late', v \notin Late
      PROVE  v \in Worker \ {w} /\ Current(v) /\ workers[v].job = i
    BY <1>1, <1>3, <1>c DEF Late
<1>5. LateForAFault'
    <2>1. Late \in SUBSET Worker /\ Late' \in SUBSET Worker
        BY DEF Late
    <2>2. Cardinality(Late') <= Cardinality(Late)
        <3>1. CASE Late' \subseteq Late
            BY <2>1, <3>1, Smaller
        <3>2. ASSUME NEW u \in Late', u \notin Late
              PROVE  Cardinality(Late') <= Cardinality(Late)
            <4>1. u \in Worker \ {w} /\ Current(u) /\ workers[u].job = i
                BY <1>c, <3>2
            <4>2. ~Current(w)
                BY <1>a, <4>1, CurrentAlone
            <4>3. w \in Late
                BY <4>2 DEF Late
            <4>4. Late' \subseteq Late \cup {u}
                BY <1>a, <1>c, <4>1, CurrentAlone
            <4>5. w \notin Late'
                BY <1>1 DEF Late
            <4>6. Late' \subseteq (Late \ {w}) \cup {u}
                BY <4>4, <4>5
            <4> QED
                BY <2>1, <4>3, <4>6, Exchanged
        <3> QED
            BY <3>1, <3>2
    <2>3. Cardinality(Late) \in Nat /\ Cardinality(Late') \in Nat
        BY <2>1, Smaller
    <2> DEFINE late == Cardinality(Late)
               lateNext == Cardinality(Late')
    <2>4. late \in Nat /\ lateNext \in Nat /\ lateNext <= late /\ late <= faults
        BY <1>a, <2>2, <2>3 DEF LateForAFault
    <2> HIDE DEF late, lateNext
    <2>5. lateNext <= faults
        BY <1>a, <2>4
    <2> QED
        BY <2>5 DEF LateForAFault, lateNext
<1>6. ASSUME NEW j \in Job \ {i}, jobs'[j] # NoJob
      PROVE  WithinBudget(j)'
    <2>1. \A v \in Worker : v \in Holders(j)' <=> v \in Holders(j)
        BY <1>1 DEF Holders
    <2>2. Covered(j)' <=> Covered(j)
        BY <1>1, <1>3, <2>1 DEF Covered, Holders
    <2>3. Stale(j)' = Stale(j)
        BY <1>1, <1>3 DEF Stale, Late
    <2> QED
        BY <1>2, <1>6, <2>2, <2>3 DEF WithinBudget, ClaimsInv
<1>7. WithinBudget(i)'
    <2>1. ~Covered(i)'
        BY <1>4 DEF Covered, Holders
    <2> DEFINE a == jobs[i].attempts
               n == workers[w].attempt
               stale == Cardinality(Stale(i))
               staleNext == Cardinality(Stale(i)')
    <2>2. a \in Nat /\ MaxAttempts \in Nat /\ faults \in Nat
        BY <1>a, <1>0, RowNumbers
    <2>3. n \in Nat /\ n <= a
        BY <1>b
    <2>4. stale \in Nat /\ staleNext \in Nat
        BY <1>0, LateFacts, LateFactsNext
    <2>5. /\ a <= MaxAttempts + faults
          /\ a + stale <= MaxAttempts + faults \/ a + 1 + stale <= MaxAttempts + faults
        BY <1>0 DEF ClaimsInv, WithinBudget, Settled
    <2>6. /\ status = "permanent_failed" => n >= MaxAttempts
          /\ status = "retry_wait" => ~(n >= MaxAttempts)
        OBVIOUS
    <2>7. ASSUME a >= MaxAttempts, ~(n >= MaxAttempts)
          PROVE  staleNext + 1 <= stale
        <3>1. n # a /\ n < MaxAttempts
            BY <2>2, <2>3, <2>7
        <3>2. w \in Stale(i)
            BY <3>1 DEF Stale, Late, Current
        <3>3. ASSUME NEW v \in Stale(i)'
              PROVE  v \in Stale(i) /\ v # w
            <4>1. /\ v \in Worker \ {w} /\ workers[v] # Idle /\ workers[v].job = i
                  /\ workers[v].attempt < MaxAttempts
                BY <1>1, <3>3 DEF Stale, Late
            <4>2. workers[v].attempt \in Nat
                BY <1>a, <4>1, HeldJob
            <4> DEFINE m == workers[v].attempt
            <4>3. m \in Nat /\ m < MaxAttempts
                BY <4>1, <4>2
            <4> HIDE DEF m, a
            <4>4. m # a
                BY <2>2, <2>7, <4>3
            <4>5. ~Current(v)
                BY <4>1, <4>4 DEF Current, m, a
            <4> QED
                BY <4>1, <4>5 DEF Stale, Late
        <3>4. Stale(i) \in SUBSET Worker
            BY DEF Stale, Late
        <3> QED
            BY <3>2, <3>3, <3>4, Smaller
    <2>8. CASE a < MaxAttempts /\ status # "permanent_failed"
        BY <1>0, <1>2, <1>5, <1>a, <2>2, <2>8, EarlyIsPaid
    <2>9. CASE ~(a < MaxAttempts) \/ status = "permanent_failed"
        <3>1. jobs'[i].attempts = a /\ jobs'[i].status = status
            BY <1>2
        <3> HIDE DEF a, n, stale, staleNext
        <3>2. a >= MaxAttempts
            BY <2>2, <2>3, <2>6, <2>9
        <3>3. status = "retry_wait" => a + 1 + staleNext <= MaxAttempts + faults
            BY <2>2, <2>4, <2>5, <2>6, <2>7, <3>2
        <3> QED
            BY <2>1, <2>5, <3>1, <3>2, <3>3 DEF WithinBudget, Settled, staleNext
    <2> QED
        BY <2>8, <2>9
<1> QED
    BY <1>5, <1>6, <1>7

\* Time ends the claims whose leases run out, and no other.
LEMMA TickClaims ==
    ASSUME TypeOK, HeldJobsExist, Tick
    PROVE  /\ workers' = workers /\ faults' = faults + Cardinality(Overrunning)
           /\ Overrunning \in SUBSET Worker /\ Cardinality(Overrunning) \in Nat
           /\ \A j \in Job : /\ jobs'[j].status = jobs[j].status
                             /\ jobs'[j].attempts = jobs[j].attempts
           /\ \A v \in Worker : workers[v] # Idle
                  => (Current(v)' <=> Current(v) /\ v \notin Overrunning)
<1>1. /\ workers' = workers /\ faults' = faults + Cardinality(Overrunning)
      /\ Overrunning \in SUBSET Worker
    BY DEF Tick, Overrunning
<1>2. ASSUME NEW j \in Job
      PROVE  /\ jobs'[j].status = jobs[j].status /\ jobs'[j].attempts = jobs[j].attempts
             /\ jobs'[j].owner = jobs[j].owner
    BY <1>2, Ticked
<1>3. ASSUME NEW j \in Job, jobs[j] # NoJob
      PROVE  jobs'[j].left > 0 <=> jobs[j].left > 0 /\ jobs[j].left # 1
    <2>1. jobs[j] \in JobRow /\ jobs[j].left \in Nat
        BY <1>3, RowNumbers
    <2>2. CASE jobs[j].left > 0
        <3>1. jobs'[j] = [jobs[j] EXCEPT !.left = @ - 1]
            BY <1>3, <2>2 DEF Tick
        <3>2. jobs'[j].left = jobs[j].left - 1
            BY <2>1, <3>1 DEF JobRow
        <3> QED
            BY <2>1, <2>2, <3>2
    <2>3. CASE ~(jobs[j].left > 0)
        <3>1. jobs'[j] = jobs[j]
            BY <1>3, <2>3 DEF Tick
        <3> QED
            BY <2>3, <3>1
    <2> QED
        BY <2>2, <2>3
<1>4. ASSUME NEW v \in Worker, workers[v] # Idle
      PROVE  Current(v)' <=> Current(v) /\ v \notin Overrunning
    <2>1. workers[v].job \in Job /\ jobs[workers[v].job] # NoJob
        BY <1>4, HeldJob DEF HeldJobsExist
    <2> QED
        BY <1>1, <1>2, <1>3, <1>4, <2>1 DEF Current, Owns, Overrunning
<1>5. Cardinality(Overrunning) \in Nat
    BY <1>1, Smaller
<1> QED
    BY <1>1, <1>2, <1>4, <1>5

\* Budget: the workers whose leases run out are late from now on, and counted.
LEMMA TickPays ==
    ASSUME ClaimsInv, Tick
    PROVE  LateForAFault' /\ \A j \in Job : jobs'[j] # NoJob => WithinBudget(j)'
<1>a. TypeOK /\ LateForAFault /\ ClaimsAreNumbered /\ HeldJobsExist /\ faults \in Nat
    BY DEF ClaimsInv, IInv, TypeOK
<1>1. /\ workers' = workers /\ faults' = faults + Cardinality(Overrunning)
      /\ Overrunning \in SUBSET Worker
    BY <1>a, TickClaims
<1>2. ASSUME NEW j \in Job
      PROVE  jobs'[j].status = jobs[j].status /\ jobs'[j].attempts = jobs[j].attempts
    BY <1>2, <1>a, TickClaims
<1>4. ASSUME NEW v \in Worker, workers[v] # Idle
      PROVE  Current(v)' <=> Current(v) /\ v \notin Overrunning
    BY <1>4, <1>a, TickClaims
<1>5. Cardinality(Overrunning) \in Nat
    BY <1>1, Smaller
<1>6. LateForAFault'
    <2>1. Late \in SUBSET Worker /\ Late' \in SUBSET Worker
        BY DEF Late
    <2>2. Late' \subseteq Late \cup Overrunning
        BY <1>1, <1>4 DEF Late
    <2> DEFINE late == Cardinality(Late)
               lateNext == Cardinality(Late')
               lost == Cardinality(Overrunning)
    <2>3. lateNext <= late + lost /\ lateNext \in Nat /\ late \in Nat /\ lost \in Nat
        <3>1. IsFiniteSet(Late) /\ IsFiniteSet(Overrunning)
            BY <1>1, <2>1, RecoveryAssumption, FS_Subset
        <3> DEFINE both == Cardinality(Late \cap Overrunning)
                   all == Cardinality(Late \cup Overrunning)
        <3>2. IsFiniteSet(Late \cup Overrunning) /\ all = late + lost - both
            BY <3>1, FS_Union
        <3>3. Late \cap Overrunning \in SUBSET Worker
            BY <2>1
        <3>4. late \in Nat /\ lost \in Nat /\ both \in Nat
            BY <1>5, <2>1, <3>3, Smaller
        <3>5. lateNext <= all
            BY <2>2, <3>2, FS_Subset
        <3>6. lateNext \in Nat
            BY <2>1, Smaller
        <3> HIDE DEF late, lateNext, lost, both, all
        <3> QED
            BY <3>2, <3>4, <3>5, <3>6
    <2>4. late <= faults /\ faults' = faults + lost
        BY <1>a, <1>1 DEF LateForAFault
    <2> HIDE DEF late, lateNext, lost
    <2>5. lateNext <= faults + lost
        BY <1>a, <2>3, <2>4
    <2> QED
        BY <2>4, <2>5 DEF LateForAFault, lateNext
<1>7. ASSUME NEW j \in Job, jobs'[j] # NoJob
      PROVE  WithinBudget(j)'
    <2>0. jobs[j] # NoJob
        BY <1>a, <1>7, Ticked
    <2>1. Covered(j)' => Covered(j)
        BY <1>1, <1>4 DEF Covered, Holders
    <2>2. ASSUME Covered(j), ~Covered(j)'
          PROVE  Cardinality(Overrunning) >= 1
        <3>1. PICK v \in Holders(j) : Current(v)
            BY <2>2 DEF Covered
        <3>2. v \in Overrunning
            BY <1>1, <1>4, <2>2, <3>1 DEF Covered, Holders
        <3>3. Cardinality({}) + 1 <= Cardinality(Overrunning) /\ Cardinality({}) \in Nat
            BY <1>1, <3>2, Smaller
        <3> QED
            BY <1>5, <3>3
    <2>3. ASSUME NEW v \in Stale(j)', v \notin Stale(j)
          PROVE  jobs[j].attempts < MaxAttempts
        BY <1>1, <1>4, <2>3 DEF Stale, Late, Current
    <2> DEFINE a == jobs[j].attempts
               stale == Cardinality(Stale(j))
               staleNext == Cardinality(Stale(j)')
               lost == Cardinality(Overrunning)
               f == faults'
    <2>4. /\ a \in Nat /\ MaxAttempts \in Nat /\ stale \in Nat /\ staleNext \in Nat
          /\ lost \in Nat /\ f = faults + lost
        BY <1>1, <1>5, <1>a, <2>0, RowNumbers, LateFacts, LateFactsNext
    <2>5. jobs'[j].attempts = a /\ jobs'[j].status = jobs[j].status
        BY <1>2
    <2>6. /\ a <= MaxAttempts + faults
          /\ jobs[j].status = "permanent_failed" => a >= MaxAttempts
          /\ Covered(j) => a + stale <= MaxAttempts + faults
          /\ jobs[j].status \notin Settled /\ ~Covered(j)
                 => a + 1 + stale <= MaxAttempts + faults
        BY <2>0 DEF ClaimsInv, WithinBudget
    <2>7. ~(a < MaxAttempts) => staleNext <= stale
        <3>1. ~(a < MaxAttempts) => Stale(j)' \in SUBSET Stale(j)
            BY <2>3
        <3>2. Stale(j) \in SUBSET Worker
            BY DEF Stale, Late
        <3> QED
            BY <3>1, <3>2, Smaller
    <2>8. CASE a < MaxAttempts
        <3>1. jobs'[j].status # "permanent_failed"
            BY <2>4, <2>5, <2>6, <2>8
        <3>2. jobs'[j].attempts \in Nat /\ jobs'[j].attempts < MaxAttempts
            BY <2>4, <2>5, <2>8
        <3>3. faults' \in Nat
            BY <1>1, <1>5, <1>a
        <3> QED
            BY <1>6, <3>1, <3>2, <3>3, EarlyIsPaid
    <2>9. CASE ~(a < MaxAttempts)
        <3>1. lost >= 1 \/ ~Covered(j) \/ Covered(j)'
            BY <2>2
        <3> HIDE DEF a, stale, staleNext, lost, f
        <3>2. a <= MaxAttempts + f
            BY <1>a, <2>4, <2>6
        <3>3. Covered(j)' => a + staleNext <= MaxAttempts + f
            BY <1>a, <2>1, <2>4, <2>6, <2>7, <2>9
        <3>4. jobs[j].status \notin Settled /\ ~Covered(j)'
                  => a + 1 + staleNext <= MaxAttempts + f
            BY <1>a, <2>4, <2>6, <2>7, <2>9, <3>1
        <3> QED
            BY <2>5, <2>6, <3>2, <3>3, <3>4 DEF WithinBudget, staleNext, f
    <2> QED
        BY <2>8, <2>9
<1> QED
    BY <1>6, <1>7

\* Every step preserves ClaimsInv.
LEMMA ClaimsStep ==
    ASSUME ClaimsInv, [Next]_vars
    PROVE  ClaimsInv'
<1>a. IInv /\ TypeOK /\ SettledIsDue /\ SuccessLeavesAMark /\ SuccessWasHandled
    BY DEF ClaimsInv, IInv
<1>1. IInv' /\ HeldJobsExist' /\ ClaimsAreNumbered'
    BY <1>a, TypeStep, DueStep, MarkStep, SuccessStep, HeldStep, NumberedStep
       DEF IInv, ClaimsInv
<1>2. ASSUME NEW j \in Job, CreateRecoveryJob(j) \/ CancelRecoveryJob(j)
      PROVE  LateForAFault' /\ \A i \in Job : jobs'[i] # NoJob => WithinBudget(i)'
    BY <1>2, CreationPays, CancellationPays
<1>3. ASSUME NEW w \in Worker, CompleteRecoveryJob(w) \/ FailRecoveryJob(w)
      PROVE  LateForAFault' /\ \A i \in Job : jobs'[i] # NoJob => WithinBudget(i)'
    <2> DEFINE j == workers[w].job
    <2>0. /\ workers[w] # Idle /\ j \in Job
          /\ Leaves(w) /\ faults' = faults
        BY <1>a, <1>3, EndsHow
    <2>1. CASE ~Owns(w, jobs[j]) /\ jobs' = jobs
        <3>1. ~Current(w)
            BY <2>1 DEF Current
        <3> QED
            BY <2>0, <2>1, <3>1, LeavingPays
    <2>2. ASSUME Owns(w, jobs[j]),
                 NEW status \in { "succeeded", "permanent_failed", "retry_wait" },
                 NEW left \in Nat,
                 status = "permanent_failed" => workers[w].attempt >= MaxAttempts,
                 status = "retry_wait" => ~(workers[w].attempt >= MaxAttempts),
                 Release(j, status, left)
          PROVE  LateForAFault' /\ \A i \in Job : jobs'[i] # NoJob => WithinBudget(i)'
        <3>1. PICK k \in Job : workers[w].job = k
            BY <2>0
        <3> QED
            BY <2>0, <2>2, <3>1, ReleasePays
    <2> QED
        BY <1>a, <1>3, <2>1, <2>2, EndsHow
<1>4. ASSUME NEW w \in Worker, Abandon(w)
      PROVE  LateForAFault' /\ \A i \in Job : jobs'[i] # NoJob => WithinBudget(i)'
    BY <1>4, LeavingPays DEF Abandon, Leaves
<1>5. ASSUME UNCHANGED vars
      PROVE  LateForAFault' /\ \A i \in Job : jobs'[i] # NoJob => WithinBudget(i)'
    <2>1. jobs' = jobs /\ workers' = workers /\ faults' = faults
        BY <1>5 DEF vars
    <2>2. \A v \in Worker : KeepsClaim(v)
        BY <2>1 DEF KeepsClaim, Current, Owns
    <2>3. LateForAFault' /\ \A i \in Job : WithinBudget(i)' <=> WithinBudget(i)
        BY <1>a, <2>1, <2>2, CalmStep DEF ClaimsInv
    <2>4. \A i \in Job : jobs[i] # NoJob => WithinBudget(i)
        BY DEF ClaimsInv
    <2> QED
        BY <2>1, <2>3, <2>4
<1>6. ASSUME NEW w \in Worker, NEW j \in Job, ClaimRecoveryJob(w, j)
      PROVE  LateForAFault' /\ \A i \in Job : jobs'[i] # NoJob => WithinBudget(i)'
    BY <1>6, ClaimPays
<1>7. ASSUME NEW w \in Worker, NEW outcome \in { "succeeded", "failed" },
             HandlerReturns(w, outcome)
      PROVE  LateForAFault' /\ \A i \in Job : jobs'[i] # NoJob => WithinBudget(i)'
    BY <1>7, ReturningPays
<1>8. ASSUME Tick
      PROVE  LateForAFault' /\ \A i \in Job : jobs'[i] # NoJob => WithinBudget(i)'
    BY <1>8, TickPays
<1>9. LateForAFault' /\ \A i \in Job : jobs'[i] # NoJob => WithinBudget(i)'
    BY <1>2, <1>3, <1>4, <1>5, <1>6, <1>7, <1>8 DEF Next, WorkerStep
<1> QED
    BY <1>1, <1>9 DEF ClaimsInv

\* ClaimsInv holds of an empty queue.
LEMMA ClaimsInit ==
    ASSUME Init
    PROVE  ClaimsInv
<1>1. IInv
    BY DEF Init, IInv, TypeOK, SettledIsDue, SuccessLeavesAMark, SuccessWasHandled,
           NoJob, Idle, Settled
<1>2. HeldJobsExist /\ ClaimsAreNumbered
    BY DEF Init, HeldJobsExist, ClaimsAreNumbered
<1>3. Late = {}
    BY DEF Init, Late
<1>4. LateForAFault
    BY <1>3, FS_EmptySet DEF LateForAFault, Init
<1> QED
    BY <1>1, <1>2, <1>4 DEF ClaimsInv, Init

\* The workers' claims and the budget of every job, kept together.
THEOREM ClaimsInvariant == Spec => []ClaimsInv
<1>1. Init => ClaimsInv
    BY ClaimsInit
<1>2. ClaimsInv /\ [Next]_vars => ClaimsInv'
    BY ClaimsStep
<1> QED
    BY <1>1, <1>2, PTL DEF Spec

\* A job is tried more often than max_attempts only for claims that were lost,
\* and given up only after all its attempts.
THEOREM AttemptsAreLimited == Spec => []RetriesAreLimited
<1>1. ClaimsInv => RetriesAreLimited
    BY DEF ClaimsInv, WithinBudget, RetriesAreLimited
<1> QED
    BY <1>1, ClaimsInvariant, PTL

\* Unless a claim was lost nobody shares a job, and never do two workers hold
\* it with the same attempt.
THEOREM OneWorkerPerClaim == Spec => []ClaimsAreExclusive
<1>1. ASSUME ClaimsInv
      PROVE  ClaimsAreExclusive
    <2> SUFFICES ASSUME NEW j \in Job, NEW v \in Holders(j), NEW w \in Holders(j), v # w
                 PROVE  faults > 0 /\ workers[v].attempt # workers[w].attempt
        BY DEF ClaimsAreExclusive
    <2>0. faults \in Nat /\ ClaimsAreNumbered
        BY <1>1 DEF ClaimsInv, IInv, TypeOK
    <2>1. /\ v \in Worker /\ w \in Worker /\ workers[v] # Idle /\ workers[w] # Idle
          /\ workers[v].job = workers[w].job
        BY DEF Holders
    <2>2. ~Current(v) \/ ~Current(w)
        BY <2>0, <2>1, CurrentAlone
    <2>3. PICK u \in Late : TRUE
        BY <2>1, <2>2 DEF Late
    <2>4. Late \in SUBSET Worker
        BY DEF Late
    <2>5. Cardinality({}) + 1 <= Cardinality(Late) /\ Cardinality({}) \in Nat
          /\ Cardinality(Late) \in Nat
        BY <2>3, <2>4, Smaller
    <2>6. faults > 0
        BY <1>1, <2>0, <2>5 DEF ClaimsInv, LateForAFault
    <2>7. workers[v].attempt # workers[w].attempt
        BY <2>0, <2>1 DEF ClaimsAreNumbered
    <2> QED
        BY <2>6, <2>7
<1> QED
    BY <1>1, ClaimsInvariant, PTL

=============================================================================
