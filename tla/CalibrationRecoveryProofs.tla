---------------------- MODULE CalibrationRecoveryProofs ----------------------
(***************************************************************************)
(* For any cells, keys, requests, workers and limits: a report that is     *)
(* told to have succeeded left its calibration ended, and reports end no   *)
(* more calibrations than there are reports and lost claims.               *)
(*                                                                         *)
(* Every step of CalibrationRecovery is a step of its queue, so what       *)
(* RecoveryQueueProofs proves of the queue is cited here, not proved again:*)
(* QueueTerms and QueueCalls say that the two instances are one.           *)
(***************************************************************************)
EXTENDS CalibrationRecovery, FiniteSetTheorems, TLAPS

QP == INSTANCE RecoveryQueueProofs

\* Who calibrates has been counted.
CalibratingIsCounted == \A c \in Cell : Calibrating(c) => calibration[c] > 0

\* What a request has read, and what a payload names, is a calibration that was.
PayloadsArePast ==
    /\ \A j \in Job : payload[j] <= calibration[CellOf[j]]
    /\ \A r \in Reporter : reports[r] # NoReport
           => reports[r].calibration <= calibration[CellOf[reports[r].job]]

\* A worker that is about to report a success has ended the calibration, or has
\* found it ended.
SuccessIsTrue ==
    \A w \in Worker : workers[w].stage = "succeeded" => ReportedIsOver(workers[w].job)

\* Late workers that can still end a calibration, or undo the success of another
\* by sending its job back to the queue.
Pending(j) ==
    { w \in QP!Late : workers[w].job = j /\ workers[w].stage \in { "handling", "failed" } }

\* Nothing more is done for a job that is settled, or whose claim has succeeded.
Spent(j) ==
    \/ jobs[j].status \in Queue!Settled
    \/ \E w \in Worker : /\ QP!Current(w)
                         /\ workers[w].job = j /\ workers[w].stage = "succeeded"

ToCome(j) == IF Spent(j) THEN 0 ELSE 1

\* The calibrations a report has ended and may still end: one, and one for each
\* claim that was lost.
UndosArePaid(j) ==
    Cardinality(UndoneBy(j)) + Cardinality(Pending(j)) + ToCome(j) <= 1 + faults

CInv ==
    /\ QP!ClaimsInv
    /\ TypeOK /\ CalibratingIsCounted /\ PayloadsArePast
    /\ SuccessIsTrue /\ SuccessEndsTheCalibration
    /\ IsFiniteSet(undone) /\ \A j \in Job : UndosArePaid(j)

-----------------------------------------------------------------------------
\* What the proofs of the queue assume of its constants.
LEMMA QueueLimits ==
    /\ MaxAttempts \in Nat \ {0} /\ Lease \in Nat \ {0} /\ MaxFaults \in Nat
    /\ QP!IsFiniteSet(Worker)
    /\ \A w \in Worker : Owner[w] # ""
    BY CalibrationAssumption DEF IsFiniteSet, QP!IsFiniteSet

\* The queue as its proofs know it.
LEMMA QueueTerms ==
    /\ Queue!NoJob = QP!NoJob /\ Queue!Idle = QP!Idle /\ Queue!Settled = QP!Settled
    /\ Queue!TypeOK <=> QP!TypeOK
    /\ Queue!TypeOK' <=> QP!TypeOK'
    /\ Queue!Init <=> QP!Init
    /\ Queue!Tick <=> QP!Tick
<1>1. Queue!NoJob = QP!NoJob /\ Queue!Idle = QP!Idle /\ Queue!Settled = QP!Settled
    BY DEF Queue!NoJob, QP!NoJob, Queue!Idle, QP!Idle, Queue!Settled, QP!Settled
<1>2. (Queue!TypeOK <=> QP!TypeOK) /\ (Queue!TypeOK' <=> QP!TypeOK')
    BY DEF Queue!TypeOK, QP!TypeOK, Queue!JobRow, QP!JobRow, Queue!NoJob, QP!NoJob,
           Queue!Idle, QP!Idle, Queue!Busy, QP!Busy, Queue!Status, QP!Status,
           Queue!Name, QP!Name
<1>3. Queue!Init <=> QP!Init
    BY DEF Queue!Init, QP!Init, Queue!NoJob, QP!NoJob, Queue!Idle, QP!Idle
<1>4. Queue!Overrunning = QP!Overrunning
    BY DEF Queue!Overrunning, QP!Overrunning, Queue!Owns, QP!Owns, Queue!Idle, QP!Idle
<1>5. Queue!Tick <=> QP!Tick
    BY <1>4 DEF Queue!Tick, QP!Tick, Queue!NoJob, QP!NoJob, Queue!Cardinality, QP!Cardinality
<1> QED
    BY <1>1, <1>2, <1>3, <1>5

\* The queue's instance counts as this module does.
LEMMA QueueCounts ==
    ASSUME NEW S
    PROVE  QP!Cardinality(S) = Cardinality(S)
    BY DEF Cardinality, QP!Cardinality

\* The steps of the queue are the same in the instance the module runs and in the
\* one whose proofs are cited.
LEMMA QueueCalls ==
    /\ \A j \in Job : /\ Queue!CreateRecoveryJob(j) <=> QP!CreateRecoveryJob(j)
                      /\ Queue!CancelRecoveryJob(j) <=> QP!CancelRecoveryJob(j)
    /\ \A w \in Worker, j \in Job : Queue!ClaimRecoveryJob(w, j) <=> QP!ClaimRecoveryJob(w, j)
    /\ \A w \in Worker :
           /\ Queue!HandlerReturns(w, "succeeded") <=> QP!HandlerReturns(w, "succeeded")
           /\ Queue!HandlerReturns(w, "failed") <=> QP!HandlerReturns(w, "failed")
           /\ Queue!CompleteRecoveryJob(w) <=> QP!CompleteRecoveryJob(w)
           /\ Queue!FailRecoveryJob(w) <=> QP!FailRecoveryJob(w)
           /\ Queue!Abandon(w) <=> QP!Abandon(w)
<1>1. ASSUME NEW j \in Job
      PROVE  Queue!CreateRecoveryJob(j) <=> QP!CreateRecoveryJob(j)
    BY DEF Queue!CreateRecoveryJob, QP!CreateRecoveryJob, Queue!NoJob, QP!NoJob,
           Queue!NewJob, QP!NewJob
<1>2. ASSUME NEW j \in Job
      PROVE  Queue!CancelRecoveryJob(j) <=> QP!CancelRecoveryJob(j)
    BY DEF Queue!CancelRecoveryJob, QP!CancelRecoveryJob, Queue!Release, QP!Release
<1>3. ASSUME NEW w \in Worker, NEW j \in Job
      PROVE  Queue!ClaimRecoveryJob(w, j) <=> QP!ClaimRecoveryJob(w, j)
    BY DEF Queue!ClaimRecoveryJob, QP!ClaimRecoveryJob, Queue!NoJob, QP!NoJob,
           Queue!Idle, QP!Idle, Queue!ClaimableAt, QP!ClaimableAt
<1>4. ASSUME NEW w \in Worker
      PROVE  /\ Queue!HandlerReturns(w, "succeeded") <=> QP!HandlerReturns(w, "succeeded")
             /\ Queue!HandlerReturns(w, "failed") <=> QP!HandlerReturns(w, "failed")
    BY DEF Queue!HandlerReturns, QP!HandlerReturns
<1>5. ASSUME NEW w \in Worker
      PROVE  Queue!CompleteRecoveryJob(w) <=> QP!CompleteRecoveryJob(w)
    BY DEF Queue!CompleteRecoveryJob, QP!CompleteRecoveryJob, Queue!Owns, QP!Owns,
           Queue!Idle, QP!Idle, Queue!Release, QP!Release
<1>6. ASSUME NEW w \in Worker
      PROVE  Queue!FailRecoveryJob(w) <=> QP!FailRecoveryJob(w)
    BY DEF Queue!FailRecoveryJob, QP!FailRecoveryJob, Queue!Owns, QP!Owns,
           Queue!Idle, QP!Idle, Queue!Release, QP!Release, Queue!Backoff, QP!Backoff,
           Queue!Doubling, QP!Doubling
<1>7. ASSUME NEW w \in Worker
      PROVE  Queue!Abandon(w) <=> QP!Abandon(w)
    BY DEF Queue!Abandon, QP!Abandon, Queue!Idle, QP!Idle
<1> QED
    BY <1>1, <1>2, <1>3, <1>4, <1>5, <1>6, <1>7

\* Every step is one of the queue, or leaves it alone.
LEMMA QueueStep ==
    ASSUME TypeOK, [Next]_vars
    PROVE  [QP!Next]_(QP!vars)
<1>1. CASE UNCHANGED queueVars
    BY <1>1 DEF queueVars, QP!vars
<1>2. ASSUME NEW r \in Reporter, ReportFilesJob(r), ~UNCHANGED queueVars
      PROVE  QP!Next
    <2>1. reports[r].job \in Job /\ QP!CreateRecoveryJob(reports[r].job)
        BY <1>2, QueueCalls DEF ReportFilesJob, TypeOK, Report
    <2> QED
        BY <2>1 DEF QP!Next
<1>3. ASSUME NEW w \in Worker, CompensateCalibration(w)
      PROVE  QP!Next
    <2>1. QP!HandlerReturns(w, "succeeded") \/ QP!HandlerReturns(w, "failed")
        BY <1>3, QueueCalls DEF CompensateCalibration
    <2> QED
        BY <2>1 DEF QP!Next, QP!WorkerStep
<1>4. ASSUME NEW w \in Worker, WorkerCallsQueue(w)
      PROVE  QP!Next
    BY <1>4, QueueCalls DEF WorkerCallsQueue, QP!Next, QP!WorkerStep
<1>5. CASE QueueSuffers
    BY <1>5, QueueCalls DEF QueueSuffers, QP!Next
<1>6. CASE TimePasses
    BY <1>6, QueueTerms DEF TimePasses, QP!Next
<1> QED
    BY <1>1, <1>2, <1>3, <1>4, <1>5, <1>6
       DEF Next, vars, WorkerStep, TransitionCell, ReportReadsCell, ReportGivesUp

-----------------------------------------------------------------------------
\* The compensation: what it does to its worker and to its cell.
LEMMA Compensated ==
    ASSUME NEW w \in Worker, CompensateCalibration(w)
    PROVE  /\ UNCHANGED << calibration, reports, payload >>
           /\ \/ QP!HandlerReturns(w, "failed") /\ UNCHANGED << cellStatus, undone >>
              \/ /\ QP!HandlerReturns(w, "succeeded")
                 /\ \/ /\ cellStatus[CellOf[workers[w].job]] = "installing"
                       /\ UNCHANGED << cellStatus, undone >>
                    \/ SendBack(w)
    BY QueueCalls DEF CompensateCalibration, SendBack, cellVars

\* What the assumptions say of the bounds, in the form the provers need.
LEMMA Numbers ==
    /\ MaxCalibrations \in Nat /\ CellOf \in [Job -> Cell] /\ IsFiniteSet(Worker)
    /\ \A n \in 0..MaxCalibrations : n \in Nat
<1>1. MaxCalibrations \in Nat /\ CellOf \in [Job -> Cell] /\ IsFiniteSet(Worker)
    BY CalibrationAssumption
<1> QED
    BY <1>1

\* Only users and compensations move a cell; a number once given stays.
LEMMA CellChanges ==
    ASSUME CInv, [Next]_vars, NEW c \in Cell
    PROVE  /\ calibration[c] \in Nat /\ calibration'[c] \in Nat
           /\ calibration[c] <= calibration'[c]
           /\ Calibrating(c)' => Calibrating(c) \/ calibration[c] < calibration'[c]
<1>1. /\ calibration[c] \in Nat /\ DOMAIN cellStatus = Cell /\ DOMAIN calibration = Cell
    BY Numbers DEF CInv, TypeOK
<1>2. ASSUME NEW d \in Cell, NEW next \in Phase, TransitionCell(d, next)
      PROVE  /\ calibration'[c] = calibration[c] /\ (Calibrating(c)' => Calibrating(c))
             \/ calibration'[c] = calibration[c] + 1
    BY <1>1, <1>2 DEF TransitionCell, Calibrating, CInv, TypeOK
<1>3. ASSUME NEW w \in Worker, CompensateCalibration(w)
      PROVE  calibration' = calibration /\ (Calibrating(c)' => Calibrating(c))
    <2>1. CASE UNCHANGED cellStatus
        BY <1>3, <2>1, Compensated DEF Calibrating
    <2>2. CASE SendBack(w)
        BY <1>1, <1>3, <2>2, Compensated DEF SendBack, Calibrating, CInv, TypeOK
    <2> QED
        BY <1>3, <2>1, <2>2, Compensated
<1>4. ASSUME UNCHANGED cellVars
      PROVE  calibration' = calibration /\ (Calibrating(c)' => Calibrating(c))
    BY <1>4 DEF cellVars, Calibrating
<1>5. \/ calibration'[c] = calibration[c] /\ (Calibrating(c)' => Calibrating(c))
      \/ calibration'[c] = calibration[c] + 1
    BY <1>2, <1>3, <1>4
       DEF Next, vars, WorkerStep, ReportReadsCell, ReportFilesJob, ReportGivesUp,
           WorkerCallsQueue, QueueSuffers, TimePasses
<1> QED
    <2> DEFINE n == calibration[c]
               m == calibration'[c]
    <2>1. n \in Nat /\ ((m = n /\ (Calibrating(c)' => Calibrating(c))) \/ m = n + 1)
        BY <1>1, <1>5
    <2> HIDE DEF n, m
    <2>2. m \in Nat /\ n <= m /\ (Calibrating(c)' => Calibrating(c) \/ n < m)
        BY <2>1
    <2> QED
        BY <2>1, <2>2 DEF n, m

\* The payload of a job is written when the job is, and what it is written from
\* has been read of the cell.
LEMMA PayloadChanges ==
    ASSUME CInv, [Next]_vars, NEW j \in Job
    PROVE  /\ payload[j] \in Nat /\ payload'[j] \in Nat
           /\ jobs[j] # QP!NoJob => payload'[j] = payload[j]
           /\ payload'[j] <= calibration[CellOf[j]] /\ payload'[j] \in 0..MaxCalibrations
<1>1. /\ payload[j] \in 0..MaxCalibrations /\ DOMAIN payload = Job
      /\ payload[j] <= calibration[CellOf[j]]
    BY DEF CInv, TypeOK, PayloadsArePast
<1>2. ASSUME NEW r \in Reporter, ReportFilesJob(r), payload'[j] # payload[j]
      PROVE  /\ jobs[j] = QP!NoJob /\ payload'[j] = reports[r].calibration
             /\ reports[r].job = j /\ reports[r] # NoReport
    <2> DEFINE i == reports[r].job
               n == reports[r].calibration
    <2>1. jobs[i] = QP!NoJob /\ payload' = [payload EXCEPT ![i] = n] /\ reports[r] # NoReport
        BY <1>2, QueueTerms DEF ReportFilesJob
    <2> HIDE DEF i, n
    <2>2. i = j /\ payload'[j] = n
        BY <1>1, <1>2, <2>1
    <2> QED
        BY <2>1, <2>2 DEF i, n
<1>3. ASSUME NEW r \in Reporter, ReportFilesJob(r), payload'[j] # payload[j]
      PROVE  payload'[j] <= calibration[CellOf[j]] /\ payload'[j] \in 0..MaxCalibrations
    <2>1. reports[r] \in Report
        BY <1>2, <1>3 DEF CInv, TypeOK
    <2>2. reports[r].calibration \in 1..MaxCalibrations
        BY <2>1 DEF Report
    <2>3. reports[r].calibration \in 0..MaxCalibrations
        BY <2>2, Numbers
    <2>4. reports[r].calibration <= calibration[CellOf[reports[r].job]]
        BY <1>2, <1>3 DEF CInv, PayloadsArePast
    <2> QED
        BY <1>2, <1>3, <2>3, <2>4
<1>4. payload' = payload \/ \E r \in Reporter : ReportFilesJob(r)
    BY Compensated
       DEF Next, vars, WorkerStep, ReportReadsCell, ReportGivesUp, TransitionCell,
           WorkerCallsQueue, QueueSuffers, TimePasses
<1>5. /\ jobs[j] # QP!NoJob => payload'[j] = payload[j]
      /\ payload'[j] <= calibration[CellOf[j]] /\ payload'[j] \in 0..MaxCalibrations
    BY <1>1, <1>2, <1>3, <1>4
<1> QED
    BY <1>1, <1>5, Numbers

\* A calibration that is over stays over.
LEMMA OverStays ==
    ASSUME CInv, [Next]_vars, NEW j \in Job, jobs[j] # QP!NoJob, ReportedIsOver(j)
    PROVE  ReportedIsOver(j)'
<1>1. CellOf[j] \in Cell
    BY CalibrationAssumption
<1> DEFINE c == CellOf[j]
           n == calibration[c]
           m == calibration'[c]
           p == payload[j]
<1>2. /\ n \in Nat /\ m \in Nat /\ n <= m
      /\ Calibrating(c)' => Calibrating(c) \/ n < m
    BY <1>1, CellChanges
<1>3. p \in Nat /\ p <= n /\ payload'[j] = p
    BY PayloadChanges DEF CInv, PayloadsArePast
<1>4. ~Calibrating(c) \/ n > p
    BY DEF ReportedIsOver
<1> HIDE DEF c, n, m, p
<1>5. ~Calibrating(c)' \/ m > p
    BY <1>2, <1>3, <1>4
<1> QED
    BY <1>3, <1>5 DEF ReportedIsOver, c, m, p

\* A worker that reports a success has one to report.
LEMMA SuccessIsTrueStep ==
    ASSUME CInv, [Next]_vars
    PROVE  SuccessIsTrue'
<1> SUFFICES ASSUME NEW w \in Worker, workers'[w].stage = "succeeded",
                    NEW j \in Job, workers'[w].job = j
             PROVE  ReportedIsOver(j)'
    <2>1. ASSUME NEW w \in Worker, workers'[w].stage = "succeeded"
          PROVE  workers'[w].job \in Job
        <3>1. QP!TypeOK'
            BY QueueLimits, QueueStep, QP!TypeStep DEF CInv, QP!ClaimsInv, QP!IInv
        <3>2. workers'[w] # QP!Idle
            BY <2>1 DEF QP!Idle
        <3> QED
            BY <3>1, <3>2 DEF QP!TypeOK, QP!Busy
    <2> QED
        BY <2>1 DEF SuccessIsTrue, ReportedIsOver
<1>a. QP!TypeOK /\ [QP!Next]_(QP!vars) /\ QP!HeldJobsExist
    BY QueueStep DEF CInv, QP!ClaimsInv, QP!IInv
<1>1. CASE workers[w].stage = "succeeded" /\ workers'[w].job = workers[w].job
    <2>1. workers[w] # QP!Idle
        BY <1>1 DEF QP!Idle
    <2>2. workers[w].job \in Job /\ jobs[workers[w].job] # QP!NoJob
        BY <1>a, <2>1, QueueLimits, QP!HeldJob DEF QP!HeldJobsExist
    <2>4. jobs[j] # QP!NoJob /\ ReportedIsOver(j)
        BY <1>1, <2>2 DEF CInv, SuccessIsTrue
    <2>5. ReportedIsOver(j)'
        BY <2>4, OverStays
    <2> QED
        BY <2>5
<1>2. ASSUME CompensateCalibration(w)
      PROVE  ReportedIsOver(j)'
    <2>1. /\ QP!HandlerReturns(w, "succeeded") /\ workers'[w].job = workers[w].job
          /\ workers[w] # QP!Idle
        <3>1. QP!HandlerReturns(w, "succeeded") \/ QP!HandlerReturns(w, "failed")
            BY <1>2, Compensated
        <3>2. ASSUME NEW outcome \in { "succeeded", "failed" }, QP!HandlerReturns(w, outcome)
              PROVE  /\ workers'[w].job = workers[w].job /\ workers'[w].stage = outcome
                     /\ workers[w] # QP!Idle
            BY <1>a, <3>2, QueueLimits, QP!ReturningClaims
        <3> QED
            BY <3>1, <3>2
    <2>2. workers[w].job = j
        BY <2>1
    <2>3. CellOf[j] \in Cell /\ DOMAIN cellStatus = Cell
        BY Numbers DEF CInv, TypeOK
    <2>4. cellStatus'[CellOf[j]] = "installing"
        <3>1. ~QP!HandlerReturns(w, "failed")
            BY <1>a, QueueLimits, QP!ReturningClaims
        <3>2. CASE SendBack(w)
            BY <2>2, <2>3, <3>2 DEF SendBack
        <3>3. CASE cellStatus[CellOf[j]] = "installing" /\ UNCHANGED cellStatus
            BY <3>3
        <3> QED
            BY <1>2, <2>2, <3>1, <3>2, <3>3, Compensated
    <2>5. ReportedIsOver(j)'
        BY <2>4 DEF ReportedIsOver, Calibrating
    <2> QED
        BY <2>5
<1>3. ASSUME NEW v \in Worker, v # w, CompensateCalibration(v)
      PROVE  workers'[w] = workers[w]
    <2>1. QP!HandlerReturns(v, "succeeded") \/ QP!HandlerReturns(v, "failed")
        BY <1>3, Compensated
    <2> QED
        BY <1>3, <1>a, <2>1 DEF QP!HandlerReturns, QP!TypeOK
<1>4. ASSUME NEW v \in Worker, WorkerCallsQueue(v) \/ QP!Abandon(v)
      PROVE  workers'[w] = workers[w]
    <2>1. \/ \E i \in Job : QP!ClaimRecoveryJob(v, i)
          \/ QP!CompleteRecoveryJob(v) \/ QP!FailRecoveryJob(v) \/ QP!Abandon(v)
        BY <1>4, QueueCalls DEF WorkerCallsQueue
    <2>2. QP!Idle.stage = "idle"
        BY DEF QP!Idle
    <2>3. ASSUME NEW i \in Job, QP!ClaimRecoveryJob(v, i)
          PROVE  v # w /\ \A u \in Worker \ {v} : workers'[u] = workers[u]
        <3>1. workers'[v].stage = "handling"
            BY <1>a, <2>3, QueueLimits, QP!ClaimClaims DEF CInv, QP!ClaimsInv
        <3> QED
            BY <1>a, <2>3, <3>1 DEF QP!ClaimRecoveryJob, QP!TypeOK
    <2>4. ASSUME QP!CompleteRecoveryJob(v) \/ QP!FailRecoveryJob(v) \/ QP!Abandon(v)
          PROVE  workers'[w] = workers[w]
        <3>1. workers' = [workers EXCEPT ![v] = QP!Idle]
            BY <2>4 DEF QP!CompleteRecoveryJob, QP!FailRecoveryJob, QP!Abandon
        <3>2. v # w
            BY <1>a, <2>2, <3>1 DEF QP!TypeOK
        <3> QED
            BY <1>a, <3>1, <3>2 DEF QP!TypeOK
    <2> QED
        BY <2>1, <2>3, <2>4
<1>5. CASE workers' = workers
    BY <1>1, <1>5
<1>6. CASE workers'[w] = workers[w]
    BY <1>1, <1>6
<1>7. ASSUME QueueSuffers
      PROVE  workers'[w] = workers[w]
    BY <1>4, <1>7, QueueCalls DEF QueueSuffers, QP!CancelRecoveryJob
<1>8. ASSUME TimePasses
      PROVE  workers' = workers
    BY <1>8, QueueTerms DEF TimePasses, QP!Tick
<1>9. ASSUME NEW r \in Reporter, ReportFilesJob(r)
      PROVE  workers' = workers
    BY <1>9 DEF ReportFilesJob, queueVars, Queue!CreateRecoveryJob
<1> QED
    BY <1>2, <1>3, <1>4, <1>5, <1>6, <1>7, <1>8, <1>9
       DEF Next, vars, WorkerStep, TransitionCell, ReportReadsCell, ReportGivesUp, queueVars

\* A job that has succeeded did so by a worker with a success to report.
LEMMA SuccessEndsStep ==
    ASSUME CInv, [Next]_vars
    PROVE  SuccessEndsTheCalibration'
<1> SUFFICES ASSUME NEW j \in Job, jobs'[j].status = "succeeded"
             PROVE  ReportedIsOver(j)'
    BY DEF SuccessEndsTheCalibration
<1>a. QP!TypeOK /\ QP!SettledIsDue /\ [QP!Next]_(QP!vars) /\ QP!HeldJobsExist
    BY QueueStep DEF CInv, QP!ClaimsInv, QP!IInv
<1>1. CASE jobs'[j] = jobs[j]
    <2>1. jobs[j] # QP!NoJob
        BY <1>1 DEF QP!NoJob
    <2> QED
        BY <1>1, <2>1, OverStays DEF CInv, SuccessEndsTheCalibration
<1>2. CASE jobs'[j] # jobs[j]
    <2>1. PICK w \in Worker : workers[w].stage = "succeeded" /\ workers[w].job = j
        BY <1>a, <1>2, QueueLimits, QP!RowChanges
    <2>2. workers[w] # QP!Idle
        BY <2>1 DEF QP!Idle
    <2>3. jobs[j] # QP!NoJob /\ ReportedIsOver(j)
        BY <1>a, <2>1, <2>2 DEF QP!HeldJobsExist, CInv, SuccessIsTrue
    <2> QED
        BY <2>3, OverStays
<1> QED
    BY <1>1, <1>2

-----------------------------------------------------------------------------
\* A compensation that sends a cell back ends the calibration it is in.
LEMMA SentBack ==
    ASSUME CInv, NEW w \in Worker, CompensateCalibration(w), SendBack(w)
    PROVE  /\ workers[w] # QP!Idle /\ workers[w].job \in Job
           /\ [job |-> workers[w].job, calibration |-> calibration[CellOf[workers[w].job]]]
                  \in Undoing
           /\ undone' = undone \cup { [job |-> workers[w].job,
                                       calibration |-> calibration[CellOf[workers[w].job]]] }
<1>1. workers[w] # QP!Idle
    BY QueueTerms DEF CompensateCalibration
<1>2. workers[w].job \in Job
    BY <1>1, QueueLimits, QP!HeldJob DEF CInv, QP!ClaimsInv, QP!IInv
<1>3. PICK j \in Job : workers[w].job = j
    BY <1>2
<1>4. CellOf[j] \in Cell /\ Calibrating(CellOf[j])
    BY <1>3, Numbers DEF SendBack
<1>5. calibration[CellOf[j]] \in 0..MaxCalibrations /\ calibration[CellOf[j]] > 0
    BY <1>4 DEF CInv, TypeOK, CalibratingIsCounted
<1>6. calibration[CellOf[j]] \in 1..MaxCalibrations
    BY <1>5, Numbers
<1>7. [job |-> j, calibration |-> calibration[CellOf[j]]] \in Undoing
    BY <1>6 DEF Undoing
<1> QED
    BY <1>1, <1>2, <1>3, <1>7 DEF SendBack

\* Only the handler of a claimed job undoes a calibration.
LEMMA UndoneChanges ==
    ASSUME CInv, [Next]_vars
    PROVE  \/ undone' = undone
           \/ \E w \in Worker : CompensateCalibration(w) /\ SendBack(w)
    BY Compensated
       DEF Next, vars, WorkerStep, ReportReadsCell, ReportFilesJob, ReportGivesUp,
           TransitionCell, WorkerCallsQueue, QueueSuffers, TimePasses

\* What a request may hold after a step: what it held, or what it has just read.
LEMMA ReportChanges ==
    ASSUME CInv, [Next]_vars, NEW r \in Reporter
    PROVE  /\ DOMAIN reports' = Reporter
           /\ \/ reports'[r] = NoReport
              \/ reports'[r] = reports[r]
              \/ \E j \in Job : /\ reports'[r] = [job |-> j, calibration |-> calibration[CellOf[j]]]
                                /\ calibration[CellOf[j]] \in 1..MaxCalibrations
                                /\ calibration' = calibration
<1>0. DOMAIN reports = Reporter
    BY DEF CInv, TypeOK
<1>1. ASSUME NEW q \in Reporter, NEW j \in Job, ReportReadsCell(q, j)
      PROVE  /\ reports' = [reports EXCEPT ![q] = [job |-> j, calibration |-> calibration[CellOf[j]]]]
             /\ calibration[CellOf[j]] \in 1..MaxCalibrations
             /\ calibration' = calibration
    <2>1. CellOf[j] \in Cell /\ Calibrating(CellOf[j])
        BY <1>1, Numbers DEF ReportReadsCell
    <2>2. calibration[CellOf[j]] \in 0..MaxCalibrations /\ calibration[CellOf[j]] > 0
        BY <2>1 DEF CInv, TypeOK, CalibratingIsCounted
    <2>3. calibration[CellOf[j]] \in 1..MaxCalibrations
        BY <2>2, Numbers
    <2> QED
        BY <1>1, <2>3 DEF ReportReadsCell, cellVars
<1>2. ASSUME NEW q \in Reporter, ReportFilesJob(q) \/ ReportGivesUp(q)
      PROVE  reports' = [reports EXCEPT ![q] = NoReport]
    BY <1>2 DEF ReportFilesJob, ReportGivesUp
<1>3. \/ reports' = reports
      \/ \E q \in Reporter : \/ \E j \in Job : ReportReadsCell(q, j)
                             \/ ReportFilesJob(q) \/ ReportGivesUp(q)
    BY Compensated
       DEF Next, vars, WorkerStep, TransitionCell, WorkerCallsQueue, QueueSuffers, TimePasses
<1>4. CASE reports' = reports
    BY <1>0, <1>4
<1>5. ASSUME NEW q \in Reporter, NEW j \in Job, ReportReadsCell(q, j)
      PROVE  /\ DOMAIN reports' = Reporter
             /\ \/ reports'[r] = reports[r]
                \/ /\ reports'[r] = [job |-> j, calibration |-> calibration[CellOf[j]]]
                   /\ calibration[CellOf[j]] \in 1..MaxCalibrations
                   /\ calibration' = calibration
    BY <1>0, <1>1, <1>5
<1>6. ASSUME NEW q \in Reporter, ReportFilesJob(q) \/ ReportGivesUp(q)
      PROVE  DOMAIN reports' = Reporter /\ (reports'[r] = NoReport \/ reports'[r] = reports[r])
    BY <1>0, <1>2, <1>6
<1> QED
    BY <1>3, <1>4, <1>5, <1>6

\* Types, the calibrations counted so far, and reports that name past ones.
LEMMA TypeStep ==
    ASSUME CInv, [Next]_vars
    PROVE  TypeOK' /\ CalibratingIsCounted' /\ PayloadsArePast' /\ IsFiniteSet(undone')
<1>a. TypeOK
    BY DEF CInv
<1>1. Queue!TypeOK'
    BY QueueLimits, QueueTerms, QueueStep, QP!TypeStep DEF CInv, QP!ClaimsInv, QP!IInv
<1>2. /\ cellStatus' \in [Cell -> Phase \cup { "installing" }]
      /\ calibration' \in [Cell -> 0..MaxCalibrations]
    <2>1. ASSUME NEW c \in Cell, NEW next \in Phase, TransitionCell(c, next)
          PROVE  /\ cellStatus' \in [Cell -> Phase \cup { "installing" }]
                 /\ calibration' \in [Cell -> 0..MaxCalibrations]
        <3>1. cellStatus' \in [Cell -> Phase \cup { "installing" }]
            BY <1>a, <2>1 DEF TransitionCell, TypeOK
        <3>2. calibration[c] \in 0..MaxCalibrations
            BY <1>a DEF TypeOK
        <3>3. calibration[c] < MaxCalibrations => calibration[c] + 1 \in 0..MaxCalibrations
            BY <3>2, Numbers
        <3>4. \/ calibration' = calibration
              \/ /\ calibration' = [calibration EXCEPT ![c] = @ + 1]
                 /\ calibration[c] < MaxCalibrations
            BY <2>1 DEF TransitionCell
        <3>5. calibration' \in [Cell -> 0..MaxCalibrations]
            BY <1>a, <3>3, <3>4 DEF TypeOK
        <3> QED
            BY <3>1, <3>5
    <2>2. ASSUME NEW w \in Worker, CompensateCalibration(w)
          PROVE  /\ cellStatus' \in [Cell -> Phase \cup { "installing" }]
                 /\ calibration' \in [Cell -> 0..MaxCalibrations]
        BY <1>a, <2>2, Compensated DEF SendBack, TypeOK
    <2>3. CASE UNCHANGED cellVars
        BY <1>a, <2>3 DEF cellVars, TypeOK
    <2> QED
        BY <2>1, <2>2, <2>3
           DEF Next, vars, WorkerStep, ReportReadsCell, ReportFilesJob, ReportGivesUp,
               WorkerCallsQueue, QueueSuffers, TimePasses
<1>3. reports' \in [Reporter -> Report \cup {NoReport}]
    <2>1. /\ reports' = [r \in Reporter |-> reports'[r]]
          /\ \A r \in Reporter : reports'[r] \in Report \cup {NoReport}
        <3>1. ASSUME NEW r \in Reporter
              PROVE  reports'[r] \in Report \cup {NoReport}
            <4>1. reports[r] \in Report \cup {NoReport}
                BY <1>a DEF TypeOK
            <4>2. ASSUME NEW j \in Job, NEW n \in 1..MaxCalibrations
                  PROVE  [job |-> j, calibration |-> n] \in Report
                BY DEF Report
            <4> QED
                BY <4>1, <4>2, ReportChanges
        <3>2. reports' = [r \in Reporter |-> reports'[r]]
            BY <1>a, Compensated
               DEF TypeOK, Next, vars, WorkerStep, ReportReadsCell, ReportFilesJob,
                   ReportGivesUp, TransitionCell, WorkerCallsQueue, QueueSuffers, TimePasses
        <3> QED
            BY <3>1, <3>2
    <2> QED
        BY <2>1
<1>4. payload' \in [Job -> 0..MaxCalibrations]
    <2>1. payload' = [j \in Job |-> payload'[j]]
        <3>1. payload' = payload \/ \E r \in Reporter : ReportFilesJob(r)
            BY Compensated
               DEF Next, vars, WorkerStep, ReportReadsCell, ReportGivesUp, TransitionCell,
                   WorkerCallsQueue, QueueSuffers, TimePasses
        <3> QED
            BY <1>a, <3>1 DEF ReportFilesJob, TypeOK
    <2> QED
        BY <2>1, PayloadChanges
<1>5. undone' \subseteq Undoing /\ IsFiniteSet(undone')
    <2>1. undone \subseteq Undoing /\ IsFiniteSet(undone)
        BY DEF CInv, TypeOK
    <2>2. ASSUME NEW w \in Worker, CompensateCalibration(w), SendBack(w)
          PROVE  undone' \subseteq Undoing /\ IsFiniteSet(undone')
        <3>1. PICK u \in Undoing : undone' = undone \cup {u}
            BY <2>2, SentBack
        <3> QED
            BY <2>1, <3>1, FS_AddElement
    <2> QED
        BY <2>1, <2>2, UndoneChanges
<1>6. CalibratingIsCounted'
    <2>1. ASSUME NEW c \in Cell, Calibrating(c)'
          PROVE  calibration'[c] > 0
        <3> DEFINE n == calibration[c]
                   m == calibration'[c]
        <3>1. n \in Nat /\ m \in Nat /\ n <= m /\ (Calibrating(c) \/ n < m)
            BY <2>1, CellChanges
        <3>2. Calibrating(c) => n > 0
            BY DEF CInv, CalibratingIsCounted
        <3> HIDE DEF n, m
        <3>3. m > 0
            BY <3>1, <3>2
        <3> QED
            BY <3>3 DEF m
    <2> QED
        BY <2>1 DEF CalibratingIsCounted
<1>7. PayloadsArePast'
    <2>1. ASSUME NEW j \in Job, NEW n \in Nat, n <= calibration[CellOf[j]]
          PROVE  n <= calibration'[CellOf[j]]
        <3>1. CellOf[j] \in Cell
            BY Numbers
        <3> DEFINE a == calibration[CellOf[j]]
                   b == calibration'[CellOf[j]]
        <3>2. a \in Nat /\ b \in Nat /\ a <= b /\ n <= a
            BY <2>1, <3>1, CellChanges
        <3> HIDE DEF a, b
        <3>3. n <= b
            BY <3>2
        <3> QED
            BY <3>3 DEF b
    <2>2. ASSUME NEW j \in Job
          PROVE  payload'[j] <= calibration'[CellOf[j]]
        BY <2>1, PayloadChanges
    <2>3. ASSUME NEW r \in Reporter, reports'[r] # NoReport
          PROVE  reports'[r].calibration <= calibration'[CellOf[reports'[r].job]]
        <3>1. CASE reports'[r] = reports[r]
            <4>1. /\ reports[r] \in Report
                  /\ reports[r].calibration <= calibration[CellOf[reports[r].job]]
                BY <1>a, <2>3, <3>1 DEF TypeOK, CInv, PayloadsArePast
            <4>2. reports[r].job \in Job /\ reports[r].calibration \in 1..MaxCalibrations
                BY <4>1 DEF Report
            <4>3. PICK j \in Job, n \in Nat : j = reports[r].job /\ n = reports[r].calibration
                BY <4>2, Numbers
            <4> QED
                BY <2>1, <3>1, <4>1, <4>3
        <3>2. ASSUME NEW j \in Job, calibration[CellOf[j]] \in 1..MaxCalibrations,
                     reports'[r] = [job |-> j, calibration |-> calibration[CellOf[j]]],
                     calibration' = calibration
              PROVE  reports'[r].calibration <= calibration'[CellOf[reports'[r].job]]
            <4>1. reports'[r].job = j /\ reports'[r].calibration = calibration[CellOf[j]]
                BY <3>2
            <4>2. calibration[CellOf[j]] \in Nat
                BY <3>2, Numbers
            <4> QED
                BY <3>2, <4>1, <4>2
        <3> QED
            BY <2>3, <3>1, <3>2, ReportChanges
    <2> QED
        BY <2>2, <2>3 DEF PayloadsArePast
<1> QED
    BY <1>1, <1>2, <1>3, <1>4, <1>5, <1>6, <1>7 DEF TypeOK

-----------------------------------------------------------------------------
\* The terms of UndosArePaid are numbers.
LEMMA Counts ==
    ASSUME CInv, NEW j \in Job
    PROVE  /\ Cardinality(UndoneBy(j)) \in Nat /\ Cardinality(Pending(j)) \in Nat
           /\ ToCome(j) \in { 0, 1 } /\ (Spent(j) <=> ToCome(j) = 0) /\ faults \in Nat
<1>1. IsFiniteSet(UndoneBy(j))
    BY FS_Subset DEF CInv, UndoneBy
<1>2. IsFiniteSet(Pending(j))
    BY Numbers, FS_Subset DEF Pending, QP!Late
<1>3. faults \in Nat
    BY QueueTerms DEF CInv, TypeOK, QP!TypeOK
<1> QED
    BY <1>1, <1>2, <1>3, FS_CardinalityType DEF ToCome

\* The same in the next state, where CInv is not known yet.
LEMMA CountsNext ==
    ASSUME IsFiniteSet(undone'), NEW j \in Job
    PROVE  /\ Cardinality(UndoneBy(j)') \in Nat /\ Cardinality(Pending(j)') \in Nat
           /\ ToCome(j)' \in { 0, 1 } /\ (Spent(j)' <=> ToCome(j)' = 0)
<1>1. IsFiniteSet(UndoneBy(j)')
    BY FS_Subset DEF UndoneBy
<1>2. IsFiniteSet(Pending(j)')
    BY Numbers, FS_Subset DEF Pending, QP!Late
<1> QED
    BY <1>1, <1>2, FS_CardinalityType DEF ToCome

\* A step that neither ends a calibration nor makes room for one more.
LEMMA NothingUndone ==
    ASSUME CInv, NEW j \in Job, IsFiniteSet(undone'), UndoneBy(j)' = UndoneBy(j),
           faults' \in Nat, faults <= faults',
           Pending(j)' \subseteq Pending(j), Spent(j) => Spent(j)'
    PROVE  UndosArePaid(j)'
<1>1. IsFiniteSet(Pending(j))
    BY Numbers, FS_Subset DEF Pending, QP!Late
<1> DEFINE u == Cardinality(UndoneBy(j))
           p == Cardinality(Pending(j))
           q == Cardinality(Pending(j)')
           t == ToCome(j)
           s == ToCome(j)'
           f == faults
           g == faults'
<1>2. q <= p
    BY <1>1, FS_Subset
<1>3. u \in Nat /\ p \in Nat /\ q \in Nat /\ t \in {0, 1} /\ s \in {0, 1} /\ f \in Nat
    BY Counts, CountsNext
<1>4. t = 0 => s = 0
    BY Counts, CountsNext
<1>5. u + p + t <= 1 + f /\ g \in Nat /\ f <= g
    BY DEF CInv, UndosArePaid
<1> HIDE DEF u, p, q, t, s, f, g
<1>6. u + q + s <= 1 + g
    BY <1>2, <1>3, <1>4, <1>5
<1> QED
    BY <1>6 DEF UndosArePaid, u, q, s, g

\* A step that undoes nothing and brings no handler nearer keeps the account.
LEMMA QuietStep ==
    ASSUME CInv, NEW j \in Job, undone' = undone, faults' \in Nat, faults <= faults',
           Pending(j)' \subseteq Pending(j), Spent(j) => Spent(j)'
    PROVE  UndosArePaid(j)'
<1>1. IsFiniteSet(undone') /\ UndoneBy(j)' = UndoneBy(j)
    BY DEF CInv, UndoneBy
<1> QED
    BY <1>1, NothingUndone

\* A claim is lost, and with it a success that was not written, or the right to
\* end a calibration stays with a late worker.
LEMMA FaultyStep ==
    ASSUME CInv, NEW j \in Job, undone' = undone, faults' \in Nat, faults + 1 <= faults',
           NEW u \in Worker, Pending(j)' \subseteq Pending(j) \cup {u},
           ~(Pending(j)' \subseteq Pending(j)) => ~Spent(j)
    PROVE  UndosArePaid(j)'
<1>1. IsFiniteSet(undone')
    BY DEF CInv
<1>2. IsFiniteSet(Pending(j)) /\ IsFiniteSet(Pending(j)')
    BY Numbers, FS_Subset DEF Pending, QP!Late
<1> DEFINE n == Cardinality(UndoneBy(j))
           p == Cardinality(Pending(j))
           q == Cardinality(Pending(j)')
           t == ToCome(j)
           s == ToCome(j)'
           f == faults
           g == faults'
<1>3. n \in Nat /\ p \in Nat /\ q \in Nat /\ t \in {0, 1} /\ s \in {0, 1} /\ f \in Nat
    BY <1>1, Counts, CountsNext
<1>4. q <= p \/ (q <= p + 1 /\ t = 1)
    <2>1. CASE Pending(j)' \subseteq Pending(j)
        BY <1>2, <2>1, FS_Subset
    <2>2. CASE ~(Pending(j)' \subseteq Pending(j))
        <3>1. t = 1
            BY <2>2, Counts
        <3>2. IsFiniteSet(Pending(j) \cup {u}) /\ Cardinality(Pending(j) \cup {u}) \in { p, p + 1 }
            BY <1>2, FS_AddElement
        <3>3. q <= Cardinality(Pending(j) \cup {u})
            BY <3>2, FS_Subset
        <3> HIDE DEF q, p, t
        <3>4. q <= p + 1
            BY <1>3, <3>2, <3>3
        <3> QED
            BY <3>1, <3>4
    <2> QED
        BY <2>1, <2>2
<1>5. n + p + t <= 1 + f /\ g \in Nat /\ f + 1 <= g
    BY DEF CInv, UndosArePaid
<1>6. UndoneBy(j)' = UndoneBy(j)
    BY DEF UndoneBy
<1> HIDE DEF n, p, q, t, s, f, g
<1>7. n + q + s <= 1 + g
    BY <1>3, <1>4, <1>5
<1> QED
    BY <1>6, <1>7 DEF UndosArePaid, n, q, s, g

\* A set that takes one in, and may have let another go.
LEMMA Sizes ==
    ASSUME NEW S, IsFiniteSet(S), NEW x, NEW T, T \subseteq S \cup {x}
    PROVE  /\ Cardinality(S) \in Nat /\ Cardinality(T) \in Nat
           /\ Cardinality(T) <= Cardinality(S) + 1
           /\ \A y \in S : y \notin T => Cardinality(T) <= Cardinality(S)
           /\ T \subseteq S =>
                 \A y \in S : y \notin T => Cardinality(T) + 1 <= Cardinality(S)
<1>1. /\ IsFiniteSet(S \cup {x}) /\ Cardinality(S) \in Nat
      /\ Cardinality(S \cup {x}) \in { Cardinality(S), Cardinality(S) + 1 }
    BY FS_AddElement, FS_CardinalityType
<1>2. IsFiniteSet(T) /\ Cardinality(T) \in Nat /\ Cardinality(T) <= Cardinality(S \cup {x})
    BY <1>1, FS_Subset, FS_CardinalityType
<1>3. Cardinality(T) <= Cardinality(S) + 1
    BY <1>1, <1>2
<1>4. ASSUME NEW y \in S, y \notin T
      PROVE  Cardinality(T) <= Cardinality(S)
    <2>1. /\ IsFiniteSet(S \ {y}) /\ Cardinality(S \ {y}) = Cardinality(S) - 1
        BY FS_RemoveElement
    <2>2. /\ IsFiniteSet((S \ {y}) \cup {x})
          /\ Cardinality((S \ {y}) \cup {x}) \in { Cardinality(S \ {y}), Cardinality(S \ {y}) + 1 }
        BY <2>1, FS_AddElement
    <2>3. T \subseteq (S \ {y}) \cup {x}
        BY <1>4
    <2>4. Cardinality(T) <= Cardinality((S \ {y}) \cup {x})
        BY <2>2, <2>3, FS_Subset
    <2> QED
        BY <1>1, <1>2, <2>1, <2>2, <2>4
<1>5. ASSUME T \subseteq S, NEW y \in S, y \notin T
      PROVE  Cardinality(T) + 1 <= Cardinality(S)
    <2>1. Cardinality(T) <= Cardinality(S) /\ Cardinality(T) # Cardinality(S)
        BY <1>5, FS_Subset
    <2> QED
        BY <1>1, <1>2, <2>1
<1> QED
    BY <1>1, <1>2, <1>3, <1>4, <1>5

\* A job is settled under the worker that had its claim, which goes on.
LEMMA SettlingStep ==
    ASSUME CInv, NEW j \in Job, undone' = undone, faults' = faults, ~Spent(j), Spent(j)',
           NEW u, Pending(j)' \subseteq Pending(j) \cup {u}
    PROVE  UndosArePaid(j)'
<1>1. IsFiniteSet(undone') /\ IsFiniteSet(Pending(j))
    BY Numbers, FS_Subset DEF CInv, Pending, QP!Late
<1> DEFINE n == Cardinality(UndoneBy(j))
           p == Cardinality(Pending(j))
           q == Cardinality(Pending(j)')
           t == ToCome(j)
           s == ToCome(j)'
           f == faults
<1>2. n \in Nat /\ p \in Nat /\ q \in Nat /\ f \in Nat /\ t = 1 /\ s = 0 /\ q <= p + 1
    BY <1>1, Counts, CountsNext, Sizes
<1>3. n + p + t <= 1 + f
    BY DEF CInv, UndosArePaid
<1>4. UndoneBy(j)' = UndoneBy(j)
    BY DEF UndoneBy
<1> HIDE DEF n, p, q, t, s, f
<1>5. n + q + s <= 1 + f
    BY <1>2, <1>3
<1> QED
    BY <1>4, <1>5 DEF UndosArePaid, n, q, s, f

\* A late worker returns the job to the queue: it is done with, and the worker
\* that had the claim may take its place.
LEMMA ReturningStep ==
    ASSUME CInv, NEW j \in Job, undone' = undone, faults' = faults,
           NEW w \in Pending(j), w \notin Pending(j)',
           NEW u, Pending(j)' \subseteq Pending(j) \cup {u},
           ~(Pending(j)' \subseteq Pending(j)) => ~Spent(j)
    PROVE  UndosArePaid(j)'
<1>1. IsFiniteSet(undone') /\ IsFiniteSet(Pending(j))
    BY Numbers, FS_Subset DEF CInv, Pending, QP!Late
<1> DEFINE n == Cardinality(UndoneBy(j))
           p == Cardinality(Pending(j))
           q == Cardinality(Pending(j)')
           t == ToCome(j)
           s == ToCome(j)'
           f == faults
<1>2. n \in Nat /\ p \in Nat /\ q \in Nat /\ f \in Nat /\ t \in {0, 1} /\ s \in {0, 1}
    BY <1>1, Counts, CountsNext
<1>3. q + 1 <= p \/ (q <= p /\ t = 1)
    BY <1>1, Counts, Sizes
<1>4. n + p + t <= 1 + f
    BY DEF CInv, UndosArePaid
<1>5. UndoneBy(j)' = UndoneBy(j)
    BY DEF UndoneBy
<1> HIDE DEF n, p, q, t, s, f
<1>6. n + q + s <= 1 + f
    BY <1>2, <1>3, <1>4
<1> QED
    BY <1>5, <1>6 DEF UndosArePaid, n, q, s, f

\* A worker ends a calibration: one that has the claim has then spent it, and a
\* late one will not do so again.
LEMMA UndoingStep ==
    ASSUME CInv, NEW j \in Job, NEW x, undone' = undone \cup {x}, faults' = faults,
           Pending(j)' \subseteq Pending(j), Spent(j) => Spent(j)',
           (~Spent(j) /\ Spent(j)') \/ (\E w \in Pending(j) : w \notin Pending(j)')
    PROVE  UndosArePaid(j)'
<1>1. /\ IsFiniteSet(undone') /\ IsFiniteSet(Pending(j)) /\ IsFiniteSet(UndoneBy(j))
      /\ UndoneBy(j)' \subseteq UndoneBy(j) \cup {x}
    BY Numbers, FS_Subset, FS_AddElement DEF CInv, Pending, QP!Late, UndoneBy
<1> DEFINE n == Cardinality(UndoneBy(j))
           m == Cardinality(UndoneBy(j)')
           p == Cardinality(Pending(j))
           q == Cardinality(Pending(j)')
           t == ToCome(j)
           s == ToCome(j)'
           f == faults
<1>2. /\ n \in Nat /\ m \in Nat /\ p \in Nat /\ q \in Nat /\ f \in Nat
      /\ t \in {0, 1} /\ s \in {0, 1}
    BY <1>1, Counts, CountsNext
<1>3. m <= n + 1 /\ (t = 0 => s = 0)
    BY <1>1, Counts, CountsNext, Sizes
<1>4. q <= p
    BY <1>1, FS_Subset
<1>5. (t = 1 /\ s = 0) \/ q + 1 <= p
    <2>1. ASSUME NEW w \in Pending(j), w \notin Pending(j)'
          PROVE  q + 1 <= p
        <3>1. Pending(j)' \subseteq Pending(j) \cup {w}
            OBVIOUS
        <3> QED
            BY <1>1, <2>1, <3>1, Sizes
    <2> QED
        BY <1>1, <2>1, Counts, CountsNext
<1>6. n + p + t <= 1 + f
    BY DEF CInv, UndosArePaid
<1> HIDE DEF n, m, p, q, t, s, f
<1>7. m + q + s <= 1 + f
    BY <1>2, <1>3, <1>4, <1>5, <1>6
<1> QED
    BY <1>7 DEF UndosArePaid, m, q, s, f

-----------------------------------------------------------------------------
\* The one that has the claim, and has not succeeded, can still use it.
LEMMA NotYetSpent ==
    ASSUME CInv, NEW j \in Job, NEW v \in Worker,
           QP!Current(v), workers[v].job = j, workers[v].stage # "succeeded"
    PROVE  ~Spent(j)
<1>1. jobs[j].status = "running"
    BY DEF QP!Current, QP!Owns
<1>2. ASSUME NEW w \in Worker, QP!Current(w), workers[w].job = j
      PROVE  w = v
    BY <1>2, QueueLimits, QP!CurrentAlone DEF CInv, QP!ClaimsInv
<1> QED
    BY <1>1, <1>2, QueueTerms DEF Spent, QP!Settled

\* The workers and their claims stay, and so do the jobs that are settled.
LEMMA KeptClaimsPay ==
    ASSUME CInv, NEW j \in Job, undone' = undone, faults' = faults, workers' = workers,
           \A v \in Worker : QP!KeepsClaim(v),
           jobs[j].status \in QP!Settled => jobs'[j].status \in QP!Settled
    PROVE  UndosArePaid(j)'
<1>1. Pending(j)' \subseteq Pending(j)
    BY DEF Pending, QP!Late, QP!KeepsClaim
<1>2. Spent(j) => Spent(j)'
    BY QueueTerms DEF Spent, QP!KeepsClaim, QP!Current
<1>3. faults' \in Nat /\ faults <= faults'
    BY Counts
<1> QED
    BY <1>1, <1>2, <1>3, QuietStep

\* A new job starts its account with one undo to come.
LEMMA CreationPays ==
    ASSUME CInv, NEW i \in Job, QP!CreateRecoveryJob(i), undone' = undone, NEW j \in Job
    PROVE  UndosArePaid(j)'
<1>1. \A v \in Worker : QP!KeepsClaim(v)
    BY QueueLimits, QP!CreationClaims DEF CInv, QP!ClaimsInv, QP!IInv
<1>2. /\ workers' = workers /\ faults' = faults /\ jobs[i] = QP!NoJob
      /\ \A k \in Job \ {i} : jobs'[k] = jobs[k]
    BY DEF QP!CreateRecoveryJob, CInv, QP!ClaimsInv, QP!IInv, QP!TypeOK
<1>3. jobs[j].status \in QP!Settled => jobs'[j].status \in QP!Settled
    BY <1>2 DEF QP!NoJob, QP!Settled
<1> QED
    BY <1>1, <1>2, <1>3, KeptClaimsPay

\* A cancelled job has none to come.
LEMMA CancellationPays ==
    ASSUME CInv, NEW i \in Job, QP!CancelRecoveryJob(i), undone' = undone, NEW j \in Job
    PROVE  UndosArePaid(j)'
<1>a. QP!TypeOK
    BY DEF CInv, QP!ClaimsInv, QP!IInv
<1>1. \A v \in Worker : QP!KeepsClaim(v)
    BY <1>a, QueueLimits, QP!CancellationClaims
<1>2. jobs'[i].status = "cancelled" /\ \A k \in Job \ {i} : jobs'[k] = jobs[k]
    BY <1>a, QueueLimits, QP!CancellationClaims
<1>3. jobs[j].status \in QP!Settled => jobs'[j].status \in QP!Settled
    BY <1>2 DEF QP!Settled
<1>4. workers' = workers /\ faults' = faults
    BY DEF QP!CancelRecoveryJob
<1> QED
    BY <1>1, <1>3, <1>4, KeptClaimsPay

\* Steps beside the queue leave the account alone.
LEMMA CalmPays ==
    ASSUME CInv, UNCHANGED queueVars, undone' = undone, NEW j \in Job
    PROVE  UndosArePaid(j)'
<1>1. workers' = workers /\ jobs' = jobs /\ faults' = faults
    BY DEF queueVars
<1>2. \A v \in Worker : QP!KeepsClaim(v)
    BY <1>1 DEF QP!KeepsClaim, QP!Current, QP!Owns
<1> QED
    BY <1>1, <1>2, KeptClaimsPay

\* A claim makes no worker late, and the undo of its handler was to come already.
LEMMA ClaimPays ==
    ASSUME CInv, NEW w \in Worker, NEW i \in Job, QP!ClaimRecoveryJob(w, i),
           undone' = undone, NEW j \in Job
    PROVE  UndosArePaid(j)'
<1>a. QP!TypeOK /\ QP!ClaimsAreNumbered
    BY DEF CInv, QP!ClaimsInv, QP!IInv
<1>1. /\ workers[w] = QP!Idle /\ workers'[w] # QP!Idle /\ QP!Current(w)'
      /\ jobs[i].status \in { "pending", "retry_wait", "running" }
    BY <1>a, QueueLimits, QP!ClaimClaims
<1>2. \A v \in Worker \ {w} : workers'[v] = workers[v] /\ QP!KeepsClaim(v)
    BY <1>a, QueueLimits, QP!ClaimClaims
<1>3. faults' = faults /\ \A k \in Job \ {i} : jobs'[k] = jobs[k]
    BY <1>a DEF QP!ClaimRecoveryJob, QP!TypeOK
<1>4. Pending(j)' \subseteq Pending(j)
    BY <1>1, <1>2 DEF Pending, QP!Late, QP!KeepsClaim
<1>5. Spent(j) => Spent(j)'
    <2>1. jobs[j].status \in QP!Settled => jobs'[j].status \in QP!Settled
        BY <1>1, <1>3 DEF QP!Settled
    <2>2. ASSUME NEW v \in Worker, QP!Current(v), workers[v].job = j,
                 workers[v].stage = "succeeded"
          PROVE  QP!Current(v)' /\ workers'[v].job = j /\ workers'[v].stage = "succeeded"
        <3>1. v # w
            BY <1>1, <2>2 DEF QP!Idle
        <3>2. workers[v] # QP!Idle
            BY <2>2 DEF QP!Idle
        <3> QED
            BY <1>2, <2>2, <3>1, <3>2 DEF QP!KeepsClaim
    <2> QED
        BY <2>1, <2>2, QueueTerms DEF Spent
<1>6. faults' \in Nat /\ faults <= faults'
    BY <1>3, Counts
<1> QED
    BY <1>4, <1>5, <1>6, QuietStep

\* A worker leaves its job, and its claim if it has it.
LEMMA LeavingPays ==
    ASSUME CInv, NEW w \in Worker, workers[w] # QP!Idle, QP!Leaves(w), jobs' = jobs,
           (faults' = faults /\ ~QP!Current(w)) \/ faults' = faults + 1,
           undone' = undone, NEW j \in Job
    PROVE  UndosArePaid(j)'
<1>a. QP!TypeOK /\ faults \in Nat
    BY Counts DEF CInv, QP!ClaimsInv, QP!IInv
<1>1. workers'[w] = QP!Idle
    BY <1>a, QueueLimits, QP!LeavingClaims
<1>2. \A v \in Worker \ {w} : workers'[v] = workers[v] /\ QP!KeepsClaim(v)
    BY <1>a, QueueLimits, QP!LeavingClaims
<1>3. Pending(j)' \subseteq Pending(j)
    BY <1>1, <1>2 DEF Pending, QP!Late, QP!KeepsClaim
<1>4. CASE faults' = faults /\ ~QP!Current(w)
    <2>1. ASSUME NEW v \in Worker, QP!Current(v), workers[v].job = j,
                 workers[v].stage = "succeeded"
          PROVE  QP!Current(v)' /\ workers'[v].job = j /\ workers'[v].stage = "succeeded"
        <3>1. v # w /\ workers[v] # QP!Idle
            BY <1>4, <2>1 DEF QP!Idle
        <3> QED
            BY <1>2, <2>1, <3>1 DEF QP!KeepsClaim
    <2>2. Spent(j) => Spent(j)'
        BY <2>1 DEF Spent
    <2>3. faults' \in Nat /\ faults <= faults'
        BY <1>a, <1>4
    <2> QED
        BY <1>3, <2>2, <2>3, QuietStep
<1>5. CASE faults' = faults + 1
    <2>1. faults' \in Nat /\ faults + 1 <= faults'
        BY <1>a, <1>5
    <2>2. Pending(j)' \subseteq Pending(j) \cup {w}
        BY <1>3
    <2> QED
        BY <1>3, <2>1, <2>2, FaultyStep
<1> QED
    BY <1>4, <1>5

\* The owner's name releases the row, whoever had the claim.
LEMMA ReleasePays ==
    ASSUME CInv, NEW w \in Worker, NEW i \in Job, workers[w] # QP!Idle, workers[w].job = i,
           QP!Leaves(w), faults' = faults, QP!Owns(w, jobs[i]),
           NEW status \in { "succeeded", "permanent_failed", "retry_wait" }, NEW left \in Nat,
           status = "retry_wait" => workers[w].stage = "failed",
           QP!Release(i, status, left), undone' = undone, NEW j \in Job
    PROVE  UndosArePaid(j)'
<1>a. QP!TypeOK /\ QP!ClaimsAreNumbered /\ faults \in Nat
    BY Counts DEF CInv, QP!ClaimsInv, QP!IInv
<1>r. QP!ReleasedBy(w, i, status)
    BY <1>a, QueueLimits, QP!ReleaseClaims
<1>1. workers'[w] = QP!Idle /\ \A v \in Worker \ {w} : workers'[v] = workers[v]
    BY <1>r DEF QP!ReleasedBy
<1>2. /\ jobs[i].status = "running" /\ jobs'[i].status = status
      /\ \A k \in Job \ {i} : jobs'[k] = jobs[k]
    BY <1>r DEF QP!ReleasedBy
<1>3. \A v \in Worker \ {w} : workers[v] # QP!Idle /\ workers[v].job # i
          => (QP!Current(v)' <=> QP!Current(v))
    BY <1>r DEF QP!ReleasedBy
<1>4. CASE j # i
    <2>1. Pending(j)' \subseteq Pending(j)
        BY <1>1, <1>3, <1>4 DEF Pending, QP!Late
    <2>2. ASSUME NEW v \in Worker, QP!Current(v), workers[v].job = j,
                 workers[v].stage = "succeeded"
          PROVE  QP!Current(v)' /\ workers'[v].job = j /\ workers'[v].stage = "succeeded"
        <3>1. v # w /\ workers[v] # QP!Idle
            BY <1>4, <2>2 DEF QP!Idle
        <3> QED
            BY <1>1, <1>3, <1>4, <2>2, <3>1
    <2>3. jobs'[j] = jobs[j]
        BY <1>2, <1>4
    <2>4. Spent(j) => Spent(j)'
        BY <2>2, <2>3 DEF Spent
    <2>5. faults' \in Nat /\ faults <= faults'
        BY <1>a
    <2> QED
        BY <2>1, <2>4, <2>5, QuietStep
<1>5. CASE j = i
    <2>1. w \notin Pending(j)'
        BY <1>1 DEF Pending, QP!Late
    <2>2. ASSUME NEW v \in Pending(j)', v \notin Pending(j)
          PROVE  /\ v \in Worker \ {w} /\ QP!Current(v) /\ workers[v].job = j
                 /\ ~Spent(j) /\ ~QP!Current(w)
        <3>1. /\ v \in Worker \ {w} /\ workers[v] # QP!Idle /\ workers[v].job = j
              /\ workers[v].stage \in { "handling", "failed" }
            BY <1>1, <2>2 DEF Pending, QP!Late
        <3>2. QP!Current(v)
            BY <2>2, <3>1 DEF Pending, QP!Late
        <3>3. ~Spent(j)
            BY <3>1, <3>2, NotYetSpent
        <3>4. ~QP!Current(w)
            BY <1>a, <1>5, <3>1, <3>2, QueueLimits, QP!CurrentAlone
        <3> QED
            BY <3>1, <3>2, <3>3, <3>4
    <2>3. ASSUME NEW u \in Pending(j)', u \notin Pending(j)
          PROVE  Pending(j)' \subseteq Pending(j) \cup {u}
        BY <1>a, <2>2, <2>3, QueueLimits, QP!CurrentAlone
    <2>4. PICK x : Pending(j)' \subseteq Pending(j) \cup {x}
        BY <2>3
    <2>5. ~(Pending(j)' \subseteq Pending(j)) => ~Spent(j) /\ ~QP!Current(w)
        BY <2>2
    <2>6. faults' \in Nat /\ faults <= faults'
        BY <1>a
    <2>7. CASE status # "retry_wait"
        <3>1. Spent(j)'
            BY <1>2, <1>5, <2>7, QueueTerms DEF Spent, QP!Settled
        <3> QED
            BY <2>4, <2>5, <2>6, <3>1, SettlingStep, QuietStep
    <2>8. CASE status = "retry_wait" /\ QP!Current(w)
        <3>1. Pending(j)' \subseteq Pending(j)
            BY <2>5, <2>8
        <3>2. ~Spent(j)
            BY <1>5, <2>8, NotYetSpent
        <3> QED
            BY <2>6, <3>1, <3>2, QuietStep
    <2>9. CASE status = "retry_wait" /\ ~QP!Current(w)
        <3>1. w \in Pending(j)
            BY <1>5, <2>9 DEF Pending, QP!Late
        <3> QED
            BY <2>1, <2>4, <2>5, <3>1, ReturningStep
    <2> QED
        BY <2>7, <2>8, <2>9
<1> QED
    BY <1>4, <1>5

\* Each claim that time ends is a fault.
LEMMA TickPays ==
    ASSUME CInv, QP!Tick, undone' = undone, NEW j \in Job
    PROVE  UndosArePaid(j)'
<1>a. QP!TypeOK /\ QP!HeldJobsExist /\ faults \in Nat
    BY Counts DEF CInv, QP!ClaimsInv, QP!IInv
<1>1. /\ workers' = workers /\ faults' = faults + Cardinality(QP!Overrunning)
      /\ QP!Overrunning \in SUBSET Worker
    BY <1>a, QueueLimits, QueueCounts, QP!TickClaims
<1>2. jobs'[j].status = jobs[j].status
    BY <1>a, QueueLimits, QP!TickClaims
<1>3. \A v \in Worker : workers[v] # QP!Idle
          => (QP!Current(v)' <=> QP!Current(v) /\ v \notin QP!Overrunning)
    BY <1>a, QueueLimits, QP!TickClaims
<1> DEFINE lost == Cardinality(QP!Overrunning)
<1>4. IsFiniteSet(QP!Overrunning) /\ lost \in Nat
    BY <1>1, Numbers, FS_Subset, FS_CardinalityType
<1>5. CASE \E u \in QP!Overrunning : QP!Current(u) /\ workers[u].job = j
    <2>1. PICK u \in QP!Overrunning : QP!Current(u) /\ workers[u].job = j
        BY <1>5
    <2>2. u \in Worker
        BY <1>1
    <2>3. faults' \in Nat /\ faults + 1 <= faults'
        <3>1. lost # 0
            BY <1>4, FS_EmptySet
        <3> HIDE DEF lost
        <3>2. faults + lost \in Nat /\ faults + 1 <= faults + lost
            BY <1>a, <1>4, <3>1
        <3> QED
            BY <1>1, <3>2 DEF lost
    <2>4. ASSUME NEW v \in Pending(j)', v \notin Pending(j)
          PROVE  v = u /\ ~Spent(j)
        <3>1. /\ v \in Worker /\ workers[v] # QP!Idle /\ workers[v].job = j
              /\ workers[v].stage \in { "handling", "failed" } /\ QP!Current(v)
            BY <1>1, <2>4 DEF Pending, QP!Late
        <3>2. v = u
            BY <2>1, <2>2, <3>1, QueueLimits, QP!CurrentAlone DEF CInv, QP!ClaimsInv
        <3> QED
            BY <3>1, <3>2, NotYetSpent
    <2>5. Pending(j)' \subseteq Pending(j) \cup {u}
        BY <2>4
    <2>6. ~(Pending(j)' \subseteq Pending(j)) => ~Spent(j)
        BY <2>4
    <2> QED
        BY <2>2, <2>3, <2>5, <2>6, FaultyStep
<1>6. CASE ~ \E u \in QP!Overrunning : QP!Current(u) /\ workers[u].job = j
    <2>1. faults' \in Nat /\ faults <= faults'
        <3> HIDE DEF lost
        <3>1. faults + lost \in Nat /\ faults <= faults + lost
            BY <1>a, <1>4
        <3> QED
            BY <1>1, <3>1 DEF lost
    <2>2. Pending(j)' \subseteq Pending(j)
        BY <1>1, <1>3, <1>6 DEF Pending, QP!Late
    <2>3. ASSUME NEW v \in Worker, QP!Current(v), workers[v].job = j
          PROVE  QP!Current(v)'
        <3>1. workers[v] # QP!Idle
            BY <2>3 DEF QP!Current
        <3> QED
            BY <1>3, <1>6, <2>3, <3>1
    <2>4. Spent(j) => Spent(j)'
        BY <1>1, <1>2, <2>3 DEF Spent
    <2> QED
        BY <2>1, <2>2, <2>4, QuietStep
<1> QED
    BY <1>5, <1>6

\* The compensation spends what the job has to come, or what its late worker
\* has pending.
LEMMA CompensationPays ==
    ASSUME CInv, NEW w \in Worker, CompensateCalibration(w), NEW j \in Job
    PROVE  UndosArePaid(j)'
<1>a. QP!TypeOK
    BY DEF CInv, QP!ClaimsInv, QP!IInv
<1>0. PICK outcome \in { "succeeded", "failed" } :
          /\ QP!HandlerReturns(w, outcome)
          /\ undone' = undone \/ (SendBack(w) /\ outcome = "succeeded")
    BY Compensated
<1>1. /\ \A v \in Worker : QP!KeepsClaim(v)
      /\ \A v \in Worker \ {w} : workers'[v] = workers[v]
    BY <1>a, <1>0, QueueLimits, QP!ReturningClaims
<1>2. workers[w] # QP!Idle /\ workers'[w].stage = outcome /\ workers'[w].job = workers[w].job
    BY <1>a, <1>0, QueueLimits, QP!ReturningClaims
<1>3. workers[w].stage = "handling" /\ jobs' = jobs /\ faults' = faults
    BY <1>0 DEF QP!HandlerReturns
<1>4. Pending(j)' \subseteq Pending(j)
    BY <1>1, <1>2, <1>3 DEF Pending, QP!Late, QP!KeepsClaim
<1>5. Spent(j) => Spent(j)'
    <2>1. ASSUME NEW v \in Worker, QP!Current(v), workers[v].job = j,
                 workers[v].stage = "succeeded"
          PROVE  QP!Current(v)' /\ workers'[v].job = j /\ workers'[v].stage = "succeeded"
        <3>1. v # w /\ workers[v] # QP!Idle
            BY <1>3, <2>1 DEF QP!Idle
        <3> QED
            BY <1>1, <2>1, <3>1 DEF QP!KeepsClaim
    <2> QED
        BY <1>3, <2>1 DEF Spent
<1>6. faults' \in Nat /\ faults <= faults'
    BY <1>3, Counts
<1>7. ASSUME SendBack(w), outcome = "succeeded", workers[w].job = j
      PROVE  UndosArePaid(j)'
    <2>1. PICK x : undone' = undone \cup {x}
        BY <1>7, SentBack
    <2>2. CASE QP!Current(w)
        <3>1. ~Spent(j)
            BY <1>3, <1>7, <2>2, NotYetSpent
        <3>2. Spent(j)'
            BY <1>1, <1>2, <1>7, <2>2 DEF Spent, QP!KeepsClaim
        <3> QED
            BY <1>3, <1>4, <1>5, <2>1, <3>1, <3>2, UndoingStep
    <2>3. CASE ~QP!Current(w)
        <3>1. w \in Pending(j) /\ w \notin Pending(j)'
            BY <1>2, <1>3, <1>7, <2>3 DEF Pending, QP!Late
        <3> QED
            BY <1>3, <1>4, <1>5, <2>1, <3>1, UndoingStep
    <2> QED
        BY <2>2, <2>3
<1>8. ASSUME SendBack(w), workers[w].job # j
      PROVE  UndosArePaid(j)'
    <2> DEFINE u == [job |-> workers[w].job, calibration |-> calibration[CellOf[workers[w].job]]]
    <2>1. undone' = undone \cup {u} /\ u.job = workers[w].job
        BY <1>8, SentBack
    <2> HIDE DEF u
    <2>2. UndoneBy(j)' = UndoneBy(j)
        BY <1>8, <2>1 DEF UndoneBy
    <2>3. IsFiniteSet(undone')
        BY <2>1, FS_AddElement DEF CInv
    <2> QED
        BY <1>4, <1>5, <1>6, <2>2, <2>3, NothingUndone
<1>9. CASE undone' = undone
    BY <1>4, <1>5, <1>6, <1>9, QuietStep
<1> QED
    BY <1>0, <1>7, <1>8, <1>9

\* The worker ends its claim, as it ends it in the queue.
LEMMA EndingPays ==
    ASSUME CInv, NEW w \in Worker, QP!CompleteRecoveryJob(w) \/ QP!FailRecoveryJob(w),
           undone' = undone, NEW j \in Job
    PROVE  UndosArePaid(j)'
<1>a. QP!TypeOK
    BY DEF CInv, QP!ClaimsInv, QP!IInv
<1>0. /\ workers[w] # QP!Idle /\ workers[w].job \in Job /\ QP!Leaves(w) /\ faults' = faults
      /\ \/ ~QP!Owns(w, jobs[workers[w].job]) /\ jobs' = jobs
         \/ /\ QP!Owns(w, jobs[workers[w].job])
            /\ \E status \in { "succeeded", "permanent_failed", "retry_wait" }, left \in Nat :
                 /\ status = "retry_wait" => workers[w].stage = "failed"
                 /\ QP!Release(workers[w].job, status, left)
    BY <1>a, QueueLimits, QP!EndsHow
<1>1. PICK i \in Job : workers[w].job = i
    BY <1>0
<1>2. CASE ~QP!Owns(w, jobs[i]) /\ jobs' = jobs
    <2>1. ~QP!Current(w)
        BY <1>1, <1>2 DEF QP!Current
    <2> QED
        BY <1>0, <1>2, <2>1, LeavingPays
<1>3. ASSUME QP!Owns(w, jobs[i]),
             NEW status \in { "succeeded", "permanent_failed", "retry_wait" }, NEW left \in Nat,
             status = "retry_wait" => workers[w].stage = "failed",
             QP!Release(i, status, left)
      PROVE  UndosArePaid(j)'
    BY <1>0, <1>1, <1>3, ReleasePays
<1> QED
    BY <1>0, <1>1, <1>2, <1>3

\* Every step of the composition preserves CInv.
LEMMA CStep ==
    ASSUME CInv, [Next]_vars
    PROVE  CInv'
<1>1. /\ TypeOK' /\ CalibratingIsCounted' /\ PayloadsArePast' /\ IsFiniteSet(undone')
      /\ SuccessIsTrue' /\ SuccessEndsTheCalibration'
    BY TypeStep, SuccessIsTrueStep, SuccessEndsStep
<1>2. QP!ClaimsInv'
    BY QueueLimits, QueueStep, QP!ClaimsStep DEF CInv
<1>3. ASSUME NEW j \in Job
      PROVE  UndosArePaid(j)'
    <2>1. ASSUME NEW w \in Worker, WorkerCallsQueue(w)
          PROVE  UndosArePaid(j)'
        <3>1. undone' = undone
            BY <2>1 DEF WorkerCallsQueue
        <3>2. \/ \E i \in Job : QP!ClaimRecoveryJob(w, i)
              \/ QP!CompleteRecoveryJob(w) \/ QP!FailRecoveryJob(w)
            BY <2>1, QueueCalls DEF WorkerCallsQueue
        <3> QED
            BY <3>1, <3>2, ClaimPays, EndingPays
    <2>2. ASSUME NEW w \in Worker, QP!Abandon(w), undone' = undone
          PROVE  UndosArePaid(j)'
        BY <2>2, LeavingPays DEF QP!Abandon, QP!Leaves
    <2>3. ASSUME QueueSuffers
          PROVE  UndosArePaid(j)'
        <3>1. undone' = undone
            BY <2>3 DEF QueueSuffers
        <3>2. \/ \E w \in Worker : QP!Abandon(w)
              \/ \E i \in Job : QP!CancelRecoveryJob(i)
            BY <2>3, QueueCalls DEF QueueSuffers
        <3> QED
            BY <2>2, <3>1, <3>2, CancellationPays
    <2>4. ASSUME TimePasses
          PROVE  UndosArePaid(j)'
        BY <2>4, QueueTerms, TickPays DEF TimePasses
    <2>5. ASSUME NEW r \in Reporter, ReportFilesJob(r)
          PROVE  UndosArePaid(j)'
        <3>1. undone' = undone
            BY <2>5 DEF ReportFilesJob
        <3>2. CASE UNCHANGED queueVars
            BY <3>1, <3>2, CalmPays
        <3>3. CASE Queue!CreateRecoveryJob(reports[r].job)
            <4>1. reports[r].job \in Job
                BY <2>5 DEF ReportFilesJob, CInv, TypeOK, Report
            <4>2. QP!CreateRecoveryJob(reports[r].job)
                BY <3>3, <4>1, QueueCalls
            <4> QED
                BY <3>1, <4>1, <4>2, CreationPays
        <3> QED
            BY <2>5, <3>2, <3>3 DEF ReportFilesJob
    <2>6. CASE UNCHANGED queueVars /\ undone' = undone
        BY <2>6, CalmPays
    <2> QED
        BY <2>1, <2>3, <2>4, <2>5, <2>6, CompensationPays
           DEF Next, vars, WorkerStep, TransitionCell, ReportReadsCell, ReportGivesUp
<1> QED
    BY <1>1, <1>2, <1>3 DEF CInv

\* The composition starts in CInv.
LEMMA CInit ==
    ASSUME Init
    PROVE  CInv
<1>1. QP!ClaimsInv /\ Queue!TypeOK
    <2>1. QP!Init
        BY QueueTerms DEF Init
    <2>2. QP!ClaimsInv
        BY <2>1, QueueLimits, QP!ClaimsInit
    <2> QED
        BY <2>2, QueueTerms DEF QP!ClaimsInv, QP!IInv
<1>2. TypeOK
    BY <1>1, Numbers DEF Init, TypeOK, Report, Undoing
<1>3. CalibratingIsCounted /\ PayloadsArePast
    BY Numbers DEF Init, CalibratingIsCounted, Calibrating, PayloadsArePast, NoReport
<1>4. /\ \A w \in Worker : workers[w] = QP!Idle
      /\ \A j \in Job : jobs[j] = QP!NoJob /\ faults = 0 /\ undone = {}
    BY QueueTerms DEF Init, QP!Init
<1>5. SuccessIsTrue /\ SuccessEndsTheCalibration
    BY <1>4 DEF SuccessIsTrue, SuccessEndsTheCalibration, QP!Idle, QP!NoJob
<1>6. ASSUME NEW j \in Job
      PROVE  UndosArePaid(j)
    <2>1. UndoneBy(j) = {} /\ Pending(j) = {}
        BY <1>4 DEF UndoneBy, Pending, QP!Late
    <2>2. ToCome(j) \in { 0, 1 }
        BY DEF ToCome
    <2> QED
        BY <1>4, <2>1, <2>2, FS_EmptySet DEF UndosArePaid
<1>7. IsFiniteSet(undone)
    BY FS_EmptySet DEF Init
<1> QED
    BY <1>1, <1>2, <1>3, <1>5, <1>6, <1>7 DEF CInv

-----------------------------------------------------------------------------
\* The queue, the cells and the budget of every report, kept together.
THEOREM CalibrationInvariant == Spec => []CInv
<1>1. Init => CInv
    BY CInit
<1>2. CInv /\ [Next]_vars => CInv'
    BY CStep
<1> QED
    BY <1>1, <1>2, PTL DEF Spec

\* Jobs, cells, reports and payloads are what the tables and requests can hold.
THEOREM TypeCorrect == Spec => []TypeOK
<1>1. CInv => TypeOK
    BY DEF CInv
<1> QED
    BY <1>1, CalibrationInvariant, PTL

\* A job that is told to have succeeded left the calibration its report names
\* ended, however the users moved the cell in between.
THEOREM SuccessIsNotEmpty == Spec => []SuccessEndsTheCalibration
<1>1. CInv => SuccessEndsTheCalibration
    BY DEF CInv
<1> QED
    BY <1>1, CalibrationInvariant, PTL

\* CompensateCalibration does not compare the payload's version; all the same a
\* report ends one calibration, and one more for each claim that was lost.
THEOREM ReportsAreSpentOnce == Spec => []OneUndoPerReport
<1>1. CInv => OneUndoPerReport
    <2> SUFFICES ASSUME CInv, NEW j \in Job
                 PROVE  Cardinality(UndoneBy(j)) <= 1 + faults
        BY DEF OneUndoPerReport
    <2> DEFINE n == Cardinality(UndoneBy(j))
               p == Cardinality(Pending(j))
               t == ToCome(j)
               f == faults
    <2>1. n \in Nat /\ p \in Nat /\ t \in {0, 1} /\ f \in Nat
        BY Counts
    <2>2. n + p + t <= 1 + f
        BY DEF CInv, UndosArePaid
    <2> HIDE DEF n, p, t, f
    <2>3. n <= 1 + f
        BY <2>1, <2>2
    <2> QED
        BY <2>3 DEF n, f
<1> QED
    BY <1>1, CalibrationInvariant, PTL

\* Without a lost claim nobody is late, so a job that ends a calibration is
\* running, and has not ended one before.
LEMMA NoneAreLate ==
    ASSUME CInv, faults = 0
    PROVE  QP!Late = {}
<1>1. Cardinality(QP!Late) <= 0
    BY QueueCounts DEF CInv, QP!ClaimsInv, QP!LateForAFault
<1>2. IsFiniteSet(QP!Late)
    BY Numbers, FS_Subset DEF QP!Late
<1> QED
    BY <1>1, <1>2, FS_CardinalityType, FS_EmptySet

\* A calibration is undone by the first run of its job, unless a fault came before.
LEMMA SettledStep ==
    ASSUME CInv, [Next]_vars, NEW u \in undone' \ undone
    PROVE  \/ faults > 0
           \/ jobs[u.job].status = "running" /\ UndoneBy(u.job) = {}
<1> SUFFICES ASSUME ~(faults > 0)
             PROVE  jobs[u.job].status = "running" /\ UndoneBy(u.job) = {}
    OBVIOUS
<1>1. PICK w \in Worker : CompensateCalibration(w) /\ SendBack(w)
    BY UndoneChanges
<1>2. workers[w] # QP!Idle /\ workers[w].job \in Job /\ u.job = workers[w].job
    <2> DEFINE x == [job |-> workers[w].job, calibration |-> calibration[CellOf[workers[w].job]]]
    <2>1. undone' = undone \cup {x} /\ x.job = workers[w].job
        BY <1>1, SentBack
    <2>2. workers[w] # QP!Idle /\ workers[w].job \in Job
        BY <1>1, SentBack
    <2> HIDE DEF x
    <2> QED
        BY <2>1, <2>2
<1>3. PICK j \in Job : workers[w].job = j /\ u.job = j
    BY <1>2
<1>4. faults = 0
    BY <1>3, Counts
<1>5. QP!Current(w)
    BY <1>2, <1>4, NoneAreLate DEF QP!Late
<1>6. jobs[j].status = "running"
    BY <1>3, <1>5 DEF QP!Current, QP!Owns
<1>7. workers[w].stage = "handling"
    <2>1. QP!HandlerReturns(w, "succeeded") \/ QP!HandlerReturns(w, "failed")
        BY <1>1, Compensated
    <2> QED
        BY <2>1 DEF QP!HandlerReturns
<1>8. ~Spent(j)
    BY <1>3, <1>5, <1>7, NotYetSpent
<1>9. UndoneBy(j) = {}
    <2> DEFINE n == Cardinality(UndoneBy(j))
               p == Cardinality(Pending(j))
    <2>1. n \in Nat /\ p \in Nat /\ ToCome(j) = 1
        BY <1>8, Counts
    <2>2. n + p + 1 <= 1 + 0
        BY <1>4, <2>1 DEF CInv, UndosArePaid
    <2>3. IsFiniteSet(UndoneBy(j))
        BY FS_Subset DEF CInv, UndoneBy
    <2> HIDE DEF p
    <2>4. n = 0
        BY <2>1, <2>2
    <2> QED
        BY <2>3, <2>4, FS_EmptySet
<1> QED
    BY <1>3, <1>6, <1>9

\* A report that is settled, or whose claim has gone to another attempt, ends
\* no calibration any more unless a claim was lost.
THEOREM SettledReportsRest == Spec => SettledReportsUndoNothing
<1>1. CInv /\ [Next]_vars => [\A u \in undone' \ undone :
          \/ faults > 0
          \/ jobs[u.job].status = "running" /\ UndoneBy(u.job) = {}]_vars
    BY SettledStep
<1> QED
    BY <1>1, CalibrationInvariant, PTL DEF Spec, SettledReportsUndoNothing

=============================================================================
