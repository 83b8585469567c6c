------------------------- MODULE CalibrationRecovery -------------------------
(***************************************************************************)
(* A failed calibration from its report to its compensation:               *)
(* Lifecycle.ReportCalibrationFailure, the recovery queue with its workers *)
(* and Store.CompensateCalibration, beside the users who move the cell.    *)
(*                                                                         *)
(* The report reads the cell and inserts the job in two transactions, and  *)
(* the compensation reads the cell again, much later and maybe more than   *)
(* once.  A cell's version is kept as the number of its calibration: what  *)
(* a payload's version says is which calibration had failed.               *)
(***************************************************************************)
EXTENDS Naturals, FiniteSets, CellStates

CONSTANTS
    Cell,
    Job,               \* reports, by idempotency key
    CellOf,            \* the cell each key names
    Phase,             \* the statuses the cells take while they are watched
    Reporter,          \* requests that may report at the same time
    Worker, Owner, MaxAttempts, Lease, MaxFaults,    \* see RecoveryQueue
    MaxCalibrations    \* bound on how often a cell enters calibration

ASSUME CalibrationAssumption ==
    /\ CellOf \in [Job -> Cell]
    /\ Phase \subseteq CellStatus
    /\ MaxCalibrations \in Nat
    /\ MaxAttempts \in Nat \ {0} /\ Lease \in Nat \ {0} /\ MaxFaults \in Nat
    /\ IsFiniteSet(Worker)
    /\ \A w \in Worker : Owner[w] # ""

VARIABLES
    jobs, workers, handled, faults,    \* RecoveryQueue
    cellStatus,        \* robot_cells.status, by cell
    calibration,       \* the number of its latest calibration, by cell
    reports,           \* what each request has read of its cell
    payload,           \* the calibration each job's payload names; 0 before
    undone             \* history: which job ended which calibration

queueVars == << jobs, workers, handled, faults >>
cellVars == << cellStatus, calibration >>
vars == << queueVars, cellVars, reports, payload, undone >>

Queue == INSTANCE RecoveryQueue

-----------------------------------------------------------------------------
NoReport == [calibration |-> 0]

Report == [job : Job, calibration : 1..MaxCalibrations]

Undoing == [job : Job, calibration : 1..MaxCalibrations]

Calibrating(c) == cellStatus[c] = "calibrating"

Init ==
    /\ Queue!Init
    /\ cellStatus \in [Cell -> Phase \ { "calibrating" }]
    /\ calibration = [c \in Cell |-> 0]
    /\ reports = [r \in Reporter |-> NoReport]
    /\ payload = [j \in Job |-> 0]
    /\ undone = {}

\* Users move the cell along its table; they need no report for it.
TransitionCell(c, next) ==
    /\ << cellStatus[c], next >> \in cellTransitions
    /\ next = "calibrating" => calibration[c] < MaxCalibrations
    /\ cellStatus' = [cellStatus EXCEPT ![c] = next]
    /\ calibration' = IF next = "calibrating"
                      THEN [calibration EXCEPT ![c] = @ + 1] ELSE calibration
    /\ UNCHANGED << queueVars, reports, payload, undone >>

\* ReportCalibrationFailure up to its GetCell ...
ReportReadsCell(r, j) ==
    /\ reports[r] = NoReport
    /\ Calibrating(CellOf[j])
    /\ reports' = [reports EXCEPT ![r] = [job |-> j, calibration |-> calibration[CellOf[j]]]]
    /\ UNCHANGED << queueVars, cellVars, payload, undone >>

\* ... and its CreateRecoveryJob: a key that exists returns its job as it is.
ReportFilesJob(r) ==
    /\ reports[r] # NoReport
    /\ LET j == reports[r].job
       IN  IF jobs[j] = Queue!NoJob
           THEN /\ Queue!CreateRecoveryJob(j)
                /\ payload' = [payload EXCEPT ![j] = reports[r].calibration]
           ELSE UNCHANGED << queueVars, payload >>
    /\ reports' = [reports EXCEPT ![r] = NoReport]
    /\ UNCHANGED << cellVars, undone >>

\* The request is cancelled, or the database refuses.
ReportGivesUp(r) ==
    /\ reports[r] # NoReport
    /\ reports' = [reports EXCEPT ![r] = NoReport]
    /\ UNCHANGED << queueVars, cellVars, payload, undone >>

\* The write of a compensation: the status goes back, whatever calibration the
\* payload names.
SendBack(w) ==
    LET j == workers[w].job
        c == CellOf[j]
    IN  /\ Calibrating(c)
        /\ cellStatus' = [cellStatus EXCEPT ![c] = "installing"]
        /\ undone' = undone \cup { [job |-> j, calibration |-> calibration[c]] }
        /\ UNCHANGED calibration

\* Mutant: a refused update counts as a success.
CompensateIgnoringTheCount(w) ==
    /\ workers[w] # Queue!Idle
    /\ \/ /\ cellStatus[CellOf[workers[w].job]] = "installing"
          /\ Queue!HandlerReturns(w, "succeeded")
          /\ UNCHANGED << cellVars, undone >>
       \/ Queue!HandlerReturns(w, "succeeded") /\ SendBack(w)
       \/ /\ Calibrating(CellOf[workers[w].job])
          /\ Queue!HandlerReturns(w, "succeeded")
          /\ UNCHANGED << cellVars, undone >>
       \/ Queue!HandlerReturns(w, "failed") /\ UNCHANGED << cellVars, undone >>
    /\ UNCHANGED << reports, payload >>

\* Mutant: an error after the commit is reported as a failure.
CompensateFailingLate(w) ==
    /\ workers[w] # Queue!Idle
    /\ \/ /\ cellStatus[CellOf[workers[w].job]] = "installing"
          /\ Queue!HandlerReturns(w, "succeeded")
          /\ UNCHANGED << cellVars, undone >>
       \/ \E outcome \in { "succeeded", "failed" } :
              Queue!HandlerReturns(w, outcome) /\ SendBack(w)
       \/ Queue!HandlerReturns(w, "failed") /\ UNCHANGED << cellVars, undone >>
    /\ UNCHANGED << reports, payload >>

\* The handler, one transaction: a cell already installing is a success and left
\* alone, a calibrating one is sent back; any other is a conflict, and the
\* transaction may fail or meet its deadline whatever it has found.
CompensateCalibration(w) ==
    /\ workers[w] # Queue!Idle
    /\ \/ /\ cellStatus[CellOf[workers[w].job]] = "installing"
          /\ Queue!HandlerReturns(w, "succeeded")
          /\ UNCHANGED << cellVars, undone >>
       \/ Queue!HandlerReturns(w, "succeeded") /\ SendBack(w)
       \/ Queue!HandlerReturns(w, "failed") /\ UNCHANGED << cellVars, undone >>
    /\ UNCHANGED << reports, payload >>

\* The rest of drainOne: its calls of the queue.
WorkerCallsQueue(w) ==
    /\ \/ \E j \in Job : Queue!ClaimRecoveryJob(w, j)
       \/ Queue!CompleteRecoveryJob(w)
       \/ Queue!FailRecoveryJob(w)
    /\ UNCHANGED << cellVars, reports, payload, undone >>

\* What befalls the queue from outside: lost claims and cancellations.
QueueSuffers ==
    /\ \/ \E w \in Worker : Queue!Abandon(w)
       \/ \E j \in Job : Queue!CancelRecoveryJob(j)
    /\ UNCHANGED << cellVars, reports, payload, undone >>

TimePasses ==
    /\ Queue!Tick
    /\ UNCHANGED << cellVars, reports, payload, undone >>

WorkerStep(w) == CompensateCalibration(w) \/ WorkerCallsQueue(w)

Next ==
    \/ \E c \in Cell, next \in Phase : TransitionCell(c, next)
    \/ \E r \in Reporter : \/ \E j \in Job : ReportReadsCell(r, j)
                           \/ ReportFilesJob(r) \/ ReportGivesUp(r)
    \/ \E w \in Worker : WorkerStep(w)
    \/ QueueSuffers
    \/ TimePasses

Spec == Init /\ [][Next]_vars

\* As in RecoveryQueue: time passes and workers go on; nobody has to report.
FairSpec == Spec /\ WF_vars(TimePasses) /\ \A w \in Worker : WF_vars(WorkerStep(w))

-----------------------------------------------------------------------------
TypeOK ==
    /\ Queue!TypeOK
    /\ cellStatus \in [Cell -> Phase \cup { "installing" }]
    /\ calibration \in [Cell -> 0..MaxCalibrations]
    /\ reports \in [Reporter -> Report \cup {NoReport}]
    /\ payload \in [Job -> 0..MaxCalibrations]
    /\ undone \subseteq Undoing

UndoneBy(j) == { u \in undone : u.job = j }

\* A report ends at most one calibration, and one more for each claim that was
\* lost: CompensateCalibration does not compare the payload's version, so what
\* keeps a second attempt from ending the calibration after the reported one
\* is only that a compensation that took effect is reported as a success.
OneUndoPerReport == \A j \in Job : Cardinality(UndoneBy(j)) <= 1 + faults

\* The calibration a job's payload names is over.
ReportedIsOver(j) == ~Calibrating(CellOf[j]) \/ calibration[CellOf[j]] > payload[j]

\* A job that is told to have succeeded left the reported calibration ended,
\* though the cell may have moved between the report's read and its insert,
\* between the insert and the claim, and between two attempts.
SuccessEndsTheCalibration ==
    \A j \in Job : jobs[j].status = "succeeded" => ReportedIsOver(j)

\* A report that is settled, or whose claim has gone to another attempt, ends
\* no calibration any more unless a claim was lost.
SettledReportsUndoNothing ==
    [][\A u \in undone' \ undone :
          \/ faults > 0
          \/ jobs[u.job].status = "running" /\ UndoneBy(u.job) = {}]_vars

\* Every report is answered: in the end the calibration it names is over, or
\* the job says that it was given up or cancelled.
ReportsAreAnswered ==
    \A j \in Job : jobs[j] # Queue!NoJob ~>
        ReportedIsOver(j) \/ jobs[j].status \in { "permanent_failed", "cancelled" }

=============================================================================
