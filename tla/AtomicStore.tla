----------------------------- MODULE AtomicStore -----------------------------
(***************************************************************************)
(* What every other module takes a store method for: one step that looks   *)
(* at the tables as they are and writes all of its rows.  Of the methods,  *)
(* those that change an object append an event to the audit log, next to   *)
(* the newest one.  Those that insert a row, and those that move a         *)
(* recovery job, append none.  A rejected request appends an event and     *)
(* nothing else, linked to some earlier one.                               *)
(***************************************************************************)
EXTENDS Naturals, Sequences

CONSTANTS Object, Job, Transaction, Rejecter

VARIABLES
    rows,            \* how often each row was written; 0 where there is none yet
    log,             \* audit_events, by id
    saw              \* the rows the latest write was decided on

vars == << rows, log, saw >>

-----------------------------------------------------------------------------
Row == Object \cup Job

Init ==
    /\ rows = [r \in Row |-> 0]
    /\ log = << >>
    /\ saw = rows

\* One write of each row of R, decided on the rows as they are.
Write(R) ==
    /\ saw' = rows
    /\ rows' = [r \in Row |-> IF r \in R THEN rows[r] + 1 ELSE rows[r]]

\* TransitionCell, RecordInspection, RetireCell, CompensateCalibration,
\* ApproveAndReserveWindow, CancelWindow, AdvanceMaintenance.
Change(t, R) ==
    /\ Write(R)
    /\ log' = Append(log, [previous |-> Len(log), by |-> t])

\* CreateCell, CreateWindow, CreateMaintenanceOrder, CreateRecoveryJob.
Insert(r) == rows[r] = 0 /\ Write({r}) /\ UNCHANGED log

\* ClaimRecoveryJob, CompleteRecoveryJob, FailRecoveryJob, CancelRecoveryJob.
MoveJob(j) == rows[j] > 0 /\ Write({j}) /\ UNCHANGED log

Reject(q) ==
    /\ \E h \in 0..Len(log) : log' = Append(log, [previous |-> h, by |-> q])
    /\ UNCHANGED << rows, saw >>

Next ==
    \/ \E t \in Transaction, R \in (SUBSET Object) \ {{}} : Change(t, R)
    \/ \E r \in Row : Insert(r)
    \/ \E j \in Job : MoveJob(j)
    \/ \E q \in Rejecter : Reject(q)

Spec == Init /\ [][Next]_vars

=============================================================================
