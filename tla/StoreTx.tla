------------------------------- MODULE StoreTx -------------------------------
(***************************************************************************)
(* The methods of internal/store on the SQLite they run on: WAL mode,      *)
(* deferred BEGIN, a busy timeout.  Every method that uses WithTx reads    *)
(* first, and works on the snapshot its first statement takes.  Its first  *)
(* write needs the write lock and a snapshot that is still the newest      *)
(* state; otherwise the statement fails with "database is locked" and the  *)
(* method rolls back.  All of them but ClaimRecoveryJob append an event    *)
(* before they commit.  The other methods are single statements, which     *)
(* commit by themselves and without an event: the audit log does not tell  *)
(* of a creation.                                                          *)
(*                                                                         *)
(* It extends AuditLog with the rows the methods read and write, and shows *)
(* that other modules may take a whole store method as one step.           *)
(***************************************************************************)
EXTENDS AuditLog

CONSTANTS
    Object,          \* rows that audited methods write: cells, windows, orders,
                     \* and what they write along with these
    Job,             \* rows of recovery_jobs
    MaxWrites        \* bound on the writes of a row, where TLC stops

ASSUME StoreAssumption == MaxWrites \in Nat /\ Object \cap Job = {}

VARIABLES
    rows,            \* how often each row was written; 0 where there is none
    tx,              \* the open transactions
    saw              \* history: the rows the latest write was decided on

storeVars == << vars, rows, tx, saw >>

-----------------------------------------------------------------------------
Row == Object \cup Job

Rows == [Row -> Nat]

NotBegun == [fresh |-> FALSE]        \* no transaction, or one without a statement

\* seen: the snapshot; wrote: what was written since, for nobody else to see;
\* fresh: nobody has committed since the snapshot was taken.
Tx == [seen : Rows, wrote : SUBSET Row, fresh : BOOLEAN]

Open(t) == tx[t] # NotBegun

\* After a commit no other snapshot is the newest state.
Outdated == [t \in Transaction |-> IF Open(t) THEN [tx[t] EXCEPT !.fresh = FALSE]
                                   ELSE NotBegun]

StoreInit ==
    /\ Init
    /\ rows = [r \in Row |-> 0]
    /\ tx = [t \in Transaction |-> NotBegun]
    /\ saw = rows

\* The SELECTs a method starts with, up to its last check: they see one snapshot.
TxReads(t) ==
    /\ ~Open(t)
    /\ tx' = [tx EXCEPT ![t] = [seen |-> rows, wrote |-> {}, fresh |-> TRUE]]
    /\ UNCHANGED << vars, rows, saw >>

\* Mutant: a transaction may write on a snapshot that is out of date.
LocksOnOldSnapshot(t) ==
    \/ lock = t /\ UNCHANGED vars
    \/ TxTakesLock(t)

\* What a write needs: the lock, which the first one takes.
Locks(t) ==
    \/ lock = t /\ UNCHANGED vars
    \/ tx[t].fresh /\ TxTakesLock(t)

\* An INSERT or UPDATE of a method that appends an event after its last write.
\* A method writes a row once: version = version + 1.
TxWrites(t, r) ==
    /\ Open(t) /\ head[t] = Unread
    /\ tx[t].wrote \subseteq Object \ {r} /\ tx[t].seen[r] < MaxWrites
    /\ Locks(t)
    /\ tx' = [tx EXCEPT ![t].wrote = @ \cup {r}]
    /\ UNCHANGED << rows, saw >>

\* appendAudit, first half: AuditLog has both.
TxLooksUpHead(t) ==
    /\ Open(t) /\ tx[t].wrote \subseteq Object
    /\ TxReadsHead(t)
    /\ UNCHANGED << rows, tx, saw >>

\* ClaimRecoveryJob's UPDATE of the job it has found.
TxClaims(t, j) ==
    /\ Open(t) /\ tx[t].wrote = {}
    /\ tx[t].seen[j] \in 1..(MaxWrites - 1)
    /\ Locks(t)
    /\ tx' = [tx EXCEPT ![t].wrote = {j}]
    /\ UNCHANGED << rows, saw >>

\* WithTx's commit: others see what the transaction has written.
Publish(t) ==
    /\ rows' = [r \in Row |-> IF r \in tx[t].wrote THEN tx[t].seen[r] + 1 ELSE rows[r]]
    /\ saw' = tx[t].seen
    /\ tx' = [Outdated EXCEPT ![t] = NotBegun]

TxCommits(t) == TxInsertsAndCommits(t) /\ Publish(t)

ClaimCommits(t) ==
    /\ Open(t) /\ tx[t].wrote \subseteq Job
    /\ TxCommitsWithoutEvent(t)
    /\ Publish(t)

\* WithTx's deferred Rollback, after any error: a failed check, a write that was
\* refused after others were made, a lock that was not released in time, a
\* snapshot out of date, a cancelled request, a crash.  Or the commit of a method
\* that found nothing to do.
TxFails(t) ==
    /\ Open(t)
    /\ IF lock = t THEN TxRollsBack(t) ELSE UNCHANGED vars
    /\ tx' = [tx EXCEPT ![t] = NotBegun]
    /\ UNCHANGED << rows, saw >>

\* A rejected request, outside any transaction: AuditLog has its steps.
RejectPrepares(q) ==
    /\ RejectReadsHead(q) \/ RejectGivesUp(q)
    /\ UNCHANGED << rows, tx, saw >>

RejectAppends(q) ==
    /\ RejectInserts(q)
    /\ tx' = Outdated
    /\ UNCHANGED << rows, saw >>

\* A single statement on the pool's connections: it waits for the lock, sees the
\* newest state and commits by itself.
StatementWrites(r) ==
    /\ lock = "free"
    /\ rows[r] < MaxWrites
    /\ rows' = [rows EXCEPT ![r] = @ + 1]
    /\ saw' = rows
    /\ tx' = Outdated
    /\ UNCHANGED vars

\* CreateCell, CreateWindow, CreateMaintenanceOrder, CreateRecoveryJob.
Inserts(r) == rows[r] = 0 /\ StatementWrites(r)

\* CompleteRecoveryJob, FailRecoveryJob, CancelRecoveryJob.
UpdatesJob(j) == rows[j] > 0 /\ StatementWrites(j)

\* A statement on a table that no transaction reads (a session is touched, ...).
WritesElsewhere ==
    /\ lock = "free"
    /\ tx' = Outdated
    /\ UNCHANGED << vars, rows, saw >>

StoreNext ==
    \/ \E t \in Transaction :
         \/ TxReads(t) \/ TxLooksUpHead(t) \/ TxCommits(t)
         \/ ClaimCommits(t) \/ TxFails(t)
         \/ \E r \in Object : TxWrites(t, r)
         \/ \E j \in Job : TxClaims(t, j)
    \/ \E q \in Rejecter : RejectPrepares(q) \/ RejectAppends(q)
    \/ \E r \in Row : Inserts(r)
    \/ \E j \in Job : UpdatesJob(j)
    \/ WritesElsewhere

StoreSpec == StoreInit /\ [][StoreNext]_storeVars

-----------------------------------------------------------------------------
StoreTypeOK ==
    /\ TypeOK
    /\ rows \in Rows
    /\ tx \in [Transaction -> Tx \cup {NotBegun}]
    /\ saw \in Rows

\* Who holds the write lock works on the newest state, whoever has committed
\* since it began to read: SQLite refuses the upgrade of an old snapshot, and
\* statements outside a transaction wait for the lock.
WriterIsUpToDate ==
    \A t \in Transaction : lock = t => Open(t) /\ tx[t].seen = rows

Atomic == INSTANCE AtomicStore

\* A store method is one step: its checks were made on the very state it
\* changes, no update is lost, its writes are seen together or, if one of them
\* fails, not at all, and an object that exists is changed only with an event.
\* The deferred BEGIN alone would give none of this.
MethodsAreAtomic == Atomic!Spec

=============================================================================
