# Verification of the robot cell control service

TLA+ models of the service under `src/`, the TLC runs that check them and the
TLAPS proofs about them. The service is a Go program over one SQLite file: an
HTTP interface, four services, a store whose methods are transactions or single
statements, and a worker that retries failed calibrations.

## 1. Inventory

| Part (code) | State | Operations | What is hard, what must hold |
|---|---|---|---|
| Cell lifecycle (`lifecycle`, `store/lifecycle.go`, `service/lifecycle.go`) | `robot_cells`, `cell_transitions`, `inspections` | create, transition, record inspection, retire, compensate | five writers of one row, some with a version, some without: no phase skipped, no conclusion lost, retirement final |
| Downtime windows (`schedule`, `store/schedule.go`, trigger in `migrations.go`) | `work_windows`, `resource_reservations` | request, approve and reserve, cancel | stale clients, four writes that belong together, order of instants kept as text: no double booking |
| Maintenance (`maintenance`, `store/maintenance.go`) | `maintenance_orders`, `spare_parts`, `part_movements`, the cell's status | open, advance | orders compete for pieces and for a cell: stock, ledger and cell agree |
| Audit (`audit`, `store/audit.go`, `service/access.go`) | `audit_events` | append inside and outside a transaction | the head is read before the row is inserted: the events of committed changes are chained |
| Recovery (`recovery`, `store/recovery.go`, `worker`) | `recovery_jobs`, each worker's position | create, claim, complete, fail, cancel | crash between two steps, late answers, retries, several processes: nothing settled twice, everything settled in the end |
| Calibration recovery (`service/lifecycle.go`, handler in `main.go`) | a request's reading of its cell, the job's payload | report, compensate | the cell moves between the reading, the insert, and each attempt: an old report ends no other calibration than its claims allow |
| Sessions (`auth`, `store/identity.go`, `httpapi/middleware.go`) | `sessions`, `users` | login, resolve and touch, revoke, purge | a session that ends while it is used, a purge by order of texts |
| Store transactions (`store/store.go`) | connections, snapshots, write lock | begin, commit, roll back | deferred begin: reads on a snapshot, an upgrade that may fail, several writes with a failure between them: a method acts as one step |
| Start and stop (`cmd/server/main.go`, `migrations.go`) | `schema_migrations`, users, process, worker goroutine, requests | migrate, bootstrap, serve, signal, shut down, wait, close | starts that race or die half-way; who waits for whom, what may still call a closed database |
| HTTP, configuration, error kinds, catalogue, batches, clock | little or none of their own | | decoding, reading the environment, inserts made once |

Services call the store, whose methods work on the shared tables; the worker
calls the store and, through its handler, `CompensateCalibration`.
`AdvanceMaintenance` writes the table of the lifecycle, and `RetireCell` reads
the tables of orders and windows. Of the methods that write,

- seven change an object in a transaction (`WithTx`) and append an event to the
  audit log before they commit: `TransitionCell`, `RecordInspection`,
  `RetireCell`, `CompensateCalibration`, `ApproveAndReserveWindow`,
  `CancelWindow` and `AdvanceMaintenance`;
- `ClaimRecoveryJob` is a transaction too, and appends no event;
- all others are single statements that commit by themselves, without an event:
  the creations (cells, windows, orders, jobs, the catalogue, users, sessions),
  what ends a claim or cancels a job, and the updates of sessions.

A rejected request appends an event outside of any transaction.

`PROJECT.json` lists the components with their status and the hazards at their
lines.

## 2. Modules

| Module | Models | State | Actions |
|---|---|---|---|
| `Identity` | roles | | |
| `TimeText` | instants and the order of their stored texts | | |
| `CellStates`, `CellTable` | statuses, moves, `robot_cells` and the gate `CanTransition` | `cells` | |
| `CellLifecycle` | all writers of `robot_cells` | `cells`, `history`, `inspections`, `busy` | one per store method, the two writes of `AdvanceMaintenance`, the outside writer of `calibration_ref` |
| `WorkWindows` | windows and reservations | `now`, `windows`, `reservations` | `Request`, `Approve`, `Cancel`, `ClockAdvances` |
| `MaintenanceOrders` | orders, parts, ledger | `orders`, `parts`, `movements`, `cellStatus` | `Open`, `Advance`, `CellMoves` |
| `RobotCellSystem` | the three above on shared tables; extends `WorkWindows` | theirs without `busy` and `cellStatus`, and `late` | theirs, joined |
| `AuditLog` | the chain under concurrent writers | `log`, `head`, `lock` | take the lock, read head, insert and commit, commit without an event, roll back; for rejections read, insert, give up |
| `StoreTx` | SQLite's transactions under the store's methods; extends `AuditLog` | with `rows`, `tx`, `saw` | audited methods: read on a snapshot, write row by row, look up the head, commit; a claim: read, update, commit; fail anywhere; single statements; rejections |
| `AtomicStore` | abstract: a store method is one step | `rows`, `log`, `saw` | `Change` (with an event), `Insert`, `MoveJob`, `Reject` |
| `RecoveryQueue` | the job table and its workers | `jobs`, `workers`, `handled`, `faults` | create, cancel, claim, handler returns, complete, fail, abandon, tick |
| `RecoveryPromise` | abstract: a job is open, then settled once | `outcome`, `handled` | `Open`, `Handle`, `Settle` |
| `CalibrationRecovery` | the report, `RecoveryQueue` and the compensation | the queue's, `cellStatus`, `calibration`, `reports`, `payload`, `undone` | the report's read and insert, the queue's steps with the handler's effect, the users' moves |
| `Sessions` | sessions and the requests on them | `now`, `sessions`, `requests`, `overtaken` | login, each step of a request, logout, purge, clock |
| `Server` | processes from start to end | `runs`, `applied`, `users`, `processes` | each statement of a start, the worker, requests, signal, each step of a stop, kill |
| `MC*` | instances for TLC | | |
| `*Proofs` | theorems and proofs | | |

How the code becomes actions:

- A store method runs in one SQLite transaction (`WithTx`) or is one statement.
  It is one action; every check in it is a conjunct of the guard, because a
  failing check rolls everything back. What a request does before it (roles,
  validation) is in the same guard. That this is a fair picture of a deferred
  transaction is itself shown: `StoreTx` takes the methods apart into their
  reads, each write, the look at the head of the log and the commit, with a
  failure anywhere between, and implements `AtomicStore` (`MethodsAreAtomic`). A
  row of `StoreTx` is a row of any table, kept as the number of its writes, and
  its writes are seen by others with the commit only.
- Where the code makes several calls of the store for one purpose, each call is
  an action: the worker, `ReportCalibrationFailure`, the middleware
  `Authenticate`, the start of a process.
- A client's version is a value it may have read at any time (`expected`), so
  stale clients are all there. `RobotCellSystem` takes the row's own version,
  the only one that is accepted.
- A request that is refused changes none of these tables and is not a step.
- Rows are records; a missing row is a value of its own (`NoCell`, `NoJob`, ...).
- In `CellLifecycle` rows of evidence keep the version their transaction wrote
  instead of a time. What a retirement looks for in other tables is the set
  `busy`, which changes at will. In `MaintenanceOrders` the cell is its status,
  which the lifecycle may move along its table. `RobotCellSystem` instantiates
  both with the tables: `busy` is what `RetireCell` counts, `cellStatus` is the
  column of `cells`; and it shows that its steps are steps of either module
  (`CellsFollowTheirModel`, `OrdersFollowTheirModel`), so neither summary leaves
  anything out. Nobody but `WorkWindows` writes the windows, so that module is
  extended, its clock included.
- In `RecoveryQueue` instants are kept as what is left of them. A due job is at
  0; the worker's `ORDER BY next_attempt_at` is then a choice among due jobs.
- `CalibrationRecovery` keeps of a cell's version the number of its calibration:
  the payload's version tells which calibration had failed, and nothing else is
  asked of it. It instantiates `RecoveryQueue` and adds what the handler does.
- In `Sessions` a request's clock reading, lookup, touch and service are steps.
  A request that was past its lookup when its session ended is in `overtaken`.
- In `Server` a process that is killed starts again from nothing, on the tables
  it left. The worker is draining, waiting or gone; requests are counted only.

## 3. What TLC checks

| Run | Instance | Result |
|---|---|---|
| `windows` | two windows, two workstations, three tools (one disabled, one due early), two persons (one loses the qualification), five instants, one on a half second | pass |
| `windows_fractions` | the same | `NoDoubleBooking` violated |
| `lifecycle` | one cell, 14 versions, one late compensation job, `calibration_ref` filled from outside | pass |
| `lifecycle_no_reference` | the same, nobody fills `calibration_ref` | pass (what it shows is a defect) |
| `orders` | two orders, one cell, one part with three pieces, quantities to 2, a qualified and an unqualified assignee | pass |
| `orders_rework` | the same | `ReworkIsPossible` violated |
| `system` | one cell from its first day of production (version 10 of 14), two orders that compete for one piece, one window, three instants | pass |
| `store` | two transactions, one rejection, two objects and one job, three writes of each, three events | pass |
| `recovery` | two jobs, three workers of which two share a name, two attempts, leases of two ticks, two lost claims, with fairness | pass |
| `calibration` | one cell, two reports of it, one reporting request, two workers, two attempts, two calibrations, one lost claim, with fairness | pass |
| `sessions` | one session, three requests, a lifetime and a retention of one second, instants on whole and half seconds | pass |
| `server` | two processes, two migrations, two users, one request, with fairness | pass |

What the passing runs show:

- `windows`: a window holds its three resources exactly while it is reserved,
  whole-second bookings exclude each other, and other double bookings are
  shorter than a second.
- `lifecycle`: a cell is in production only after every phase and with both
  conclusions and a calibration; conclusions agree with the evidence whoever
  inspects, and evidence is given in a review only (`EvidenceIsFromReviews`); the
  inspections that count when a cell enters production are the last of either
  kind (`AdmittedByLatestEvidence`); the history is a path and retirement is final.
- `lifecycle_no_reference`: with the repository's own operations no cell is ever
  put into production (`ProductionIsUnreachable`). All other runs about
  cells therefore assume that somebody fills `calibration_ref` from outside, as the
  repository's tests do (`CalibrationWriter`).
- `orders`: stock and ledger agree, verified orders can be closed, and a piece
  that is reserved exists and belongs to an order in work or was left behind by
  one that was cancelled in work (`ReservationsAreAccounted`).
- `system`: the components' summaries of each other are right; a retirement
  leaves behind no order and no reservation but those that were made afterwards
  (`RetirementStrandsNothing`); where `cell_transitions` does not explain a
  cell's status, the orders do (`EveryMoveIsExplained`).
- `store`: a method is one step, decided on the newest state in spite of the
  deferred `BEGIN`, and its writes are seen together or not at all
  (`MethodsAreAtomic`). This is what the other modules rest on when they take the
  three reservations of an approval, the writes of an order's advance, or the
  SELECT and UPDATE of a claim for one action. Events of committed changes are
  chained (`CommittedEventsAreChained`), and forks are no wider than the
  rejections in flight (`ForksAreBounded`).
- `recovery`: the queue implements `RecoveryPromise` (`KeepsThePromise`): a job
  is settled once and for ever, whatever names the processes use, and it
  succeeds only if it was handled. Retries are limited by `max_attempts` and the
  claims that were lost, and only a name of its own keeps a late worker from
  ending another one's claim (`EndedByItsClaimant`). Every job is settled in the
  end.
- `calibration`: a report ends one calibration, and at most one more for each
  lost claim; a success means that the reported calibration is over; a settled
  report undoes nothing more; every report is answered in the end.
- `sessions`: a session that has ended admits nobody, a row was last seen while
  it was usable, revocation is final, and a purge takes a session at most a
  second early.
- `server`: migrations run once and in order, who serves finds schema and users
  complete, the database is not closed under the worker, nor under a request
  that keeps the shutdown timeout, and a process that is told to stop ends.

Why the bounds are enough:

- Windows interact in pairs, through a resource; two of them over five instants
  show every order of bounds, touching, containing and inside one second.
- Operations on a cell look at one cell. The shortest life ends at version 11,
  and three more writes allow a way back and the way on.
- Two orders of two pieces exceed a stock of three; one of two and one of one
  does not. `MaxOrderVersion` 8 lets an order without a part be reworked once.
- In `system` a cell before production is touched by no order's write, and its
  retirement is that of `lifecycle`; so the run begins where the components
  meet. Four more versions allow an order's two writes and a transition between
  and after them. `MaxOrderVersion` 6 is an order's whole life. Three instants
  let a window be requested, and then its start pass before it is approved or
  cancelled.
- `store`: two transactions can read one state and both try to write on it, and
  single statements and a rejection commit between them. Two objects make a
  method of several writes, and tell a conflict from two transactions that merely
  overlap; three writes of a row are its insert, a change, and one that is
  based on a state before it. One rejection at a time forks the chain against a
  transaction, and three events are one more than may then link to one event; what
  several rejections in flight can do is bounded by proof (`ForksAreFew`).
- Three workers, two of one name, with a lease of two ticks and two lost claims
  allow a worker that is late by two claims, of a namesake or of another.
  `MaxFaults` bounds lost claims; without it retries have no bound.
- Two calibrations are the one that was reported and the one that a late attempt
  would meet; `MaxCalibrations` bounds how often users start one.
- Three requests give a touch that is overtaken by a logout and another touch;
  ids of sessions are never reused, so one session is enough.
- Two processes race for each migration and each user; each may be killed in
  between and start again. There are two migrations in the code. The bootstrap's
  users are two of six, which are inserted alike.
- `store` and `system` use symmetry (of transactions and objects; of orders). The
  properties are safety properties that name no single element, and no liveness
  is checked there. `CHECK_DEADLOCK` is off because the bounds
  stop the instances, and because a system in which nobody asks for anything may
  rest.

Fairness:

- `recovery` and `calibration`: weak fairness of `Tick` (time passes) and of each
  worker's step. The code's ticker calls `drainOne` again and again, a handler
  has a deadline of one lease, and a stopped process is assumed to be started
  again. Nobody is assumed to make requests. `faults` is bounded, so the runs
  say: if only finitely many claims are lost, every job settles. That is all
  that can be said, since a worker that dies in every attempt is claimed again
  for ever, beyond `max_attempts`.
- `server`: weak fairness of `main`'s own steps, and of the worker once its
  context is cancelled. `main` waits for a timeout or for the worker, and the
  worker's calls end with the context. No request is assumed to end; the
  shutdown timeout takes care of those.

Disagreements of the code with its own documentation or tests are the runs with
a violation and `lifecycle_no_reference`; `PROJECT.json` quotes both sides under
`findings`. In short: `calibration_ref` is never filled, so no cell can reach
production; instants are compared as texts, so windows can overlap inside one
second; and an order with a part cannot be reworked. One more needs no run, since
it is the code of single statements: `src/README.md:14` says that the audit chain
records the actions on objects, but the successful creation of a cell, a window
or an order appends no event (`Inserts` of `StoreTx`, `Insert` of `AtomicStore`),
and neither does any step of a recovery job. What holds, and what
`MethodsAreAtomic` says, is that an object that exists is changed only with an
event.

Other behaviour of the code that a reader may not expect, which the models
contain and whose extent a property bounds, where there is one:

- Two rejections that overlap fork the hash chain, since a rejection's event is
  read and inserted outside a transaction (`store/audit.go:39`; `ForksAreBounded`).
- An order that is cancelled in execution keeps its reserved pieces
  (`store/maintenance.go:118`; `ReservationsAreAccounted`).
- An order without a part closes without returning its cell to production
  (`store/maintenance.go:102`), and the first of two orders that closes returns
  it while the other may be executing (`EveryMoveIsExplained` allows both).
- The conclusions of a review survive the next calibration
  (`store/lifecycle.go:128`), so a second review may pass on old evidence, though
  not against newer evidence of the same kind (`AdmittedByLatestEvidence`).
- Orders can be opened and windows approved for a cell that is retired.
  `RetirementStrandsNothing` counts them as `late` and promises them nothing; that
  they do not touch the retired cell is `RetiredIsFinal`, which the system
  inherits (`CellsFollowTheirModel`).
- A late or second attempt of a report ends a later calibration of the same cell
  (`store/lifecycle.go:253`; `OneUndoPerReport`).
- Processes that share the name `server-worker` may end each other's claims
  (`EndedByItsClaimant` promises nothing to namesakes).

The runs leave out what is proved for all constants and says least: the type
invariants, `WriterIsUpToDate` (the invariant behind
`MethodsAreAtomic`), and `SettledIsFinal` and `SuccessWasHandled`, which
`KeepsThePromise` implies.

Each property of a passing run has a mutant: an operator marked `Mutant:` in the
module, defined before what it replaces, that changes the code's behaviour as a
plausible error would and that makes TLC report the property.

## 4. What is proved

TLAPS checks the following for all values of the constants that satisfy the
named assumptions (any windows, cells, jobs, workers, transactions, limits).

- `CellLifecycleProofs` (from `LifecycleAssumption`, `MaxVersionAssumption`).
  First a lemma, `OneCellStep`, says in which of six ways a step touches a cell
  (untouched, created, moved with a row, inspected, moved by maintenance, given
  its `calibration_ref`); then one lemma per conjunct. `CommissionedPassedEveryPhase` is not inductive: the
  proof strengthens it to `PassedPhases`, the phases behind every status.
  `NoEvidenceBeforeCreation` says that a cell starts without rows.
  `EvidenceIsFromReviews` rests on two others: the last row before an inspection
  is the one into the review because the rows are a path (`HistoryIsAPath`), and
  later rows carry later versions (`OneWritePerVersion`).
  `AdmittedByLatestEvidence` is inductive beside them: who passes the gate has
  both conclusions, which are those of the last inspections
  (`FlagsMatchEvidence`), and the row of the move carries a later version.
  `ProductionIsUnreachable` follows from `CommissionedIsAccepted` and
  `NeverCalibrated`, which every writer but the outside one keeps. `VersionsFromOne`
  is there for others: who sends the row's version sends one that the operations
  accept.
- `StoreTxProofs` (from `AuditAssumption` and `StoreAssumption`), first about `AuditLog`. The chain of
  committed events is inductive together with `ReadersHoldTheLock`: a
  transaction that has read the head holds the lock and the log has not grown
  since. `ForksAreFew` adds `RejectionsMoveOn`: a rejected request links each of
  its events to a later head than the one before, so an event has at most one
  successor by committed changes and one by each rejected request; an injection
  of the latter into the rejected requests then gives the number. `StoreIsAnAuditLog` says that a step of
  `StoreTx` is a step of `AuditLog` or leaves its variables alone, which brings
  these results in. The inductive invariant `SInv` adds that heads are positions
  of the log (`HeadsAreOfTheLog`), that a snapshot marked fresh is the newest
  state (`FreshIsNewest`), `WriterIsUpToDate`: who holds the lock has such a
  snapshot, and `WritersHaveWritten`: it has written objects, or one job that
  exists and then has no event in hand. From these the commit of an audited
  method is a `Change` of `AtomicStore` decided on the rows as they are, the
  commit of a claim a `MoveJob`, a single statement an `Insert` or a `MoveJob`, an
  insert of a rejection a `Reject`, and every other step is a stutter:
  `StoreImplementsAtomicStore`.
- `RecoveryQueueProofs` (from `RecoveryAssumption`). `SettledIsDue` keeps time
  from touching settled rows, `SuccessLeavesAMark` ties a worker's success to
  the handler's. `EndsBelongToTheClaimant` needs the further invariant
  `OwnersAreLatest`: a worker with a name of its own (`NamedAlone`) that still
  owns the row made its latest claim. `QueueKeepsThePromise` is the refinement:
  every step of the queue is `Open`, `Handle` or `Settle` of `RecoveryPromise` or
  a stutter, under the same invariant. Claims and retries are counted by a
  second invariant, `ClaimsInv`. Neither limit is inductive, because a worker
  that is late can do harm again when it answers under a shared name: it sends a
  job back that another has claimed. So the invariant names the late workers
  (`Late`, those whose claim is not the row's any more) and keeps a budget.
  Claims of a job carry different attempts (`ClaimsAreNumbered`), there are no
  more late workers than claims were lost (`LateForAFault`), and the attempts of
  a job, with one more for each late worker that may still send it back
  (`Stale`), stay within `MaxAttempts` and the lost claims (`WithinBudget`).
- `CalibrationRecoveryProofs` (from `CalibrationAssumption`). Every step is one
  of the queue or leaves it alone (`QueueStep`), so `ClaimsInv` holds here and is
  cited from an instance of `RecoveryQueueProofs`, not proved again. On top of it:
  the number in a payload is of a calibration that was (`PayloadsArePast`), who
  calibrates is counted (`CalibratingIsCounted`), and a worker about to answer
  with success has ended the calibration or found it ended (`SuccessIsTrue`).
  `ReportsAreSpentOnce` keeps a budget again (`UndosArePaid`): the calibrations a
  report has ended, the late workers that may still end one or revive its job
  (`Pending`), and the attempt to come, if any, are no more than one and the lost
  claims.
- `MaintenanceOrdersProofs` (from `MaintenanceAssumption`). The type is not
  inductive by itself: that a consumption leaves no negative stock needs
  `ReservedPiecesExist`, which a reservation keeps because it looks at both
  columns. The accounts need the ledger's side: a movement has the part and the
  quantity of its order and a kind that the order's status allows, and an order
  in work has its reservation (`MovementsFollowOrders`). Then for every part
  stock, ledger and orders agree (`Accounted`). Sums of quantities are stated as
  numbers of pieces (`Pieces`, `Promised`: one pair for each piece of a row), so
  that the library's theorems on finite sets apply and no induction is needed:
  a new movement or holder brings a set that is disjoint from the rest
  (`NewRow`, `NewPromises`). That a verified order can be closed is a corollary:
  its pieces are part of what is reserved.
- `SessionsProofs` (from `SessionAssumption`). `EndedSessionsAdmitNobody` is
  inductive with the type: a lookup admits to usable sessions only, and whoever
  was admitted is noted when the session ends. `SeenWhileUsable` needs
  `TimesAreInOrder`: a request's reading of the clock lies between the login
  and now, and before the expiry once the request is admitted. The two action
  properties follow from the type; the purge's from the two orders of instants.
- `ServerProofs` (from `ServerAssumption`). `StartsAreComplete` says what a start
  has behind it in each stage, which nobody takes back; `StopsAreOrderly` what
  an end has behind it: the signal, the listener, the requests, the worker.
  With `MigrationsRunOnce` and the type they are inductive, and the other three
  promises are instances of them.
- `RobotCellSystemProofs`, first about `WorkWindows` (from `CatalogAssumption`).
  Inductive invariant: the type, `ReservedHoldsItsResources` and `NoTextOverlap`.
  The last is what the trigger keeps; it needs the second, which says that an
  approval finds no active row of its own window and that a cancelled window
  leaves none. Both promises about time follow from it by arithmetic on instants.
  Then about the system (from `CellsAssumption` and `OrdersAssumption` too).
  `SystemInv` joins the invariants of the three components, cited from instances
  of their proofs, and is inductive because each step of the system is a step of
  each component or leaves its tables alone (`CellsFollow`, `OrderRowsFollow`,
  `WindowsFollow`). What that needs of the tables is in the invariant: the
  version a caller sends is one the component accepts, since orders count from 1
  and a window is written three times at most (`OrderVersions`,
  `WindowVersions`). The two promises between components are parts of it.
  `RetirementStrandsNothing` holds because `RetireCell` alone makes a cell
  retired and finds no dependents; that a request of a window brings no
  dependents back needs `ReservedHoldsItsResources`. `EveryMoveIsExplained`
  needs that a cell starts without history (`NoEvidenceBeforeCreation`) and that
  an order that was started shows it for ever: it is in work, closed, or
  cancelled at a version beyond 4. Since the system implements `CellLifecycle`
  and `WorkWindows` (`SystemImplementsCells`, `SystemImplementsWindows`), all
  that is proved of cells, of the stock and of windows by themselves is proved of
  the shared tables (`SystemCellsAreSafe`, `SystemRetirementIsFinal`,
  `SystemStockIsSafe`, `SystemBookingsAreSafe`), from an empty database on and
  not only from the first day of production, where the run starts.

Only model-checked: liveness, which is out of the prover's reach
(`EveryJobSettles`, `ReportsAreAnswered`, `StopIsFinal`), and the mutants. Every
other property of a passing run is a theorem.

## 5. What is left out

- Texts, codes, names, reasons and payloads, except where a property is about
  them; the error a refused request gets (error kinds).
- Instants have one digit of fraction: enough to tell the order of texts from
  the order of instants. Leases and delays of the queue are in whole seconds, so
  the effect of text order on claims (less than a second) is not modelled.
- The upper limit of 24 hours for a window; the horizon is three seconds.
- A maintenance qualification does not run out (`MaintenanceQualified`).
- The tables that are only inserted into (`workstations`, `tools`,
  `qualifications`, `spare_parts`' first stock, `production_batches`) are
  constants. No code changes a batch's status, so a batch never keeps a cell
  from retirement in `RobotCellSystem`; in `CellLifecycle` it is part of `busy`.
- Configuration is read once. The configured maximum of attempts is not used by
  the code; `MaxAttempts` is the job's own.
- SHA-256 is taken as injective. Passwords are checked and tokens drawn outside
  the model: a login succeeds or changes nothing, and an id is never drawn twice.
- HTTP routing and decoding keep no state; what a request may ask for is the set
  `Requestable` or the quantifiers of each `Next`.
- The pool's limit of connections, WAL checkpoints and backups, which are
  SQLite's and `database/sql`'s.
- No code moves a window to active, completed or expired, and none uses the
  table `idempotency_records`.

## 6. Plan

Done: all modules of section 2, their runs, and the proofs of section 4.

What is left is smaller:

1. Safety lemmas that the liveness properties rest on, such as that a job which
   is not settled is always due, delayed or held, so that only the fairness
   argument itself is left to TLC.
2. `RecoveryQueue` and `RobotCellSystem` on one table of cells: there the
   compensation is a move of the cell that may come at any time; joined to the
   queue it would come only from a claimed job.
