------------------------------- MODULE Server -------------------------------
(***************************************************************************)
(* A server process from its start to its end, cmd/server/main.go: the     *)
(* migrations of Store.Open, the bootstrap of the users, the worker's and  *)
(* the listener's goroutines, a signal, and the shutdown that waits for    *)
(* requests and for the worker before it closes the database.              *)
(*                                                                         *)
(* Several processes may be started on one database, and each may be       *)
(* killed at any point.  Every statement or transaction of a start is a    *)
(* step.  What requests and jobs do in the store is other modules' matter: *)
(* here it counts only that they may call it.                              *)
(***************************************************************************)
EXTENDS Naturals

CONSTANTS
    Process,
    Request,           \* requests a process can be serving at one time
    Migrations,        \* how many migrations there are
    Users              \* how many users the bootstrap makes sure of

ASSUME ServerAssumption == Migrations \in Nat /\ Users \in Nat

VARIABLES
    runs,              \* how often each migration's script was committed
    applied,           \* schema_migrations
    users,             \* the bootstrap's users that are in the table
    processes

vars == << runs, applied, users, processes >>

-----------------------------------------------------------------------------
Migration == 1..Migrations
User == 1..Users

Down == [stage |-> "down"]

Stage == { "migrating", "applying", "bootstrapping", "creating", "serving",
           "shutdown", "waiting", "closed" }

\* step: the migration or the user it is about; cancelled: rootCtx is done;
\* worker: "spawned" until Run has called wg.Add; late: Shutdown timed out.
Up == [stage : Stage, step : Nat, cancelled : BOOLEAN,
       worker : { "none", "spawned", "idle", "draining", "done" },
       http : { "none", "spawned", "listening", "closed" },
       active : SUBSET Request, late : BOOLEAN]

Started == [stage |-> "migrating", step |-> 1, cancelled |-> FALSE,
            worker |-> "none", http |-> "none", active |-> {}, late |-> FALSE]

Becomes(p, process) == processes' = [processes EXCEPT ![p] = process]

Running(p, stage) == processes[p].stage = stage

DatabaseUnchanged == UNCHANGED << runs, applied, users >>

Init ==
    /\ runs = [m \in Migration |-> 0]
    /\ applied = {}
    /\ users = {}
    /\ processes = [p \in Process |-> Down]

Start(p) == Running(p, "down") /\ Becomes(p, Started) /\ DatabaseUnchanged

\* os.Exit, a panic or a kill: from any stage, nothing deferred is run.
Die(p) == processes[p] # Down /\ Becomes(p, Down) /\ DatabaseUnchanged

-----------------------------------------------------------------------------
\* Migrate: is the next migration recorded?
LookAtMigration(p) ==
    /\ Running(p, "migrating")
    /\ LET process == processes[p]
       IN  IF process.step > Migrations
           THEN Becomes(p, [process EXCEPT !.stage = "bootstrapping", !.step = 1])
           ELSE IF process.step \in applied
           THEN Becomes(p, [process EXCEPT !.step = @ + 1])
           ELSE Becomes(p, [process EXCEPT !.stage = "applying"])
    /\ DatabaseUnchanged

\* Mutant: the script and its record are two transactions.
ApplyThenRecord(p) ==
    /\ Running(p, "applying")
    /\ LET process == processes[p]
           m == process.step
       IN  \/ /\ runs' = [runs EXCEPT ![m] = @ + 1]
              /\ UNCHANGED << applied, processes >>
           \/ /\ runs[m] > 0
              /\ applied' = applied \cup {m}
              /\ Becomes(p, [process EXCEPT !.stage = "migrating", !.step = @ + 1])
              /\ UNCHANGED runs
    /\ UNCHANGED users

\* Migrate: script and record in one transaction.  If another process was
\* faster, the tables are there and the script fails: AbortStart.
ApplyMigration(p) ==
    /\ Running(p, "applying")
    /\ LET process == processes[p]
           m == process.step
       IN  /\ m \notin applied
           /\ runs' = [runs EXCEPT ![m] = @ + 1]
           /\ applied' = applied \cup {m}
           /\ Becomes(p, [process EXCEPT !.stage = "migrating", !.step = @ + 1])
    /\ UNCHANGED users

\* What main does once the database is ready.
Serving(process) == [process EXCEPT !.stage = "serving", !.worker = "spawned",
                                    !.http = "spawned"]

\* Mutant: a bootstrap that finds a user takes all of them to be there.
LookAtFirstUser(p) ==
    /\ Running(p, "bootstrapping")
    /\ LET process == processes[p]
       IN  IF process.step > Users \/ process.step \in users
           THEN Becomes(p, Serving(process))
           ELSE Becomes(p, [process EXCEPT !.stage = "creating"])
    /\ DatabaseUnchanged

\* bootstrap: is the next user in the table?
LookAtUser(p) ==
    /\ Running(p, "bootstrapping")
    /\ LET process == processes[p]
       IN  IF process.step > Users THEN Becomes(p, Serving(process))
           ELSE IF process.step \in users
           THEN Becomes(p, [process EXCEPT !.step = @ + 1])
           ELSE Becomes(p, [process EXCEPT !.stage = "creating"])
    /\ DatabaseUnchanged

\* CreateUser; a name that was taken meanwhile is an error: AbortStart.
CreateUser(p) ==
    /\ Running(p, "creating")
    /\ processes[p].step \notin users
    /\ users' = users \cup { processes[p].step }
    /\ Becomes(p, [processes[p] EXCEPT !.stage = "bootstrapping", !.step = @ + 1])
    /\ UNCHANGED << runs, applied >>

-----------------------------------------------------------------------------
\* The goroutines of a serving process may be run at any time until it ends.

\* Run: wg.Add(1), by the goroutine itself.
WorkerRuns(p) ==
    /\ processes[p] # Down /\ processes[p].worker = "spawned"
    /\ Becomes(p, [processes[p] EXCEPT !.worker = "idle"])
    /\ DatabaseUnchanged

\* Mutant: drainOne does not look at the context first.
WorkerDrainsAnyway(p) ==
    /\ processes[p] # Down /\ processes[p].worker = "idle"
    /\ Becomes(p, [processes[p] EXCEPT !.worker = "draining"])
    /\ DatabaseUnchanged

\* drainOne: from here the worker may call the store.
WorkerDrains(p) ==
    /\ processes[p] # Down /\ processes[p].worker = "idle"
    /\ ~processes[p].cancelled
    /\ Becomes(p, [processes[p] EXCEPT !.worker = "draining"])
    /\ DatabaseUnchanged

WorkerFinishes(p) ==
    /\ processes[p] # Down /\ processes[p].worker = "draining"
    /\ Becomes(p, [processes[p] EXCEPT !.worker = "idle"])
    /\ DatabaseUnchanged

\* Mutant: Run waits for its ticker only.
WorkerNeverStops(p) == FALSE /\ UNCHANGED vars

\* Run: ctx.Done, and the deferred wg.Done.
WorkerStops(p) ==
    /\ processes[p] # Down /\ processes[p].worker = "idle"
    /\ processes[p].cancelled
    /\ Becomes(p, [processes[p] EXCEPT !.worker = "done"])
    /\ DatabaseUnchanged

\* ListenAndServe, if the server was not shut down before.
Listen(p) ==
    /\ processes[p] # Down /\ processes[p].http = "spawned"
    /\ Becomes(p, [processes[p] EXCEPT !.http = "listening"])
    /\ DatabaseUnchanged

\* It returns an error, the address being taken for one, and stops the process.
ListenFails(p) ==
    /\ processes[p] # Down /\ processes[p].http \in { "spawned", "listening" }
    /\ Becomes(p, [processes[p] EXCEPT !.http = "closed", !.cancelled = TRUE])
    /\ DatabaseUnchanged

RequestArrives(p, q) ==
    /\ processes[p] # Down /\ processes[p].http = "listening"
    /\ Becomes(p, [processes[p] EXCEPT !.active = @ \cup {q}])
    /\ DatabaseUnchanged

RequestEnds(p, q) ==
    /\ processes[p] # Down /\ q \in processes[p].active
    /\ Becomes(p, [processes[p] EXCEPT !.active = @ \ {q}])
    /\ DatabaseUnchanged

-----------------------------------------------------------------------------
\* SIGINT or SIGTERM; a start it interrupts goes on to its next call of the
\* database at the latest, which fails: AbortStart.
Signal(p) ==
    /\ processes[p] # Down
    /\ Becomes(p, [processes[p] EXCEPT !.cancelled = TRUE])
    /\ DatabaseUnchanged

\* main: <-rootCtx.Done(), and Shutdown closes the listener.
BeginShutdown(p) ==
    /\ Running(p, "serving")
    /\ processes[p].cancelled
    /\ Becomes(p, [processes[p] EXCEPT !.stage = "shutdown", !.http = "closed"])
    /\ DatabaseUnchanged

\* Mutant: Close instead of Shutdown: nobody waits for the requests.
EndShutdownAtOnce(p) ==
    /\ Running(p, "shutdown")
    /\ Becomes(p, [processes[p] EXCEPT !.stage = "waiting"])
    /\ DatabaseUnchanged

\* Shutdown returns when the last request has, or after ShutdownTimeout.
EndShutdown(p) ==
    /\ Running(p, "shutdown")
    /\ \E late \in BOOLEAN :
           /\ ~late => processes[p].active = {}
           /\ Becomes(p, [processes[p] EXCEPT !.stage = "waiting", !.late = late])
    /\ DatabaseUnchanged

\* Worker.Wait returns, also if Run has not been scheduled yet, and the deferred
\* database.Close runs.
CloseDatabase(p) ==
    /\ Running(p, "waiting")
    /\ processes[p].worker \in { "spawned", "done" }
    /\ Becomes(p, [processes[p] EXCEPT !.stage = "closed"])
    /\ DatabaseUnchanged

\* main returns; every goroutine ends with it.
Exit(p) == Running(p, "closed") /\ Becomes(p, Down) /\ DatabaseUnchanged

\* A start that was interrupted, or outrun by another process, ends.
AbortStart(p) ==
    /\ \/ /\ processes[p].stage \in { "migrating", "applying", "bootstrapping", "creating" }
          /\ processes[p].cancelled
       \/ Running(p, "applying") /\ processes[p].step \in applied
       \/ Running(p, "creating") /\ processes[p].step \in users
    /\ Becomes(p, Down)
    /\ DatabaseUnchanged

Main(p) ==
    \/ LookAtMigration(p) \/ ApplyMigration(p) \/ LookAtUser(p) \/ CreateUser(p)
    \/ AbortStart(p)
    \/ BeginShutdown(p) \/ EndShutdown(p) \/ CloseDatabase(p) \/ Exit(p)

Run(p) == WorkerRuns(p) \/ WorkerDrains(p) \/ WorkerFinishes(p) \/ WorkerStops(p)

Next ==
    \E p \in Process :
        \/ Start(p) \/ Main(p) \/ Run(p)
        \/ Listen(p) \/ ListenFails(p) \/ Signal(p) \/ Die(p)
        \/ \E q \in Request : RequestArrives(p, q) \/ RequestEnds(p, q)

Spec == Init /\ [][Next]_vars

\* main goes on: its waits are for a timeout or for the worker.  So does the
\* worker once it is told to stop: its calls of the store and its handler end
\* with the context, drainOne turns back, and Run's select is left with ctx.Done
\* and a ticker that changes nothing.
FairSpec ==
    /\ Spec
    /\ \A p \in Process :
         /\ WF_vars(Main(p)) /\ WF_vars(WorkerFinishes(p)) /\ WF_vars(WorkerStops(p))

-----------------------------------------------------------------------------
TypeOK ==
    /\ runs \in [Migration -> Nat]
    /\ applied \subseteq Migration
    /\ users \subseteq User
    /\ processes \in [Process -> Up \cup {Down}]

\* However many processes start on a new database at one time, and wherever they
\* are killed, a migration's script is committed exactly if it is recorded, and
\* once; and the migrations are committed in their order.
MigrationsRunOnce ==
    \A m \in Migration :
        /\ runs[m] = IF m \in applied THEN 1 ELSE 0
        /\ m \in applied => 1..m \subseteq applied

Ready == applied = Migration /\ users = User

\* A process that serves finds the whole schema and all the users, whoever wrote
\* them: a start that was killed half-way is completed by the next one.
ServingIsReady ==
    \A p \in Process :
        processes[p].stage \in { "serving", "shutdown", "waiting", "closed" } => Ready

\* The worker never calls a closed database.  Wait may return before Run has
\* added itself to the wait group, but then the context is done and drainOne
\* turns back at once.
WorkerLeavesBeforeClose ==
    \A p \in Process : Running(p, "closed") => processes[p].worker # "draining"

\* A request meets a closed database only if it outlasted the shutdown timeout.
RequestsLeaveBeforeClose ==
    \A p \in Process : Running(p, "closed") =>
        processes[p].active = {} \/ processes[p].late

\* A process that is told to stop ends: nobody waits for ever for a request, for
\* the worker or for its own start.
StopIsFinal ==
    \A p \in Process :
        processes[p] # Down /\ processes[p].cancelled ~> processes[p] = Down

=============================================================================
