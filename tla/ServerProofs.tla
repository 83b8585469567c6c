---------------------------- MODULE ServerProofs ----------------------------
(***************************************************************************)
(* For any number of processes, migrations and users: migrations run once  *)
(* and in order, who serves finds the database complete, and the database  *)
(* is closed under nobody but a request that outlasted the shutdown.       *)
(***************************************************************************)
EXTENDS Server, TLAPS

\* What a start has behind it: the migrations, then the users, before its step.
\* Nothing is ever taken back, so it remains true whatever the others do.
StartIsComplete(process) ==
    /\ process.stage \in { "migrating", "applying" } =>
         /\ process.step \in 1..(Migrations + 1)
         /\ 1..(process.step - 1) \subseteq applied
         /\ process.stage = "applying" => process.step \in Migration
    /\ process.stage \in { "bootstrapping", "creating" } =>
         /\ applied = Migration
         /\ process.step \in 1..(Users + 1)
         /\ 1..(process.step - 1) \subseteq users
         /\ process.stage = "creating" => process.step \in User
    /\ process.stage \in { "serving", "shutdown", "waiting", "closed" } => Ready

\* What an end has behind it: the signal, the listener, the requests, the worker.
StopIsOrderly(process) ==
    /\ process.stage \in { "shutdown", "waiting", "closed" } =>
         process.cancelled /\ process.http = "closed"
    /\ process.stage \in { "waiting", "closed" } => process.active = {} \/ process.late
    /\ process.stage = "closed" => process.worker # "draining"

StartsAreComplete == \A p \in Process : StartIsComplete(processes[p])

StopsAreOrderly == \A p \in Process : StopIsOrderly(processes[p])

IInv == TypeOK /\ MigrationsRunOnce /\ StartsAreComplete /\ StopsAreOrderly

-----------------------------------------------------------------------------
\* A process in a stage other than down is up.
LEMMA RunningIsUp ==
    ASSUME TypeOK, NEW p \in Process, processes[p].stage # "down"
    PROVE  processes[p] # Down /\ processes[p] \in Up
    BY DEF TypeOK, Down

\* The fields of a process, one by one.
LEMMA UpParts ==
    ASSUME NEW process \in Up
    PROVE  /\ process.stage \in Stage /\ process.step \in Nat
           /\ process.cancelled \in BOOLEAN /\ process.late \in BOOLEAN
           /\ process.worker \in { "none", "spawned", "idle", "draining", "done" }
           /\ process.http \in { "none", "spawned", "listening", "closed" }
           /\ process.active \subseteq Request
    BY DEF Up

\* A step that changes one process only keeps all that is said of processes, if
\* it does for that one.
LEMMA OneProcess ==
    ASSUME TypeOK, NEW p \in Process, NEW process, Becomes(p, process)
    PROVE  /\ processes' = [q \in Process |-> IF q = p THEN process ELSE processes[q]]
           /\ processes'[p] = process
           /\ \A q \in Process \ {p} : processes'[q] = processes[q]
    BY DEF TypeOK, Becomes

\* A process that moves on by itself need only keep its own two promises.
LEMMA UnchangedDatabase ==
    ASSUME IInv, DatabaseUnchanged, NEW p \in Process, NEW process,
           Becomes(p, process),
           process \in Up \cup {Down}, StartIsComplete(process), StopIsOrderly(process)
    PROVE  IInv'
<1>1. /\ processes' = [q \in Process |-> IF q = p THEN process ELSE processes[q]]
      /\ processes'[p] = process
      /\ \A q \in Process \ {p} : processes'[q] = processes[q]
    BY OneProcess DEF IInv
<1>2. TypeOK'
    BY <1>1 DEF IInv, TypeOK, DatabaseUnchanged
<1>3. MigrationsRunOnce'
    BY DEF IInv, MigrationsRunOnce, DatabaseUnchanged
<1>4. StartsAreComplete'
    <2> SUFFICES ASSUME NEW q \in Process
                 PROVE  StartIsComplete(processes[q])'
        BY DEF StartsAreComplete
    <2>1. StartIsComplete(processes'[q])
        BY <1>1 DEF IInv, StartsAreComplete
    <2> QED
        BY <2>1 DEF StartIsComplete, Ready, DatabaseUnchanged
<1>5. StopsAreOrderly'
    BY <1>1 DEF IInv, StopsAreOrderly
<1> QED
    BY <1>2, <1>3, <1>4, <1>5 DEF IInv

\* A process that is down has nothing to answer for.
LEMMA DownIsFine == StartIsComplete(Down) /\ StopIsOrderly(Down)
    BY DEF Down, StartIsComplete, StopIsOrderly

-----------------------------------------------------------------------------
\* The steps that write the database.
LEMMA Applying ==
    ASSUME IInv, NEW p \in Process, ApplyMigration(p)
    PROVE  IInv'
<1> DEFINE m == processes[p].step
           process == [processes[p] EXCEPT !.stage = "migrating", !.step = @ + 1]
<1>1. processes[p] \in Up
    BY RunningIsUp DEF IInv, ApplyMigration, Running
<1>2. m \in Migration /\ m \in Nat /\ 1..(m - 1) \subseteq applied /\ m \notin applied
    BY <1>1, UpParts DEF IInv, StartsAreComplete, StartIsComplete, ApplyMigration, Running
<1>3. applied' = applied \cup {m} /\ users' = users /\ runs' = [runs EXCEPT ![m] = @ + 1]
      /\ Becomes(p, process)
    BY DEF ApplyMigration
<1>4. process \in Up /\ process.stage = "migrating" /\ process.step = m + 1
    <2>1. m + 1 \in Nat
        BY <1>2
    <2> QED
        BY <1>1, <2>1 DEF Up, Stage
<1>5. /\ processes' = [q \in Process |-> IF q = p THEN process ELSE processes[q]]
      /\ processes'[p] = process
      /\ \A q \in Process \ {p} : processes'[q] = processes[q]
    BY <1>3, OneProcess DEF IInv
<1>6. TypeOK'
    BY <1>2, <1>3, <1>4, <1>5 DEF IInv, TypeOK
<1>7. 1..m \subseteq applied'
    BY <1>2, <1>3
<1>8. MigrationsRunOnce'
    <2> SUFFICES ASSUME NEW i \in Migration
                 PROVE  /\ runs'[i] = IF i \in applied' THEN 1 ELSE 0
                        /\ i \in applied' => 1..i \subseteq applied'
        BY DEF MigrationsRunOnce
    <2>1. CASE i = m
        BY <1>2, <1>3, <1>7, <2>1 DEF IInv, TypeOK, MigrationsRunOnce
    <2>2. CASE i # m
        BY <1>2, <1>3, <2>2 DEF IInv, TypeOK, MigrationsRunOnce
    <2> QED
        BY <2>1, <2>2
<1>9. StartsAreComplete'
    <2> SUFFICES ASSUME NEW q \in Process
                 PROVE  StartIsComplete(processes[q])'
        BY DEF StartsAreComplete
    <2>1. CASE q = p
        <3>1. process.step \in 1..(Migrations + 1) /\ 1..(process.step - 1) \subseteq applied'
            BY <1>2, <1>4, <1>7, ServerAssumption DEF Migration
        <3> QED
            BY <1>4, <1>5, <2>1, <3>1 DEF StartIsComplete
    <2>2. CASE q # p
        <3>1. StartIsComplete(processes'[q])
            BY <1>5, <2>2 DEF IInv, StartsAreComplete
        <3>2. applied # Migration
            BY <1>2
        <3> QED
            BY <1>3, <3>1, <3>2 DEF StartIsComplete, Ready
    <2> QED
        BY <2>1, <2>2
<1>10. StopsAreOrderly'
    <2>1. StopIsOrderly(process)
        BY <1>4 DEF StopIsOrderly
    <2> QED
        BY <1>5, <2>1 DEF IInv, StopsAreOrderly
<1> QED
    BY <1>6, <1>8, <1>9, <1>10 DEF IInv

\* The insert of a bootstrap user writes no migration and keeps the start complete.
LEMMA Creating ==
    ASSUME IInv, NEW p \in Process, CreateUser(p)
    PROVE  IInv'
<1> DEFINE u == processes[p].step
           process == [processes[p] EXCEPT !.stage = "bootstrapping", !.step = @ + 1]
<1>1. processes[p] \in Up
    BY RunningIsUp DEF IInv, CreateUser, Running
<1>2. u \in User /\ u \in Nat /\ 1..(u - 1) \subseteq users /\ u \notin users
      /\ applied = Migration
    BY <1>1, UpParts DEF IInv, StartsAreComplete, StartIsComplete, CreateUser, Running
<1>3. users' = users \cup {u} /\ applied' = applied /\ runs' = runs /\ Becomes(p, process)
    BY DEF CreateUser
<1>4. process \in Up /\ process.stage = "bootstrapping" /\ process.step = u + 1
    <2>1. u + 1 \in Nat
        BY <1>2
    <2> QED
        BY <1>1, <2>1 DEF Up, Stage
<1>5. /\ processes' = [q \in Process |-> IF q = p THEN process ELSE processes[q]]
      /\ processes'[p] = process
      /\ \A q \in Process \ {p} : processes'[q] = processes[q]
    BY <1>3, OneProcess DEF IInv
<1>6. TypeOK'
    BY <1>2, <1>3, <1>4, <1>5 DEF IInv, TypeOK
<1>7. MigrationsRunOnce'
    BY <1>3 DEF IInv, MigrationsRunOnce
<1>8. StartsAreComplete'
    <2> SUFFICES ASSUME NEW q \in Process
                 PROVE  StartIsComplete(processes[q])'
        BY DEF StartsAreComplete
    <2>1. CASE q = p
        <3>1. process.step \in 1..(Users + 1) /\ 1..(process.step - 1) \subseteq users'
            BY <1>2, <1>3, <1>4, ServerAssumption DEF User
        <3> QED
            BY <1>2, <1>3, <1>4, <1>5, <2>1, <3>1 DEF StartIsComplete
    <2>2. CASE q # p
        <3>1. StartIsComplete(processes'[q])
            BY <1>5, <2>2 DEF IInv, StartsAreComplete
        <3>2. users # User
            BY <1>2
        <3> QED
            BY <1>3, <3>1, <3>2 DEF StartIsComplete, Ready
    <2> QED
        BY <2>1, <2>2
<1>9. StopsAreOrderly'
    <2>1. StopIsOrderly(process)
        BY <1>4 DEF StopIsOrderly
    <2> QED
        BY <1>5, <2>1 DEF IInv, StopsAreOrderly
<1> QED
    BY <1>6, <1>7, <1>8, <1>9 DEF IInv

-----------------------------------------------------------------------------
\* The steps of a start that only look.
LEMMA Looking ==
    ASSUME IInv, NEW p \in Process, LookAtMigration(p) \/ LookAtUser(p)
    PROVE  IInv'
<1> DEFINE n == processes[p].step
<1>0. processes[p] \in Up /\ n \in Nat /\ DatabaseUnchanged
      /\ StartIsComplete(processes[p]) /\ StopIsOrderly(processes[p])
    BY RunningIsUp, UpParts DEF IInv, StartsAreComplete, StopsAreOrderly,
       LookAtMigration, LookAtUser, Running
<1>1. CASE LookAtMigration(p)
    <2>0. processes[p].stage = "migrating"
        BY <1>1 DEF LookAtMigration, Running
    <2>00. n \in 1..(Migrations + 1) /\ 1..(n - 1) \subseteq applied /\ applied \subseteq Migration
        BY <1>0, <2>0 DEF StartIsComplete, IInv, TypeOK
    <2>1. CASE n > Migrations
        <3> DEFINE process == [processes[p] EXCEPT !.stage = "bootstrapping", !.step = 1]
        <3>1. Becomes(p, process)
            BY <1>1, <2>1 DEF LookAtMigration
        <3>2. process \in Up /\ process.stage = "bootstrapping" /\ process.step = 1
            BY <1>0 DEF Up, Stage
        <3>3. applied = Migration
            <4>1. n - 1 = Migrations
                BY <2>00, <2>1, ServerAssumption
            <4> QED
                BY <2>00, <4>1 DEF Migration
        <3>4. StartIsComplete(process) /\ StopIsOrderly(process)
            BY <3>2, <3>3, ServerAssumption DEF StartIsComplete, StopIsOrderly
        <3> HIDE DEF process
        <3> QED
            BY <1>0, <3>1, <3>2, <3>4, UnchangedDatabase
    <2>2. CASE ~(n > Migrations) /\ n \in applied
        <3> DEFINE process == [processes[p] EXCEPT !.step = @ + 1]
        <3>1. Becomes(p, process)
            BY <1>1, <2>2 DEF LookAtMigration
        <3>2. process \in Up /\ process.stage = "migrating" /\ process.step = n + 1
            BY <1>0, <2>0 DEF Up, Stage
        <3>3. process.step \in 1..(Migrations + 1) /\ 1..(process.step - 1) \subseteq applied
            BY <1>0, <2>00, <2>2, <3>2, ServerAssumption
        <3>4. StartIsComplete(process) /\ StopIsOrderly(process)
            BY <3>2, <3>3 DEF StartIsComplete, StopIsOrderly
        <3> HIDE DEF process
        <3> QED
            BY <1>0, <3>1, <3>2, <3>4, UnchangedDatabase
    <2>3. CASE ~(n > Migrations) /\ n \notin applied
        <3> DEFINE process == [processes[p] EXCEPT !.stage = "applying"]
        <3>1. Becomes(p, process)
            BY <1>1, <2>3 DEF LookAtMigration
        <3>2. process \in Up /\ process.stage = "applying" /\ process.step = n
            BY <1>0 DEF Up, Stage
        <3>3. n \in Migration
            BY <2>00, <2>3, ServerAssumption DEF Migration
        <3>4. StartIsComplete(process) /\ StopIsOrderly(process)
            BY <2>00, <3>2, <3>3 DEF StartIsComplete, StopIsOrderly
        <3> HIDE DEF process
        <3> QED
            BY <1>0, <3>1, <3>2, <3>4, UnchangedDatabase
    <2> QED
        BY <2>1, <2>2, <2>3
<1>2. CASE LookAtUser(p)
    <2>0. processes[p].stage = "bootstrapping"
        BY <1>2 DEF LookAtUser, Running
    <2>00. /\ applied = Migration /\ users \subseteq User
           /\ n \in 1..(Users + 1) /\ 1..(n - 1) \subseteq users
        BY <1>0, <2>0 DEF StartIsComplete, IInv, TypeOK
    <2>1. CASE n > Users
        <3> DEFINE process == Serving(processes[p])
        <3>1. Becomes(p, process)
            BY <1>2, <2>1 DEF LookAtUser
        <3>2. process \in Up /\ process.stage = "serving"
            BY <1>0 DEF Up, Stage, Serving
        <3>3. Ready
            <4>1. n - 1 = Users
                BY <2>00, <2>1, ServerAssumption
            <4> QED
                BY <2>00, <4>1 DEF User, Ready
        <3>4. StartIsComplete(process) /\ StopIsOrderly(process)
            BY <3>2, <3>3 DEF StartIsComplete, StopIsOrderly
        <3> HIDE DEF process
        <3> QED
            BY <1>0, <3>1, <3>2, <3>4, UnchangedDatabase
    <2>2. CASE ~(n > Users) /\ n \in users
        <3> DEFINE process == [processes[p] EXCEPT !.step = @ + 1]
        <3>1. Becomes(p, process)
            BY <1>2, <2>2 DEF LookAtUser
        <3>2. process \in Up /\ process.stage = "bootstrapping" /\ process.step = n + 1
            BY <1>0, <2>0 DEF Up, Stage
        <3>3. process.step \in 1..(Users + 1) /\ 1..(process.step - 1) \subseteq users
            BY <1>0, <2>00, <2>2, <3>2, ServerAssumption
        <3>4. StartIsComplete(process) /\ StopIsOrderly(process)
            BY <2>00, <3>2, <3>3 DEF StartIsComplete, StopIsOrderly
        <3> HIDE DEF process
        <3> QED
            BY <1>0, <3>1, <3>2, <3>4, UnchangedDatabase
    <2>3. CASE ~(n > Users) /\ n \notin users
        <3> DEFINE process == [processes[p] EXCEPT !.stage = "creating"]
        <3>1. Becomes(p, process)
            BY <1>2, <2>3 DEF LookAtUser
        <3>2. process \in Up /\ process.stage = "creating" /\ process.step = n
            BY <1>0 DEF Up, Stage
        <3>3. n \in User
            BY <2>00, <2>3, ServerAssumption DEF User
        <3>4. StartIsComplete(process) /\ StopIsOrderly(process)
            BY <2>00, <3>2, <3>3 DEF StartIsComplete, StopIsOrderly
        <3> HIDE DEF process
        <3> QED
            BY <1>0, <3>1, <3>2, <3>4, UnchangedDatabase
    <2> QED
        BY <2>1, <2>2, <2>3
<1> QED
    BY <1>1, <1>2

-----------------------------------------------------------------------------
\* Every other step leaves the database alone.
LEMMA StartingOrEnding ==
    ASSUME IInv, NEW p \in Process, Start(p) \/ Die(p) \/ Exit(p) \/ AbortStart(p)
    PROVE  IInv'
<1>1. CASE Start(p)
    <2>1. Started \in Up /\ Started.stage = "migrating" /\ Started.step = 1
        BY DEF Started, Up, Stage
    <2>2. StartIsComplete(Started) /\ StopIsOrderly(Started)
        BY <2>1, ServerAssumption DEF StartIsComplete, StopIsOrderly
    <2> QED
        BY <1>1, <2>1, <2>2, UnchangedDatabase DEF Start
<1>2. CASE Die(p) \/ Exit(p) \/ AbortStart(p)
    BY <1>2, DownIsFine, UnchangedDatabase DEF Die, Exit, AbortStart
<1> QED
    BY <1>1, <1>2

\* What a goroutine or a signal changes: neither stage nor step.
LEMMA Aside ==
    ASSUME IInv, NEW p \in Process, processes[p] # Down, DatabaseUnchanged,
           NEW process \in Up, Becomes(p, process),
           process.stage = processes[p].stage, process.step = processes[p].step,
           StopIsOrderly(process)
    PROVE  IInv'
<1>1. StartIsComplete(process)
    BY DEF IInv, StartsAreComplete, StartIsComplete
<1> QED
    BY <1>1, UnchangedDatabase

\* Steps of a running process that leave the database alone.
LEMMA RunningAside ==
    ASSUME IInv, NEW p \in Process,
           \/ Run(p) \/ Listen(p) \/ ListenFails(p) \/ Signal(p)
           \/ \E q \in Request : RequestArrives(p, q) \/ RequestEnds(p, q)
    PROVE  IInv'
<1>0. processes[p] # Down /\ DatabaseUnchanged
    BY DEF Run, WorkerRuns, WorkerDrains, WorkerFinishes, WorkerStops, Listen, ListenFails,
       Signal, RequestArrives, RequestEnds
<1>00. processes[p] \in Up /\ StopIsOrderly(processes[p])
    BY <1>0 DEF IInv, TypeOK, StopsAreOrderly
<1>1. ASSUME NEW worker \in { "idle", "draining", "done" },
             worker = "draining" => ~processes[p].cancelled,
             Becomes(p, [processes[p] EXCEPT !.worker = worker])
      PROVE  IInv'
    <2> DEFINE process == [processes[p] EXCEPT !.worker = worker]
    <2>1. /\ process \in Up
          /\ process.stage = processes[p].stage /\ process.step = processes[p].step
          /\ process.cancelled = processes[p].cancelled /\ process.http = processes[p].http
          /\ process.active = processes[p].active /\ process.late = processes[p].late
          /\ process.worker = worker
        BY <1>00 DEF Up
    <2>2. StopIsOrderly(process)
        BY <1>00, <1>1, <2>1 DEF StopIsOrderly
    <2> HIDE DEF process
    <2> QED
        BY <1>0, <1>1, <2>1, <2>2, Aside DEF process
<1>2. ASSUME NEW http \in { "listening", "closed" }, NEW cancelled \in BOOLEAN,
             processes[p].http # "closed",
             Becomes(p, [processes[p] EXCEPT !.http = http, !.cancelled = cancelled])
      PROVE  IInv'
    <2> DEFINE process == [processes[p] EXCEPT !.http = http, !.cancelled = cancelled]
    <2>1. /\ process \in Up
          /\ process.stage = processes[p].stage /\ process.step = processes[p].step
        BY <1>00, <1>2 DEF Up
    <2>2. StopIsOrderly(process)
        BY <1>00, <1>2, <2>1 DEF StopIsOrderly
    <2> HIDE DEF process
    <2> QED
        BY <1>0, <1>2, <2>1, <2>2, Aside DEF process
<1>3. ASSUME Signal(p)
      PROVE  IInv'
    <2> DEFINE process == [processes[p] EXCEPT !.cancelled = TRUE]
    <2>1. /\ process \in Up
          /\ process.stage = processes[p].stage /\ process.step = processes[p].step
          /\ process.cancelled = TRUE /\ process.http = processes[p].http
          /\ process.active = processes[p].active /\ process.late = processes[p].late
          /\ process.worker = processes[p].worker
        BY <1>00 DEF Up
    <2>2. StopIsOrderly(process)
        BY <1>00, <2>1 DEF StopIsOrderly
    <2>3. Becomes(p, process)
        BY <1>3 DEF Signal
    <2> HIDE DEF process
    <2> QED
        BY <1>0, <2>1, <2>2, <2>3, Aside
<1>4. ASSUME NEW active \in SUBSET Request,
             \/ processes[p].http = "listening"
             \/ active \subseteq processes[p].active,
             Becomes(p, [processes[p] EXCEPT !.active = active])
      PROVE  IInv'
    <2> DEFINE process == [processes[p] EXCEPT !.active = active]
    <2>1. /\ process \in Up
          /\ process.stage = processes[p].stage /\ process.step = processes[p].step
          /\ process.cancelled = processes[p].cancelled /\ process.http = processes[p].http
          /\ process.active = active /\ process.late = processes[p].late
          /\ process.worker = processes[p].worker
        BY <1>00 DEF Up
    <2>2. StopIsOrderly(process)
        BY <1>00, <1>4, <2>1 DEF StopIsOrderly
    <2> HIDE DEF process
    <2> QED
        BY <1>0, <1>4, <2>1, <2>2, Aside DEF process
<1>5. ASSUME WorkerFinishes(p) \/ WorkerRuns(p) \/ WorkerDrains(p) \/ WorkerStops(p)
      PROVE  IInv'
    BY <1>1, <1>5 DEF WorkerFinishes, WorkerRuns, WorkerDrains, WorkerStops
<1>6. ASSUME Listen(p)
      PROVE  IInv'
    <2>1. [processes[p] EXCEPT !.http = "listening"]
              = [processes[p] EXCEPT !.http = "listening", !.cancelled = processes[p].cancelled]
        BY <1>00 DEF Up
    <2> QED
        BY <1>2, <1>6, <1>00, <2>1, UpParts DEF Listen
<1>7. ASSUME ListenFails(p)
      PROVE  IInv'
    BY <1>2, <1>7 DEF ListenFails
<1>8. ASSUME NEW q \in Request, RequestArrives(p, q) \/ RequestEnds(p, q)
      PROVE  IInv'
    <2>1. processes[p].active \cup {q} \in SUBSET Request
          /\ processes[p].active \ {q} \in SUBSET Request
        BY <1>00, UpParts
    <2> QED
        BY <1>4, <1>8, <2>1 DEF RequestArrives, RequestEnds
<1> QED
    BY <1>3, <1>5, <1>6, <1>7, <1>8 DEF Run

\* Shutting down goes in order.
LEMMA Stopping ==
    ASSUME IInv, NEW p \in Process,
           BeginShutdown(p) \/ EndShutdown(p) \/ CloseDatabase(p)
    PROVE  IInv'
<1>0. DatabaseUnchanged /\ processes[p].stage \in { "serving", "shutdown", "waiting" }
    BY DEF BeginShutdown, EndShutdown, CloseDatabase, Running
<1>00. /\ processes[p] \in Up
       /\ StartIsComplete(processes[p]) /\ StopIsOrderly(processes[p])
    BY <1>0, RunningIsUp DEF IInv, StartsAreComplete, StopsAreOrderly
<1>1. CASE BeginShutdown(p)
    <2> DEFINE process == [processes[p] EXCEPT !.stage = "shutdown", !.http = "closed"]
    <2>1. /\ process \in Up /\ process.stage = "shutdown" /\ process.http = "closed"
          /\ process.cancelled = processes[p].cancelled
        BY <1>00 DEF Up, Stage
    <2>2. StartIsComplete(process) /\ StopIsOrderly(process)
        BY <1>00, <1>1, <2>1 DEF StartIsComplete, StopIsOrderly, BeginShutdown, Running
    <2>3. Becomes(p, process)
        BY <1>1 DEF BeginShutdown
    <2> HIDE DEF process
    <2> QED
        BY <1>0, <2>1, <2>2, <2>3, UnchangedDatabase
<1>2. CASE EndShutdown(p)
    <2>1. PICK late \in BOOLEAN :
              /\ ~late => processes[p].active = {}
              /\ Becomes(p, [processes[p] EXCEPT !.stage = "waiting", !.late = late])
        BY <1>2 DEF EndShutdown
    <2> DEFINE process == [processes[p] EXCEPT !.stage = "waiting", !.late = late]
    <2>2. /\ process \in Up /\ process.stage = "waiting" /\ process.late = late
          /\ process.active = processes[p].active /\ process.http = processes[p].http
          /\ process.cancelled = processes[p].cancelled
        BY <1>00 DEF Up, Stage
    <2>3. processes[p].stage = "shutdown"
        BY <1>2 DEF EndShutdown, Running
    <2>4. StartIsComplete(process) /\ StopIsOrderly(process)
        BY <1>00, <2>1, <2>2, <2>3 DEF StartIsComplete, StopIsOrderly
    <2> HIDE DEF process
    <2> QED
        BY <1>0, <2>1, <2>2, <2>4, UnchangedDatabase DEF process
<1>3. CASE CloseDatabase(p)
    <2> DEFINE process == [processes[p] EXCEPT !.stage = "closed"]
    <2>1. /\ process \in Up /\ process.stage = "closed" /\ process.late = processes[p].late
          /\ process.active = processes[p].active /\ process.http = processes[p].http
          /\ process.cancelled = processes[p].cancelled
          /\ process.worker = processes[p].worker
        BY <1>00 DEF Up, Stage
    <2>2. StartIsComplete(process) /\ StopIsOrderly(process)
        BY <1>00, <1>3, <2>1 DEF StartIsComplete, StopIsOrderly, CloseDatabase, Running
    <2>3. Becomes(p, process)
        BY <1>3 DEF CloseDatabase
    <2> HIDE DEF process
    <2> QED
        BY <1>0, <2>1, <2>2, <2>3, UnchangedDatabase
<1> QED
    BY <1>1, <1>2, <1>3

-----------------------------------------------------------------------------
\* The inductive invariant holds at all times.
LEMMA Invariance == Spec => []IInv
<1>1. Init => IInv
    <2> SUFFICES ASSUME Init
                 PROVE  IInv
        OBVIOUS
    <2>1. TypeOK /\ MigrationsRunOnce
        BY DEF Init, TypeOK, MigrationsRunOnce
    <2>2. StartsAreComplete /\ StopsAreOrderly
        BY DownIsFine DEF Init, StartsAreComplete, StopsAreOrderly
    <2> QED
        BY <2>1, <2>2 DEF IInv
<1>2. IInv /\ [Next]_vars => IInv'
    <2> SUFFICES ASSUME IInv, [Next]_vars
                 PROVE  IInv'
        OBVIOUS
    <2>1. CASE UNCHANGED vars
        BY <2>1 DEF vars, IInv, TypeOK, MigrationsRunOnce, StartsAreComplete, StopsAreOrderly,
           StartIsComplete, StopIsOrderly, Ready
    <2>2. CASE Next
        BY <2>2, Applying, Creating, Looking, StartingOrEnding, RunningAside, Stopping
        DEF Next, Main
    <2> QED
        BY <2>1, <2>2
<1> QED
    BY <1>1, <1>2, PTL DEF Spec

\* Processes, requests and the database of the server keep their types through
\* starts, kills and stops.
THEOREM TypeCorrect == Spec => []TypeOK
    BY Invariance, PTL DEF IInv

\* Migrate: whichever processes start, and wherever they are killed, a script is
\* committed exactly if it is recorded, once, after those before it.
THEOREM MigrationsAreDoneOnce == Spec => []MigrationsRunOnce
    BY Invariance, PTL DEF IInv

\* Open and bootstrap: a process that serves has the whole schema and all users.
THEOREM ServersAreReady == Spec => []ServingIsReady
<1>1. IInv => ServingIsReady
    BY DEF IInv, StartsAreComplete, StartIsComplete, ServingIsReady
<1> QED
    BY <1>1, Invariance, PTL

\* main: the worker's loop is not in the store when the database is closed,
\* though Wait does not wait for a worker that has not begun.
THEOREM WorkersLeave == Spec => []WorkerLeavesBeforeClose
<1>1. IInv => WorkerLeavesBeforeClose
    BY DEF IInv, StopsAreOrderly, StopIsOrderly, WorkerLeavesBeforeClose, Running
<1> QED
    BY <1>1, Invariance, PTL

\* main: a request meets a closed database only after the shutdown's timeout.
THEOREM RequestsLeave == Spec => []RequestsLeaveBeforeClose
<1>1. IInv => RequestsLeaveBeforeClose
    BY DEF IInv, StopsAreOrderly, StopIsOrderly, RequestsLeaveBeforeClose, Running
<1> QED
    BY <1>1, Invariance, PTL

=============================================================================
