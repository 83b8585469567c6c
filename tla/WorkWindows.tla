---------------------------- MODULE WorkWindows ----------------------------
(***************************************************************************)
(* Downtime windows and the reservations they hold on a workstation, a     *)
(* tool and a qualified person: internal/schedule, internal/store          *)
(* (schedule.go and the triggers of migrations.go) and                     *)
(* internal/service/scheduling.go.                                         *)
(*                                                                         *)
(* Each store method runs in one SQLite transaction, so it is one action:  *)
(* every check of the method is a conjunct of its guard, because any of    *)
(* them failing rolls the whole transaction back.  A client supplies the   *)
(* version it last saw; a rejected request leaves these tables unchanged.  *)
(***************************************************************************)
EXTENDS Identity, TimeText

CONSTANTS
    Window,          \* ids of work_windows
    Cell, Workstation, Tool, Person,
    Instants,        \* the instants clients and the clock use
    QualificationKind,
    Qualifications,  \* rows of qualifications; nothing ever revokes one
    ToolActive, CalibrationDue   \* rows of tools; nothing ever updates one

Qualification == [person : Person, kind : QualificationKind,
                  from : Instant, to : Instant]

ASSUME CatalogAssumption ==
    /\ Instants \subseteq Instant
    /\ Qualifications \subseteq Qualification
    /\ ToolActive \in [Tool -> BOOLEAN]
    /\ CalibrationDue \in [Tool -> Instant]

VARIABLES
    now,             \* the service clock
    windows,         \* work_windows, by id
    reservations     \* resource_reservations

vars == << now, windows, reservations >>

-----------------------------------------------------------------------------
WindowStatus == { "requested", "approved", "reserved", "active",
                  "completed", "cancelled", "expired" }

transitions ==
    { << "requested", "approved" >>, << "requested", "cancelled" >>,
      << "approved", "reserved" >>, << "approved", "cancelled" >>,
      << "reserved", "active" >>, << "reserved", "cancelled" >>,
      << "reserved", "expired" >>,
      << "active", "completed" >>, << "active", "cancelled" >> }

CanTransition(window, next) == << window.status, next >> \in transitions

WorkWindow == [cell : Cell, workstation : Workstation, tool : Tool,
               person : Person, starts : Instant, ends : Instant,
               status : WindowStatus, version : Nat]

NoWindow == [status |-> "none"]      \* the id is not in the table

Resource == [kind : {"workstation"}, id : Workstation]
              \cup [kind : {"tool"}, id : Tool]
              \cup [kind : {"person"}, id : Person]

\* The three rows ApproveAndReserveWindow inserts.
Resources(window) ==
    { [kind |-> "workstation", id |-> window.workstation],
      [kind |-> "tool", id |-> window.tool],
      [kind |-> "person", id |-> window.person] }

Reservation == [window : Window, resource : Resource,
                starts : Instant, ends : Instant, released : BOOLEAN]

NewReservation(w, resource) ==
    [window |-> w, resource |-> resource, starts |-> windows[w].starts,
     ends |-> windows[w].ends, released |-> FALSE]

NewReservations(w) ==
    { NewReservation(w, resource) : resource \in Resources(windows[w]) }

\* schedule.WorkWindow.Validate; the 24-hour limit is beyond any horizon used.
Validate(starts, ends) == Before(starts, ends)

\* Mutant: the trigger only looks whether the new interval starts inside the
\* current one, and misses the interval that contains it.
ConflictsAtItsStart(new, current) ==
    /\ current.resource = new.resource
    /\ ~current.released
    /\ TextLeq(current.starts, new.starts)
    /\ TextLess(new.starts, current.ends)

\* Mutant: the trigger only protects workstations and persons.
ConflictsButForTools(new, current) ==
    /\ current.resource = new.resource
    /\ new.resource.kind # "tool"
    /\ ~current.released
    /\ TextLess(new.starts, current.ends)
    /\ TextLess(current.starts, new.ends)

\* The trigger reservations_validate_insert, on the stored texts.
Conflicts(new, current) ==
    /\ current.resource = new.resource
    /\ ~current.released
    /\ TextLess(new.starts, current.ends)
    /\ TextLess(current.starts, new.ends)

\* The qualification query, also on the stored texts.
Qualified(window, kind) ==
    \E q \in Qualifications :
        /\ q.person = window.person
        /\ q.kind = kind
        /\ TextLeq(q.from, window.starts)
        /\ TextLess(window.ends, q.to)

\* Compared in Go after decoding, so on the instants themselves.
ToolUsable(window) ==
    /\ ToolActive[window.tool]
    /\ ~Before(CalibrationDue[window.tool], window.ends)

-----------------------------------------------------------------------------
Init ==
    /\ now \in Instants
    /\ windows = [w \in Window |-> NoWindow]
    /\ reservations = {}

\* Scheduling.Request and Store.CreateWindow.
Request(w, window, role) ==
    /\ role \in {"line_manager", "integrator"}
    /\ windows[w] = NoWindow
    /\ Before(now, window.starts)
    /\ Validate(window.starts, window.ends)
    /\ windows' = [windows EXCEPT ![w] = window]
    /\ UNCHANGED << now, reservations >>

\* What a client may ask for; the service sets the status, the store the version.
Requestable == [cell : Cell, workstation : Workstation, tool : Tool,
                person : Person, starts : Instants, ends : Instants,
                status : {"requested"}, version : {1}]

\* Scheduling.Approve and Store.ApproveAndReserveWindow.
Approve(w, expected, kind, role) ==
    /\ role \in {"line_manager", "safety_officer"}
    /\ windows[w] # NoWindow
    /\ windows[w].version = expected
    /\ CanTransition(windows[w], "approved")
    /\ Qualified(windows[w], kind)
    /\ ToolUsable(windows[w])
    /\ \A new \in NewReservations(w) :
           \A current \in reservations : ~Conflicts(new, current)
    /\ reservations' = reservations \cup NewReservations(w)
    /\ windows' = [windows EXCEPT ![w].status = "reserved", ![w].version = @ + 1]
    /\ UNCHANGED now

\* Mutant: cancelling does not release what the window holds.
CancelWithoutRelease(w, expected, role) ==
    /\ role \in {"line_manager", "operator", "integrator"}
    /\ windows[w] # NoWindow
    /\ windows[w].version = expected
    /\ CanTransition(windows[w], "cancelled")
    /\ windows' = [windows EXCEPT ![w].status = "cancelled", ![w].version = @ + 1]
    /\ UNCHANGED << now, reservations >>

\* Scheduling.Cancel and Store.CancelWindow.
Cancel(w, expected, role) ==
    /\ role \in {"line_manager", "operator", "integrator"}
    /\ windows[w] # NoWindow
    /\ windows[w].version = expected
    /\ CanTransition(windows[w], "cancelled")
    /\ reservations' = { IF r.window = w THEN [r EXCEPT !.released = TRUE] ELSE r
                           : r \in reservations }
    /\ windows' = [windows EXCEPT ![w].status = "cancelled", ![w].version = @ + 1]
    /\ UNCHANGED now

ClockAdvances ==
    /\ \E t \in Instants : Before(now, t) /\ now' = t
    /\ UNCHANGED << windows, reservations >>

LastVersion == 3      \* requested, reserved, cancelled: no window is written more

Next ==
    \/ \E w \in Window, role \in Role :
         \/ \E window \in Requestable : Request(w, window, role)
         \/ \E expected \in 1..LastVersion :
              \/ \E kind \in QualificationKind : Approve(w, expected, kind, role)
              \/ Cancel(w, expected, role)
    \/ ClockAdvances

Spec == Init /\ [][Next]_vars

-----------------------------------------------------------------------------
TypeOK ==
    /\ now \in Instants
    /\ windows \in [Window -> WorkWindow \cup {NoWindow}]
    /\ reservations \subseteq Reservation

Active == { r \in reservations : ~r.released }

\* A window holds its workstation, its tool and its person, for exactly its
\* own interval, from its approval until its cancellation and never at another
\* time: ApproveAndReserveWindow and CancelWindow write the window and its
\* three reservations together or not at all, whatever the order of clients
\* holding stale versions.
ReservedHoldsItsResources ==
    \A w \in Window :
        { r \in Active : r.window = w }
            = IF windows[w].status = "reserved" THEN NewReservations(w) ELSE {}

Overlaps(a, b) == Before(a.starts, b.ends) /\ Before(b.starts, a.ends)

\* Two different windows that both hold one resource.
Contenders == { p \in Active \X Active :
                    p[1].window # p[2].window /\ p[1].resource = p[2].resource }

\* Downtime windows that start and end on whole seconds never hold one
\* workstation, tool or person at the same time: on such texts the trigger
\* reservations_validate_insert orders the bounds as time does.
NoDoubleBookingOnWholeSeconds ==
    \A p \in Contenders :
        (\A r \in {p[1], p[2]} : WholeSecond(r.starts) /\ WholeSecond(r.ends))
            => ~Overlaps(p[1], p[2])

\* Windows with fractional bounds can be double booked, because the trigger
\* compares texts, but never by a second or more: one of the two always starts
\* in the second in which the other ends, or later.
DoubleBookingIsBelowOneSecond ==
    \A p \in Contenders :
        \/ Before(p[1].ends, OneSecondAfter(p[2].starts))
        \/ Before(p[2].ends, OneSecondAfter(p[1].starts))

\* What the README promises of every window: resources are reserved atomically
\* and an overlapping use is decided as a conflict.  The trigger's text
\* comparison misses an overlap inside one second.
NoDoubleBooking == \A p \in Contenders : ~Overlaps(p[1], p[2])

=============================================================================
