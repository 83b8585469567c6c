------------------------------ MODULE Sessions ------------------------------
(***************************************************************************)
(* Sessions and the requests that use them: internal/auth, the table       *)
(* sessions of internal/store/identity.go and the middleware Authenticate. *)
(*                                                                         *)
(* A request reads the clock, looks its session up, touches it and is then *)
(* served as the principal it found; each of these is a step, and logouts, *)
(* purges and the clock may come between any two.  Credentials, tokens and *)
(* users are left out: a token is known to who has logged in, and no code  *)
(* ever changes a user.                                                    *)
(***************************************************************************)
EXTENDS TimeText

CONSTANTS
    Session,           \* ids of sessions, random and never used again
    Request,           \* requests that may be under way at the same time
    Instants,          \* the instants of the clock
    TTL,               \* seconds a session lasts
    Retention          \* seconds a purge keeps a revoked session: 24 hours

ASSUME SessionAssumption ==
    /\ Instants \subseteq Instant
    /\ TTL \in Nat \ {0} /\ Retention \in Nat

VARIABLES
    now,               \* the service clock
    sessions,          \* the table, by id
    requests,          \* where each request is
    overtaken          \* history: admitted requests whose session then ended

vars == << now, sessions, requests, overtaken >>

-----------------------------------------------------------------------------
NotRevoked == [revoked |-> "never"]  \* the NULL of revoked_at

Row == [created : Instant, expires : Instant, seen : Instant,
        revoked : Instant \cup {NotRevoked}]

NoSession == [row |-> "none"]        \* the id has not been drawn yet
Purged == [row |-> "purged"]         \* the row was deleted

Stored(s) == sessions[s] \notin { NoSession, Purged }

Revoked(s) == Stored(s) /\ sessions[s].revoked # NotRevoked

\* identity.Session.UsableAt.
UsableAt(row, t) == row.revoked = NotRevoked /\ Before(t, row.expires)

Later(t, seconds) == [t EXCEPT !.sec = @ + seconds]

Idle == [stage |-> "idle"]

\* at: the clock when Authenticate, or Logout, called the store.
Underway == [stage : { "called", "admitted", "serving", "leaving" },
             session : Session, at : Instants]

Admitted == { q \in Request : requests[q].stage \in { "admitted", "serving", "leaving" } }

On(s) == { q \in Admitted : requests[q].session = s }

-----------------------------------------------------------------------------
Init ==
    /\ now \in Instants
    /\ sessions = [s \in Session |-> NoSession]
    /\ requests = [q \in Request |-> Idle]
    /\ overtaken = {}

\* auth.Login, its credentials accepted, and CreateSession with its trigger.
Login(s) ==
    /\ sessions[s] = NoSession
    /\ TextLess(now, Later(now, TTL))
    /\ sessions' = [sessions EXCEPT ![s] =
           [created |-> now, expires |-> Later(now, TTL), seen |-> now,
            revoked |-> NotRevoked]]
    /\ UNCHANGED << now, requests, overtaken >>

\* Authenticate, with a token its client was given: reads the clock.
Authenticate(q, s) ==
    /\ requests[q] = Idle
    /\ sessions[s] # NoSession
    /\ requests' = [requests EXCEPT ![q] = [stage |-> "called", session |-> s, at |-> now]]
    /\ UNCHANGED << now, sessions, overtaken >>

\* Mutant: the lookup does not ask whether the session was revoked.
FindIgnoringRevocation(q) ==
    /\ requests[q].stage = "called"
    /\ LET s == requests[q].session
       IN  IF Stored(s) /\ Before(requests[q].at, sessions[s].expires)
           THEN requests' = [requests EXCEPT ![q].stage = "admitted"]
           ELSE requests' = [requests EXCEPT ![q] = Idle]
    /\ UNCHANGED << now, sessions, overtaken >>

\* Mutant: the lookup does not ask whether the session has expired.
FindIgnoringExpiry(q) ==
    /\ requests[q].stage = "called"
    /\ LET s == requests[q].session
       IN  IF Stored(s) /\ ~Revoked(s)
           THEN requests' = [requests EXCEPT ![q].stage = "admitted"]
           ELSE requests' = [requests EXCEPT ![q] = Idle]
    /\ UNCHANGED << now, sessions, overtaken >>

\* ResolveSession: its SELECT and the three refusals after it.
FindSession(q) ==
    /\ requests[q].stage = "called"
    /\ LET s == requests[q].session
       IN  IF Stored(s) /\ UsableAt(sessions[s], requests[q].at)
           THEN requests' = [requests EXCEPT ![q].stage = "admitted"]
           ELSE requests' = [requests EXCEPT ![q] = Idle]
    /\ UNCHANGED << now, sessions, overtaken >>

\* Mutant: the update also touches a revoked session, as if it were open.
TouchReopening(q) ==
    /\ requests[q].stage = "admitted"
    /\ LET s == requests[q].session
       IN  IF Stored(s)
           THEN sessions' = [sessions EXCEPT ![s].seen = requests[q].at]
           ELSE UNCHANGED sessions
    /\ requests' = [requests EXCEPT ![q].stage = "serving"]
    /\ UNCHANGED << now, overtaken >>

\* ResolveSession: its UPDATE.  How many rows it met is not looked at, so the
\* request is served even if there was none.
TouchSession(q) ==
    /\ requests[q].stage = "admitted"
    /\ LET s == requests[q].session
       IN  IF Stored(s) /\ ~Revoked(s)
           THEN sessions' = [sessions EXCEPT ![s].seen = requests[q].at]
           ELSE UNCHANGED sessions
    /\ requests' = [requests EXCEPT ![q].stage = "serving"]
    /\ UNCHANGED << now, overtaken >>

\* The handler ends, or the request does in any stage.
Leave(q) ==
    /\ requests[q] # Idle
    /\ requests' = [requests EXCEPT ![q] = Idle]
    /\ overtaken' = overtaken \ {q}
    /\ UNCHANGED << now, sessions >>

\* auth.Logout, as the request with which a client ends its session: reads the
\* clock ...
Logout(q) ==
    /\ requests[q].stage = "serving"
    /\ requests' = [requests EXCEPT ![q].stage = "leaving", ![q].at = now]
    /\ UNCHANGED << now, sessions, overtaken >>

\* ... and revokes; a second logout meets no row and changes nothing.
RevokeSession(q) ==
    /\ requests[q].stage = "leaving"
    /\ LET s == requests[q].session
       IN  IF Stored(s) /\ ~Revoked(s)
           THEN /\ sessions' = [sessions EXCEPT ![s].revoked = requests[q].at]
                /\ overtaken' = (overtaken \cup On(s)) \ {q}
           ELSE /\ overtaken' = overtaken \ {q}
                /\ UNCHANGED sessions
    /\ requests' = [requests EXCEPT ![q] = Idle]
    /\ UNCHANGED now

\* Mutant: sessions are deleted a retention before they expire.
PurgeableEarly(row) ==
    \/ TextLeq(row.expires, Later(now, Retention))
    \/ row.revoked # NotRevoked /\ TextLess(Later(row.revoked, Retention), now)

\* What PurgeExpiredSessions deletes: it compares texts, against now and against
\* a time one retention before now.
Purgeable(row) ==
    \/ TextLeq(row.expires, now)
    \/ row.revoked # NotRevoked /\ TextLess(Later(row.revoked, Retention), now)

\* Exported by the store; only its tests call it yet.
PurgeExpiredSessions ==
    LET gone == { s \in Session : Stored(s) /\ Purgeable(sessions[s]) }
    IN  /\ sessions' = [s \in Session |-> IF s \in gone THEN Purged ELSE sessions[s]]
        /\ overtaken' = overtaken \cup UNION { On(s) : s \in gone }
        /\ UNCHANGED << now, requests >>

ClockAdvances ==
    /\ \E t \in Instants : Before(now, t) /\ now' = t
    /\ UNCHANGED << sessions, requests, overtaken >>

Next ==
    \/ \E s \in Session : Login(s)
    \/ \E q \in Request : \/ \E s \in Session : Authenticate(q, s)
                          \/ FindSession(q) \/ TouchSession(q)
                          \/ Leave(q) \/ Logout(q) \/ RevokeSession(q)
    \/ PurgeExpiredSessions
    \/ ClockAdvances

Spec == Init /\ [][Next]_vars

-----------------------------------------------------------------------------
TypeOK ==
    /\ now \in Instants
    /\ sessions \in [Session -> Row \cup { NoSession, Purged }]
    /\ requests \in [Request -> Underway \cup {Idle}]
    /\ overtaken \subseteq Request

\* A session that has ended admits nobody: a request that is past the lookup of
\* a session that is revoked or deleted was past it before that happened.  Such
\* a request is served to its end, for ResolveSession looks only once.
EndedSessionsAdmitNobody ==
    \A s \in Session : Revoked(s) \/ sessions[s] = Purged => On(s) \subseteq overtaken

\* What a row tells of its session is consistent: it was last seen while it was
\* usable and not revoked before it began, although requests write the clock
\* later than they have read it, and in another order.
SeenWhileUsable ==
    \A s \in Session : Stored(s) =>
        LET row == sessions[s]
        IN  /\ ~Before(row.seen, row.created)
            /\ Before(row.seen, row.expires)
            /\ Revoked(s) => ~Before(row.revoked, row.created)

\* A logout is final and happens once: nothing but a purge writes the row of a
\* revoked session, neither a second logout nor the touch of a request that
\* found the session open.
RevocationIsFinal ==
    [][\A s \in Session : Revoked(s) => sessions'[s] \in { sessions[s], Purged }]_vars

\* A purge takes no session that can still be used, but for the last second of
\* its life: the text of a whole second is greater than those of its fractions,
\* so "expires_at <= now" may hold too early, by less than a second.
PurgeSparesTheLiving ==
    [][\A s \in Session :
          Stored(s) /\ sessions'[s] = Purged /\ UsableAt(sessions[s], now)
              => Before(sessions[s].expires, OneSecondAfter(now))]_vars

=============================================================================
