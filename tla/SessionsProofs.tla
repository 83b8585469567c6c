--------------------------- MODULE SessionsProofs ---------------------------
(***************************************************************************)
(* For any sessions, requests, instants, lifetime and retention: an ended  *)
(* session admits nobody, a row was last seen while it was usable, a       *)
(* revocation is final, and a purge is early by less than a second.        *)
(***************************************************************************)
EXTENDS Sessions, TLAPS

\* What a request carries about its session: the token it shows was drawn, and
\* its reading of the clock lies between the login and now.
TimesAreInOrder ==
    /\ \A s \in Session : Stored(s) => ~Before(now, sessions[s].created)
    /\ \A q \in Request : requests[q] # Idle =>
         LET s == requests[q].session
         IN  /\ sessions[s] # NoSession
             /\ ~Before(now, requests[q].at)
             /\ Stored(s) => ~Before(requests[q].at, sessions[s].created)
             /\ Stored(s) /\ requests[q].stage = "admitted"
                    => Before(requests[q].at, sessions[s].expires)

IInv == TypeOK /\ EndedSessionsAdmitNobody /\ SeenWhileUsable /\ TimesAreInOrder

-----------------------------------------------------------------------------
\* Instants are ordered as numbers are.
LEMMA BeforeIsAnOrder ==
    ASSUME NEW a \in Instant, NEW b \in Instant, NEW c \in Instant
    PROVE  /\ ~Before(a, a)
           /\ Before(a, b) => ~Before(b, a)
           /\ ~Before(a, b) /\ ~Before(b, c) => ~Before(a, c)
    BY DEF Instant, Before

\* An instant moved by a positive duration comes after it.
LEMMA LaterIsLater ==
    ASSUME NEW a \in Instant, NEW n \in Nat
    PROVE  /\ Later(a, n) \in Instant
           /\ n # 0 => Before(a, Later(a, n))
    BY DEF Instant, Before, Later

\* The clock's readings are instants.
LEMMA InstantsAreInstants == Instants \subseteq Instant
    BY SessionAssumption

\* What a row and a request consist of.
LEMMA RowParts ==
    ASSUME TypeOK, NEW s \in Session, Stored(s)
    PROVE  /\ sessions[s] \in Row
           /\ sessions[s].created \in Instant /\ sessions[s].expires \in Instant
           /\ sessions[s].seen \in Instant
           /\ sessions[s].revoked \in Instant \cup {NotRevoked}
    BY DEF TypeOK, Stored, Row

\* The fields of a request under way.
LEMMA RequestParts ==
    ASSUME TypeOK, NEW q \in Request, requests[q] # Idle
    PROVE  /\ requests[q] \in Underway
           /\ requests[q].session \in Session /\ requests[q].at \in Instants
           /\ requests[q].at \in Instant
           /\ requests[q].stage \in { "called", "admitted", "serving", "leaving" }
    BY InstantsAreInstants DEF TypeOK, Underway

\* A request in a stage other than idle is under way.
LEMMA StagedIsUnderway ==
    ASSUME NEW q, requests[q].stage # "idle"
    PROVE  requests[q] # Idle
    BY DEF Idle

-----------------------------------------------------------------------------
\* Every step keeps the types.
LEMMA TypeStep ==
    ASSUME TypeOK, [Next]_vars
    PROVE  TypeOK'
<1>1. ASSUME NEW s \in Session, Login(s)
      PROVE  TypeOK'
    <2>1. now \in Instant /\ Later(now, TTL) \in Instant
        BY InstantsAreInstants, LaterIsLater, SessionAssumption DEF TypeOK
    <2>2. [created |-> now, expires |-> Later(now, TTL), seen |-> now,
           revoked |-> NotRevoked] \in Row
        BY <2>1 DEF Row
    <2> QED
        BY <1>1, <2>2 DEF TypeOK, Login
<1>2. ASSUME NEW q \in Request, NEW s \in Session, Authenticate(q, s)
      PROVE  TypeOK'
    BY <1>2 DEF TypeOK, Authenticate, Underway
<1>3. ASSUME NEW q \in Request, FindSession(q)
      PROVE  TypeOK'
    <2>1. requests[q] \in Underway
        BY <1>3, RequestParts, StagedIsUnderway DEF FindSession
    <2> QED
        BY <1>3, <2>1 DEF TypeOK, FindSession, Underway
<1>4. ASSUME NEW q \in Request, TouchSession(q)
      PROVE  TypeOK'
    <2> DEFINE s == requests[q].session
    <2>1. requests[q] \in Underway /\ s \in Session /\ requests[q].at \in Instant
        BY <1>4, RequestParts, StagedIsUnderway DEF TouchSession
    <2>2. requests' \in [Request -> Underway \cup {Idle}]
        BY <1>4, <2>1 DEF TypeOK, TouchSession, Underway
    <2>3. ASSUME Stored(s)
          PROVE  [sessions[s] EXCEPT !.seen = requests[q].at] \in Row
        BY <2>1, <2>3, RowParts DEF Row
    <2>4. sessions' \in [Session -> Row \cup { NoSession, Purged }]
        BY <1>4, <2>1, <2>3 DEF TypeOK, TouchSession
    <2> QED
        BY <1>4, <2>2, <2>4 DEF TypeOK, TouchSession
<1>5. ASSUME NEW q \in Request, Leave(q)
      PROVE  TypeOK'
    BY <1>5 DEF TypeOK, Leave
<1>6. ASSUME NEW q \in Request, Logout(q)
      PROVE  TypeOK'
    <2>1. requests[q] \in Underway
        BY <1>6, RequestParts, StagedIsUnderway DEF Logout
    <2>2. [requests[q] EXCEPT !.stage = "leaving", !.at = now] \in Underway
        BY <2>1 DEF TypeOK, Underway
    <2> QED
        BY <1>6, <2>2 DEF TypeOK, Logout
<1>7. ASSUME NEW q \in Request, RevokeSession(q)
      PROVE  TypeOK'
    <2> DEFINE s == requests[q].session
    <2>1. requests[q] \in Underway /\ s \in Session /\ requests[q].at \in Instant
        BY <1>7, RequestParts, StagedIsUnderway DEF RevokeSession
    <2>2. ASSUME Stored(s)
          PROVE  [sessions[s] EXCEPT !.revoked = requests[q].at] \in Row
        BY <2>1, <2>2, RowParts DEF Row
    <2>3. sessions' \in [Session -> Row \cup { NoSession, Purged }]
        BY <1>7, <2>1, <2>2 DEF TypeOK, RevokeSession
    <2>4. overtaken' \subseteq Request
        BY <1>7 DEF TypeOK, RevokeSession, On, Admitted
    <2> QED
        BY <1>7, <2>3, <2>4 DEF TypeOK, RevokeSession
<1>8. CASE PurgeExpiredSessions
    <2>1. sessions' \in [Session -> Row \cup { NoSession, Purged }]
        BY <1>8 DEF TypeOK, PurgeExpiredSessions
    <2>2. overtaken' \subseteq Request
        BY <1>8 DEF TypeOK, PurgeExpiredSessions, On, Admitted
    <2> QED
        BY <1>8, <2>1, <2>2 DEF TypeOK, PurgeExpiredSessions
<1>9. CASE ClockAdvances
    BY <1>9 DEF TypeOK, ClockAdvances
<1>10. CASE UNCHANGED vars
    BY <1>10 DEF TypeOK, vars
<1> QED
    BY <1>1, <1>2, <1>3, <1>4, <1>5, <1>6, <1>7, <1>8, <1>9, <1>10 DEF Next

\* An ended session admits nobody: nobody is admitted to one, and whoever is
\* admitted when it ends is noted.
LEMMA AdmissionStep ==
    ASSUME TypeOK, EndedSessionsAdmitNobody, [Next]_vars
    PROVE  EndedSessionsAdmitNobody'
<1> SUFFICES ASSUME NEW s \in Session, NEW q \in Request,
                    (Revoked(s) \/ sessions[s] = Purged)', q \in On(s)'
             PROVE  q \in overtaken'
    BY DEF EndedSessionsAdmitNobody, On, Admitted
<1> DEFINE Ended(x) == Revoked(x) \/ sessions[x] = Purged
<1>0. Ended(s) /\ q \in On(s) => q \in overtaken
    BY DEF EndedSessionsAdmitNobody
<1>1. requests'[q].stage \in { "admitted", "serving", "leaving" } /\ requests'[q].session = s
    BY DEF On, Admitted
<1>2. ASSUME NEW t \in Session, Login(t)
      PROVE  q \in overtaken'
    <2>1. t # s \/ ~Ended(s)'
        BY <1>2 DEF TypeOK, Login, Revoked, Stored, Purged
    <2>2. Ended(s)
        BY <1>2, <2>1 DEF TypeOK, Login, Revoked, Stored
    <2> QED
        BY <1>2, <1>1, <1>0, <2>2 DEF Login, On, Admitted
<1>3. ASSUME NEW p \in Request, NEW t \in Session, Authenticate(p, t)
      PROVE  q \in overtaken'
    <2>1. p # q
        BY <1>1, <1>3 DEF TypeOK, Authenticate
    <2> QED
        BY <1>3, <2>1, <1>1, <1>0 DEF TypeOK, Authenticate, On, Admitted, Revoked, Stored
<1>4. ASSUME NEW p \in Request, FindSession(p)
      PROVE  q \in overtaken'
    <2>0. Ended(s)
        BY <1>4 DEF FindSession, Revoked, Stored
    <2>1. CASE p = q
        <3>1. requests[q] \in Underway
            BY <1>4, <2>1, RequestParts, StagedIsUnderway DEF FindSession
        <3>2. Stored(requests[q].session) /\ ~Revoked(requests[q].session)
            BY <1>4, <2>1, <1>1 DEF TypeOK, FindSession, UsableAt, Revoked, Idle
        <3>3. requests[q].session = s
            BY <1>4, <2>1, <3>1, <3>2, <1>1 DEF TypeOK, FindSession, Idle, Underway
        <3> QED
            BY <3>2, <3>3, <2>0 DEF Stored
    <2>2. CASE p # q
        BY <1>4, <2>0, <2>2, <1>1, <1>0 DEF TypeOK, FindSession, On, Admitted
    <2> QED
        BY <2>1, <2>2
<1>5. ASSUME NEW p \in Request, TouchSession(p)
      PROVE  q \in overtaken'
    <2>0. requests[p] \in Underway /\ requests[p].session \in Session
        BY <1>5, RequestParts, StagedIsUnderway DEF TouchSession
    <2>1. requests[q].stage \in { "admitted", "serving", "leaving" } /\ requests[q].session = s
        BY <1>5, <2>0, <1>1 DEF TypeOK, TouchSession, Underway
    <2>2. Ended(s)
        BY <1>5, <2>0, RowParts DEF TypeOK, TouchSession, Revoked, Stored, Row, NoSession, Purged
    <2> QED
        BY <1>5, <2>1, <2>2, <1>0 DEF TouchSession, On, Admitted
<1>6. ASSUME NEW p \in Request, Leave(p)
      PROVE  q \in overtaken'
    <2>1. p # q
        BY <1>1, <1>6 DEF TypeOK, Leave, Idle
    <2> QED
        BY <1>6, <2>1, <1>1, <1>0 DEF TypeOK, Leave, On, Admitted, Revoked, Stored
<1>7. ASSUME NEW p \in Request, Logout(p)
      PROVE  q \in overtaken'
    <2>0. requests[p] \in Underway
        BY <1>7, RequestParts, StagedIsUnderway DEF Logout
    <2>1. requests[q].stage \in { "admitted", "serving", "leaving" } /\ requests[q].session = s
        BY <1>7, <2>0, <1>1 DEF TypeOK, Logout, Underway
    <2> QED
        BY <1>7, <2>1, <1>0 DEF Logout, On, Admitted, Revoked, Stored
<1>8. ASSUME NEW p \in Request, RevokeSession(p)
      PROVE  q \in overtaken'
    <2> DEFINE t == requests[p].session
    <2>0. requests[p] \in Underway /\ t \in Session
        BY <1>8, RequestParts, StagedIsUnderway DEF RevokeSession
    <2>1. p # q
        BY <1>1, <1>8 DEF TypeOK, RevokeSession, Idle
    <2>2. q \in On(s)
        BY <1>8, <2>1, <1>1 DEF TypeOK, RevokeSession, On, Admitted
    <2>3. CASE Ended(s)
        BY <1>8, <2>1, <2>2, <2>3, <1>0 DEF RevokeSession
    <2>4. CASE ~Ended(s)
        <3>1. s = t /\ Stored(t) /\ ~Revoked(t)
            BY <1>8, <2>0, <2>4 DEF TypeOK, RevokeSession, Revoked, Stored
        <3> QED
            BY <1>8, <2>1, <2>2, <3>1 DEF RevokeSession
    <2> QED
        BY <2>3, <2>4
<1>9. CASE PurgeExpiredSessions
    <2>1. q \in On(s)
        BY <1>9, <1>1 DEF PurgeExpiredSessions, On, Admitted
    <2>2. CASE Ended(s)
        BY <1>9, <2>1, <2>2, <1>0 DEF PurgeExpiredSessions
    <2>3. CASE ~Ended(s)
        <3>1. Stored(s) /\ Purgeable(sessions[s])
            BY <1>9, <2>3 DEF PurgeExpiredSessions, Revoked, Stored
        <3> QED
            BY <1>9, <2>1, <3>1 DEF PurgeExpiredSessions
    <2> QED
        BY <2>2, <2>3
<1>10. CASE ClockAdvances
    BY <1>10, <1>1, <1>0 DEF ClockAdvances, On, Admitted, Revoked, Stored
<1>11. CASE UNCHANGED vars
    BY <1>11, <1>1, <1>0 DEF vars, On, Admitted, Revoked, Stored
<1> QED
    BY <1>2, <1>3, <1>4, <1>5, <1>6, <1>7, <1>8, <1>9, <1>10, <1>11 DEF Next

-----------------------------------------------------------------------------
\* The conditions on one row, and on one request with a row.
Present(row) == row \notin { NoSession, Purged }

RowIsSound(row) ==
    /\ ~Before(row.seen, row.created)
    /\ Before(row.seen, row.expires)
    /\ row.revoked # NotRevoked => ~Before(row.revoked, row.created)

RequestIsSound(request, row) ==
    /\ ~Before(request.at, row.created)
    /\ request.stage = "admitted" => Before(request.at, row.expires)

\* TimesAreInOrder and SeenWhileUsable, row by row and request by request.
InOrder ==
    /\ \A s \in Session : Present(sessions[s]) => /\ ~Before(now, sessions[s].created)
                                                  /\ RowIsSound(sessions[s])
    /\ \A q \in Request : requests[q] # Idle =>
         /\ sessions[requests[q].session] # NoSession
         /\ ~Before(now, requests[q].at)
         /\ Present(sessions[requests[q].session])
                => RequestIsSound(requests[q], sessions[requests[q].session])

\* The two properties row by row and request by request.
LEMMA InOrderIsBoth ==
    /\ InOrder <=> TimesAreInOrder /\ SeenWhileUsable
    /\ InOrder' => TimesAreInOrder' /\ SeenWhileUsable'
    BY DEF InOrder, TimesAreInOrder, SeenWhileUsable, RowIsSound, RequestIsSound, Revoked,
           Stored, Present

\* Every step keeps the times of a session in order.
LEMMA OrderStep ==
    ASSUME TypeOK, InOrder, [Next]_vars
    PROVE  InOrder'
<1> USE DEF Stored, Present
<1>1. ASSUME NEW s \in Session, Login(s)
      PROVE  InOrder'
    <2>1. now \in Instant /\ Before(now, Later(now, TTL)) /\ ~Before(now, now)
        BY InstantsAreInstants, LaterIsLater, BeforeIsAnOrder, SessionAssumption DEF TypeOK
    <2>2. RowIsSound([created |-> now, expires |-> Later(now, TTL), seen |-> now,
                      revoked |-> NotRevoked])
        BY <2>1 DEF RowIsSound
    <2>3. \A q \in Request : requests[q] # Idle => requests[q].session # s
        BY <1>1 DEF InOrder, Login
    <2>4. sessions'[s] # NoSession
        BY <1>1 DEF TypeOK, Login, NoSession
    <2>5. ASSUME NEW t \in Session, t # s
          PROVE  sessions'[t] = sessions[t]
        BY <1>1, <2>5 DEF Login
    <2>6. sessions'[s] = [created |-> now, expires |-> Later(now, TTL), seen |-> now,
                          revoked |-> NotRevoked]
        BY <1>1 DEF TypeOK, Login
    <2>7. now' = now /\ requests' = requests
        BY <1>1 DEF Login
    <2>8. \A t \in Session : Present(sessions'[t]) => /\ ~Before(now, sessions'[t].created)
                                                      /\ RowIsSound(sessions'[t])
        BY <2>1, <2>2, <2>5, <2>6 DEF InOrder
    <2>9. ASSUME NEW q \in Request, requests[q] # Idle
          PROVE  sessions'[requests[q].session] = sessions[requests[q].session]
        BY <2>3, <2>5, <2>9, RequestParts
    <2> QED
        BY <2>7, <2>8, <2>9 DEF InOrder
<1>2. ASSUME NEW q \in Request, NEW s \in Session, Authenticate(q, s)
      PROVE  InOrder'
    <2>1. now \in Instant /\ ~Before(now, now)
        BY InstantsAreInstants, BeforeIsAnOrder DEF TypeOK
    <2>2. requests'[q] = [stage |-> "called", session |-> s, at |-> now]
          /\ \A p \in Request \ {q} : requests'[p] = requests[p]
        BY <1>2 DEF TypeOK, Authenticate
    <2> QED
        BY <1>2, <2>1, <2>2 DEF Authenticate, InOrder, RequestIsSound
<1>3. ASSUME NEW q \in Request, FindSession(q)
      PROVE  InOrder'
    <2>0. PICK s : s = requests[q].session
        OBVIOUS
    <2>1. requests[q] \in Underway /\ requests[q] # Idle /\ s \in Session
        BY <2>0, <1>3, RequestParts, StagedIsUnderway DEF FindSession
    <2>2. \/ requests'[q] = Idle
          \/ /\ requests'[q] = [requests[q] EXCEPT !.stage = "admitted"]
             /\ UsableAt(sessions[s], requests[q].at)
        BY <2>0, <1>3 DEF TypeOK, FindSession
    <2>3. \A p \in Request \ {q} : requests'[p] = requests[p]
        BY <2>0, <1>3 DEF TypeOK, FindSession
    <2>4. ASSUME requests'[q] # Idle
          PROVE  /\ requests'[q].session = s /\ requests'[q].at = requests[q].at
                 /\ Present(sessions[s]) => RequestIsSound(requests'[q], sessions[s])
        BY <2>0, <2>1, <2>2, <2>4 DEF InOrder, RequestIsSound, UsableAt, Underway
    <2> QED
        BY <2>0, <1>3, <2>1, <2>3, <2>4 DEF FindSession, InOrder
<1>4. ASSUME NEW q \in Request, TouchSession(q)
      PROVE  InOrder'
    <2>0. PICK s : s = requests[q].session
        OBVIOUS
    <2>1. requests[q] \in Underway /\ requests[q] # Idle /\ s \in Session
        BY <2>0, <1>4, RequestParts, StagedIsUnderway DEF TouchSession
    <2>2. requests'[q] = [requests[q] EXCEPT !.stage = "serving"]
          /\ \A p \in Request \ {q} : requests'[p] = requests[p]
        BY <2>0, <1>4 DEF TypeOK, TouchSession
    <2>3. \A t \in Session : t # s => sessions'[t] = sessions[t]
        BY <2>0, <1>4 DEF TypeOK, TouchSession
    <2>4. \/ sessions'[s] = sessions[s]
          \/ /\ Present(sessions[s]) /\ sessions'[s] = [sessions[s] EXCEPT !.seen = requests[q].at]
        BY <2>0, <1>4, <2>1 DEF TypeOK, TouchSession
    <2>5. /\ Present(sessions'[s]) <=> Present(sessions[s])
          /\ Present(sessions[s]) => /\ sessions'[s].created = sessions[s].created
                                     /\ sessions'[s].expires = sessions[s].expires
                                     /\ sessions'[s].revoked = sessions[s].revoked
                                     /\ RowIsSound(sessions'[s])
          /\ sessions[s] # NoSession => sessions'[s] # NoSession
        <3>1. CASE sessions'[s] = sessions[s]
            BY <2>0, <2>1, <3>1 DEF InOrder
        <3>2. CASE Present(sessions[s]) /\ sessions'[s] = [sessions[s] EXCEPT !.seen = requests[q].at]
            <4>1. sessions[s] \in Row
                BY <2>1, <3>2, RowParts
            <4>2. /\ sessions'[s].created = sessions[s].created
                  /\ sessions'[s].expires = sessions[s].expires
                  /\ sessions'[s].revoked = sessions[s].revoked
                  /\ sessions'[s].seen = requests[q].at
                  /\ sessions'[s] # NoSession /\ sessions'[s] # Purged
                BY <2>0, <3>2, <4>1 DEF Row, NoSession, Purged
            <4>3. ~Before(requests[q].at, sessions[s].created)
                  /\ Before(requests[q].at, sessions[s].expires)
                BY <2>0, <1>4, <2>1, <3>2 DEF InOrder, RequestIsSound, TouchSession
            <4> QED
                BY <2>0, <2>1, <3>2, <4>2, <4>3 DEF InOrder, RowIsSound
        <3> QED
            BY <2>0, <2>4, <3>1, <3>2
    <2>6. \A t \in Session : /\ Present(sessions'[t]) <=> Present(sessions[t])
                             /\ Present(sessions[t]) => /\ sessions'[t].created = sessions[t].created
                                                        /\ sessions'[t].expires = sessions[t].expires
                                                        /\ RowIsSound(sessions'[t])
                             /\ sessions[t] # NoSession => sessions'[t] # NoSession
        BY <2>0, <2>3, <2>5 DEF InOrder
    <2>7. /\ requests'[q].session = s /\ requests'[q].at = requests[q].at
          /\ requests'[q].stage = "serving"
        BY <2>0, <2>1, <2>2 DEF Underway
    <2>8. now' = now
        BY <2>0, <1>4 DEF TouchSession
    <2>9. ASSUME NEW t \in Session, Present(sessions'[t])
          PROVE  ~Before(now, sessions'[t].created) /\ RowIsSound(sessions'[t])
        <3>1. /\ sessions'[t].created = sessions[t].created /\ RowIsSound(sessions'[t])
              /\ Present(sessions[t])
            BY <2>6, <2>9
        <3>2. ~Before(now, sessions[t].created)
            BY <3>1 DEF InOrder
        <3> QED
            BY <3>1, <3>2
    <2>10. ASSUME NEW p \in Request, requests'[p] # Idle
           PROVE  /\ sessions'[requests'[p].session] # NoSession
                  /\ ~Before(now, requests'[p].at)
                  /\ Present(sessions'[requests'[p].session])
                         => RequestIsSound(requests'[p], sessions'[requests'[p].session])
        <3>1. CASE p = q
            BY <2>0, <2>1, <2>6, <2>7, <3>1 DEF InOrder, RequestIsSound
        <3>2. CASE p # q
            <4>1. requests'[p] = requests[p] /\ requests[p].session \in Session
                BY <2>0, <2>2, <2>10, <3>2, RequestParts
            <4> QED
                BY <2>0, <2>6, <2>10, <4>1 DEF InOrder, RequestIsSound
        <3> QED
            BY <2>0, <3>1, <3>2
    <2> QED
        BY <2>0, <2>8, <2>9, <2>10 DEF InOrder
<1>5. ASSUME NEW q \in Request, Leave(q)
      PROVE  InOrder'
    BY <1>5 DEF TypeOK, Leave, InOrder
<1>6. ASSUME NEW q \in Request, Logout(q)
      PROVE  InOrder'
    <2>1. requests[q] \in Underway /\ requests[q] # Idle /\ requests[q].session \in Session
        BY <1>6, RequestParts, StagedIsUnderway DEF Logout
    <2>2. now \in Instant /\ ~Before(now, now)
        BY InstantsAreInstants, BeforeIsAnOrder DEF TypeOK
    <2>3. requests'[q] = [requests[q] EXCEPT !.stage = "leaving", !.at = now]
          /\ \A p \in Request \ {q} : requests'[p] = requests[p]
        BY <1>6 DEF TypeOK, Logout
    <2>4. /\ requests'[q].session = requests[q].session /\ requests'[q].at = now
          /\ requests'[q].stage = "leaving"
        BY <2>1, <2>3 DEF Underway
    <2> QED
        <3>1. now' = now /\ sessions' = sessions
            BY <1>6 DEF Logout
        <3>2. Present(sessions[requests[q].session])
                  => ~Before(now, sessions[requests[q].session].created)
            BY <2>1 DEF InOrder
        <3>3. sessions[requests[q].session] # NoSession
            BY <2>1 DEF InOrder
        <3>4. Present(sessions[requests[q].session])
                  => RequestIsSound(requests'[q], sessions[requests[q].session])
            BY <2>4, <3>2 DEF RequestIsSound
        <3>5. ASSUME NEW p \in Request, requests'[p] # Idle
              PROVE  /\ sessions[requests'[p].session] # NoSession
                     /\ ~Before(now, requests'[p].at)
                     /\ Present(sessions[requests'[p].session])
                            => RequestIsSound(requests'[p], sessions[requests'[p].session])
            <4>1. CASE p = q
                BY <2>2, <2>4, <3>3, <3>4, <4>1
            <4>2. CASE p # q
                BY <2>3, <3>5, <4>2 DEF InOrder
            <4> QED
                BY <4>1, <4>2
        <3> QED
            BY <3>1, <3>5 DEF InOrder
<1>7. ASSUME NEW q \in Request, RevokeSession(q)
      PROVE  InOrder'
    <2>0. PICK s : s = requests[q].session
        OBVIOUS
    <2>1. requests[q] \in Underway /\ requests[q] # Idle /\ s \in Session
        BY <2>0, <1>7, RequestParts, StagedIsUnderway DEF RevokeSession
    <2>2. requests'[q] = Idle /\ \A p \in Request \ {q} : requests'[p] = requests[p]
        BY <2>0, <1>7 DEF TypeOK, RevokeSession
    <2>3. \A t \in Session : t # s => sessions'[t] = sessions[t]
        BY <2>0, <1>7 DEF TypeOK, RevokeSession
    <2>4. \/ sessions'[s] = sessions[s]
          \/ /\ Present(sessions[s]) /\ sessions'[s] = [sessions[s] EXCEPT !.revoked = requests[q].at]
        BY <2>0, <1>7, <2>1 DEF TypeOK, RevokeSession
    <2>5. /\ Present(sessions'[s]) <=> Present(sessions[s])
          /\ Present(sessions[s]) => /\ sessions'[s].created = sessions[s].created
                                     /\ sessions'[s].expires = sessions[s].expires
                                     /\ RowIsSound(sessions'[s])
          /\ sessions[s] # NoSession => sessions'[s] # NoSession
        <3>1. CASE sessions'[s] = sessions[s]
            BY <2>0, <2>1, <3>1 DEF InOrder
        <3>2. CASE Present(sessions[s]) /\ sessions'[s] = [sessions[s] EXCEPT !.revoked = requests[q].at]
            <4>1. sessions[s] \in Row
                BY <2>1, <3>2, RowParts
            <4>2. /\ sessions'[s].created = sessions[s].created
                  /\ sessions'[s].expires = sessions[s].expires
                  /\ sessions'[s].seen = sessions[s].seen
                  /\ sessions'[s].revoked = requests[q].at
                  /\ sessions'[s] # NoSession /\ sessions'[s] # Purged
                BY <2>0, <3>2, <4>1 DEF Row, NoSession, Purged
            <4>3. ~Before(requests[q].at, sessions[s].created)
                BY <2>0, <2>1, <3>2 DEF InOrder, RequestIsSound
            <4> QED
                BY <2>0, <2>1, <3>2, <4>2, <4>3 DEF InOrder, RowIsSound
        <3> QED
            BY <2>0, <2>4, <3>1, <3>2
    <2>6. \A t \in Session : /\ Present(sessions'[t]) <=> Present(sessions[t])
                             /\ Present(sessions[t]) => /\ sessions'[t].created = sessions[t].created
                                                        /\ sessions'[t].expires = sessions[t].expires
                                                        /\ RowIsSound(sessions'[t])
                             /\ sessions[t] # NoSession => sessions'[t] # NoSession
        BY <2>0, <2>3, <2>5 DEF InOrder
    <2>7. now' = now
        BY <2>0, <1>7 DEF RevokeSession
    <2>8. ASSUME NEW t \in Session, Present(sessions'[t])
          PROVE  ~Before(now, sessions'[t].created) /\ RowIsSound(sessions'[t])
        <3>1. /\ sessions'[t].created = sessions[t].created /\ RowIsSound(sessions'[t])
              /\ Present(sessions[t])
            BY <2>6, <2>8
        <3>2. ~Before(now, sessions[t].created)
            BY <3>1 DEF InOrder
        <3> QED
            BY <3>1, <3>2
    <2>9. ASSUME NEW p \in Request, requests'[p] # Idle
          PROVE  /\ sessions'[requests'[p].session] # NoSession
                 /\ ~Before(now, requests'[p].at)
                 /\ Present(sessions'[requests'[p].session])
                        => RequestIsSound(requests'[p], sessions'[requests'[p].session])
        <3>1. requests'[p] = requests[p] /\ requests[p].session \in Session
            BY <2>0, <2>2, <2>9, RequestParts
        <3> QED
            BY <2>0, <2>6, <2>9, <3>1 DEF InOrder, RequestIsSound
    <2> QED
        BY <2>0, <2>7, <2>8, <2>9 DEF InOrder
<1>8. CASE PurgeExpiredSessions
    <2>1. now' = now /\ requests' = requests
        BY <1>8 DEF PurgeExpiredSessions
    <2>2. \A s \in Session : sessions'[s] \in { sessions[s], Purged }
        BY <1>8 DEF PurgeExpiredSessions
    <2>3. Purged # NoSession
        BY DEF Purged, NoSession
    <2>4. \A q \in Request : requests[q] # Idle => requests[q].session \in Session
        BY RequestParts
    <2> QED
        BY <2>1, <2>2, <2>3, <2>4 DEF InOrder
<1>9. CASE ClockAdvances
    <2>1. now \in Instant /\ now' \in Instant /\ Before(now, now')
        BY <1>9, InstantsAreInstants DEF TypeOK, ClockAdvances
    <2>2. \A t \in Instant : ~Before(now, t) => ~Before(now', t)
        BY <2>1 DEF Before, Instant
    <2>3. sessions' = sessions /\ requests' = requests
        BY <1>9 DEF ClockAdvances
    <2>4. \A s \in Session : Present(sessions[s]) => sessions[s].created \in Instant
        BY RowParts
    <2>5. \A q \in Request : requests[q] # Idle => requests[q].at \in Instant
        BY RequestParts
    <2> QED
        BY <2>2, <2>3, <2>4, <2>5 DEF InOrder
<1>10. CASE UNCHANGED vars
    BY <1>10 DEF InOrder, vars
<1> QED
    BY <1>1, <1>2, <1>3, <1>4, <1>5, <1>6, <1>7, <1>8, <1>9, <1>10 DEF Next

-----------------------------------------------------------------------------
\* The inductive invariant holds at all times.
LEMMA Invariance == Spec => []IInv
<1>1. Init => IInv
    <2> SUFFICES ASSUME Init
                 PROVE  IInv
        OBVIOUS
    <2>1. TypeOK
        BY DEF Init, TypeOK
    <2>2. EndedSessionsAdmitNobody
        BY DEF Init, EndedSessionsAdmitNobody, On, Admitted, Idle
    <2>3. InOrder
        BY DEF Init, InOrder, Present
    <2> QED
        BY <2>1, <2>2, <2>3, InOrderIsBoth DEF IInv
<1>2. IInv /\ [Next]_vars => IInv'
    <2> SUFFICES ASSUME IInv, [Next]_vars
                 PROVE  IInv'
        OBVIOUS
    <2>1. TypeOK /\ EndedSessionsAdmitNobody /\ InOrder
        BY InOrderIsBoth DEF IInv
    <2>2. TypeOK' /\ EndedSessionsAdmitNobody' /\ InOrder'
        BY <2>1, TypeStep, AdmissionStep, OrderStep
    <2>3. InOrder' => TimesAreInOrder' /\ SeenWhileUsable'
        BY InOrderIsBoth
    <2> QED
        BY <2>2, <2>3 DEF IInv
<1> QED
    BY <1>1, <1>2, PTL DEF Spec

\* Every table entry is a session, a request is on a session, times are of the
\* clock.
THEOREM TypeCorrect == Spec => []TypeOK
    BY Invariance, PTL DEF IInv

\* An ended session admits nobody: who is on a revoked or purged session was
\* past ResolveSession's lookup when that happened.
THEOREM EndedSessionsAreShut == Spec => []EndedSessionsAdmitNobody
    BY Invariance, PTL DEF IInv

\* last_seen_at lies in the session's life and revoked_at not before it, though
\* requests write the readings of their clocks late and in another order.
THEOREM SessionsAreSeenAlive == Spec => []SeenWhileUsable
    BY Invariance, PTL DEF IInv

\* A revoked session's row is never written again, only deleted.
THEOREM RevocationStays == Spec => RevocationIsFinal
<1>1. ASSUME TypeOK, [Next]_vars, NEW s \in Session, Revoked(s)
      PROVE  sessions'[s] \in { sessions[s], Purged }
    <2>1. ASSUME NEW t \in Session, Login(t)
          PROVE  sessions'[s] = sessions[s]
        BY <1>1, <2>1 DEF TypeOK, Login, Revoked, Stored
    <2>2. ASSUME NEW q \in Request, TouchSession(q)
          PROVE  sessions'[s] = sessions[s]
        BY <1>1, <2>2 DEF TypeOK, TouchSession
    <2>3. ASSUME NEW q \in Request, RevokeSession(q)
          PROVE  sessions'[s] = sessions[s]
        BY <1>1, <2>3 DEF TypeOK, RevokeSession
    <2>4. ASSUME NEW q \in Request,
                 \/ \E t \in Session : Authenticate(q, t)
                 \/ FindSession(q) \/ Leave(q) \/ Logout(q)
          PROVE  sessions'[s] = sessions[s]
        BY <2>4 DEF Authenticate, FindSession, Leave, Logout
    <2>5. CASE PurgeExpiredSessions
        BY <2>5 DEF PurgeExpiredSessions
    <2>6. CASE ClockAdvances \/ UNCHANGED vars
        BY <2>6 DEF ClockAdvances, vars
    <2> QED
        BY <1>1, <2>1, <2>2, <2>3, <2>4, <2>5, <2>6 DEF Next
<1>2. TypeOK /\ [Next]_vars =>
          [\A s \in Session : Revoked(s) => sessions'[s] \in { sessions[s], Purged }]_vars
    BY <1>1
<1> QED
    BY <1>2, TypeCorrect, PTL DEF Spec, RevocationIsFinal

\* PurgeExpiredSessions compares texts, and yet deletes a usable session only in
\* the last second of its life.
THEOREM PurgesAreTimely == Spec => PurgeSparesTheLiving
<1>1. ASSUME NEW a \in Instant, NEW b \in Instant, TextLeq(a, b), Before(b, a)
      PROVE  Before(a, OneSecondAfter(b))
    BY <1>1 DEF Instant, TextLeq, TextLess, FractionTextLess, Before, OneSecondAfter
<1>2. ASSUME TypeOK, [Next]_vars, NEW s \in Session,
             Stored(s), sessions'[s] = Purged, UsableAt(sessions[s], now)
      PROVE  Before(sessions[s].expires, OneSecondAfter(now))
    <2>1. sessions[s] \in Row /\ sessions[s].expires \in Instant /\ now \in Instant
        BY <1>2, RowParts, InstantsAreInstants DEF TypeOK
    <2>2. sessions'[s] # sessions[s]
        BY <1>2 DEF Stored
    <2>3. ASSUME NEW t \in Session, Login(t)
          PROVE  FALSE
        BY <1>2, <2>2, <2>3 DEF TypeOK, Login, Stored
    <2>4. ASSUME NEW q \in Request, TouchSession(q) \/ RevokeSession(q)
          PROVE  FALSE
        <3>1. CASE TouchSession(q)
            <4>0. s = requests[q].session
                BY <2>2, <3>1, <1>2 DEF TypeOK, TouchSession
            <4>1. sessions'[s] = [sessions[s] EXCEPT !.seen = requests[q].at]
                BY <2>2, <3>1, <4>0, <1>2 DEF TypeOK, TouchSession
            <4> QED
                BY <1>2, <2>1, <4>1 DEF Row, Purged
        <3>2. CASE RevokeSession(q)
            <4>0. s = requests[q].session
                BY <2>2, <3>2, <1>2 DEF TypeOK, RevokeSession
            <4>1. sessions'[s] = [sessions[s] EXCEPT !.revoked = requests[q].at]
                BY <2>2, <3>2, <4>0, <1>2 DEF TypeOK, RevokeSession
            <4> QED
                BY <1>2, <2>1, <4>1 DEF Row, Purged
        <3> QED
            BY <2>4, <3>1, <3>2
    <2>5. ASSUME NEW q \in Request,
                 \/ \E t \in Session : Authenticate(q, t)
                 \/ FindSession(q) \/ Leave(q) \/ Logout(q)
          PROVE  FALSE
        BY <2>2, <2>5 DEF Authenticate, FindSession, Leave, Logout
    <2>6. CASE PurgeExpiredSessions
        <3>1. Purgeable(sessions[s])
            BY <2>2, <2>6 DEF PurgeExpiredSessions
        <3>2. TextLeq(sessions[s].expires, now)
            BY <1>2, <3>1 DEF Purgeable, UsableAt
        <3> QED
            BY <1>1, <1>2, <2>1, <3>2 DEF UsableAt
    <2>7. CASE ClockAdvances \/ UNCHANGED vars
        BY <2>2, <2>7 DEF ClockAdvances, vars
    <2> QED
        BY <1>2, <2>3, <2>4, <2>5, <2>6, <2>7 DEF Next
<1>3. TypeOK /\ [Next]_vars =>
          [\A s \in Session :
              Stored(s) /\ sessions'[s] = Purged /\ UsableAt(sessions[s], now)
                  => Before(sessions[s].expires, OneSecondAfter(now))]_vars
    BY <1>2
<1> QED
    BY <1>3, TypeCorrect, PTL DEF Spec, PurgeSparesTheLiving

=============================================================================
