SPECIFICATION Spec
CONSTANTS
    Session = {s1}
    Request = {q1, q2, q3}
    Instants <- MCInstants
    TTL = 1
    Retention = 1
INVARIANTS
    EndedSessionsAdmitNobody
    SeenWhileUsable
PROPERTIES
    RevocationIsFinal
    PurgeSparesTheLiving
CHECK_DEADLOCK FALSE
