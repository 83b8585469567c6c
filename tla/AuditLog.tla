------------------------------ MODULE AuditLog ------------------------------
(***************************************************************************)
(* The hash chain of audit_events: internal/store/audit.go and its two     *)
(* kinds of caller.  A store transaction that appends an event does so     *)
(* after its other writes, so it already holds the database's write lock   *)
(* when it reads the head of the chain and inserts the row.  A service     *)
(* that rejects a request appends outside any transaction                  *)
(* (rejectWithAudit): its SELECT takes no lock, and its INSERT waits for   *)
(* the lock and commits by itself.  Writes without an event are here only  *)
(* as transactions that hold the lock for a while.                         *)
(*                                                                         *)
(* SHA-256 over the contents and the previous hash is taken to be          *)
(* injective, so an event's hash is the event's own id.                    *)
(***************************************************************************)
EXTENDS Naturals, Sequences, FiniteSets

CONSTANTS
    Transaction,     \* transactions that may run at the same time
    Rejecter,        \* requests that may be rejected at the same time
    MaxEvents        \* bound on the log, where TLC stops

ASSUME AuditAssumption ==
    /\ MaxEvents \in Nat
    /\ IsFiniteSet(Rejecter)
    /\ Transaction \cap Rejecter = {}
    /\ "free" \notin Transaction

VARIABLES
    log,             \* audit_events, by id
    head,            \* the head each writer has read and not yet used
    lock             \* who holds SQLite's write lock

vars == << log, head, lock >>

-----------------------------------------------------------------------------
Writer == Transaction \cup Rejecter

Unread == MaxEvents + 1

\* SELECT event_hash ... ORDER BY id DESC LIMIT 1; 0 is the empty hash.
Newest == Len(log)

Event == [previous : 0..MaxEvents, by : Writer]

ReadHead(w) ==
    /\ head[w] = Unread
    /\ head' = [head EXCEPT ![w] = Newest]

\* Mutant: the writer keeps the head it has read for its next event.
InsertEventKeepingHead(w) ==
    /\ head[w] # Unread
    /\ Len(log) < MaxEvents
    /\ log' = Append(log, [previous |-> head[w], by |-> w])
    /\ UNCHANGED head

InsertEvent(w) ==
    /\ head[w] # Unread
    /\ Len(log) < MaxEvents
    /\ log' = Append(log, [previous |-> head[w], by |-> w])
    /\ head' = [head EXCEPT ![w] = Unread]

Init ==
    /\ log = << >>
    /\ head = [w \in Writer |-> Unread]
    /\ lock = "free"

\* The first UPDATE of a transaction.
TxTakesLock(t) ==
    /\ lock = "free"
    /\ lock' = t
    /\ UNCHANGED << log, head >>

\* appendAudit inside WithTx: its SELECT ...
TxReadsHead(t) ==
    /\ lock = t
    /\ ReadHead(t)
    /\ UNCHANGED << log, lock >>

\* ... and its INSERT, which others see once the transaction commits.
TxInsertsAndCommits(t) ==
    /\ lock = t
    /\ InsertEvent(t)
    /\ lock' = "free"

\* ClaimRecoveryJob, the one transaction without an event.
TxCommitsWithoutEvent(t) ==
    /\ lock = t /\ head[t] = Unread
    /\ lock' = "free"
    /\ UNCHANGED << log, head >>

\* Any error before the commit, the process's death included.
TxRollsBack(t) ==
    /\ lock = t
    /\ head' = [head EXCEPT ![t] = Unread]
    /\ lock' = "free"
    /\ UNCHANGED log

\* AppendAudit on the connection pool: its SELECT ...
RejectReadsHead(r) == ReadHead(r) /\ UNCHANGED << log, lock >>

\* Mutant: the insert does not wait for the write lock.
RejectInsertsAnyway(r) == InsertEvent(r) /\ UNCHANGED lock

\* ... and its INSERT.
RejectInserts(r) ==
    /\ lock = "free"
    /\ InsertEvent(r)
    /\ UNCHANGED lock

\* The request is cancelled or the INSERT fails, busy_timeout included.
RejectGivesUp(r) ==
    /\ head[r] # Unread
    /\ head' = [head EXCEPT ![r] = Unread]
    /\ UNCHANGED << log, lock >>

Next ==
    \/ \E t \in Transaction : \/ TxTakesLock(t) \/ TxReadsHead(t)
                             \/ TxInsertsAndCommits(t) \/ TxCommitsWithoutEvent(t)
                             \/ TxRollsBack(t)
    \/ \E r \in Rejecter : \/ RejectReadsHead(r) \/ RejectInserts(r)
                          \/ RejectGivesUp(r)

Spec == Init /\ [][Next]_vars

-----------------------------------------------------------------------------
TypeOK ==
    /\ log \in Seq(Event) /\ Len(log) <= MaxEvents
    /\ head \in [Writer -> 0..Unread]
    /\ lock \in Transaction \cup {"free"}

\* The event of a committed change is linked to the event just before it,
\* whatever other transactions and rejections run beside it: appendAudit runs
\* under the write lock the transaction's first UPDATE took.
CommittedEventsAreChained ==
    \A i \in DOMAIN log : log[i].by \in Transaction => log[i].previous = i - 1

Successors(h) == { i \in DOMAIN log : log[i].previous = h }

\* How far the chain can fray: besides one rightful successor an event has at
\* most one for each rejection that was being written while it was the head.
ForksAreBounded ==
    \A h \in 0..Len(log) : Cardinality(Successors(h)) <= 1 + Cardinality(Rejecter)

=============================================================================
