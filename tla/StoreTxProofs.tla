---------------------------- MODULE StoreTxProofs ----------------------------
(***************************************************************************)
(* For any transactions, rejections and rows.  Of the audit log: the event *)
(* of a committed change is chained to the event just before it, and no    *)
(* event has more successors than one and one for each rejected request.   *)
(* Of the store: the writer works on the newest state, and a store method, *)
(* audited or not, is one step of AtomicStore.                             *)
(***************************************************************************)
EXTENDS StoreTx, FiniteSetTheorems, SequenceTheorems, TLAPS

\* Only the transaction that holds the lock has read the head, and the log has
\* not grown since: this is what makes its link the right one.
ReadersHoldTheLock ==
    \A t \in Transaction : head[t] # Unread => lock = t /\ head[t] = Newest

\* A head that was read is that of some event of the log, however long ago.
HeadsAreOfTheLog == \A w \in Writer : head[w] # Unread => head[w] \in 0..Len(log)

\* Each rejected request links its events to later and later heads, and a head it
\* has read is later than those it has used: between two of its events it reads
\* the head anew, and the first event has made the log longer.
RejectionsMoveOn ==
    /\ \A i \in DOMAIN log : log[i].previous < i
    /\ \A i \in DOMAIN log : log[i].by \in Rejecter /\ head[log[i].by] # Unread
           => log[i].previous < head[log[i].by]
    /\ \A i, j \in DOMAIN log : log[i].by \in Rejecter /\ log[j].by = log[i].by /\ i < j
           => log[i].previous < log[j].previous

IInv == /\ TypeOK /\ ReadersHoldTheLock /\ HeadsAreOfTheLog
        /\ CommittedEventsAreChained /\ RejectionsMoveOn

\* Facts about one insertion: the log stays a log, and what it grows by.
LEMMA Insertion ==
    ASSUME TypeOK, NEW w \in Writer, InsertEvent(w)
    PROVE  /\ log' \in Seq(Event) /\ Len(log) \in Nat
           /\ DOMAIN log = 1..Len(log) /\ DOMAIN log' = 1..(Len(log) + 1)
           /\ \A i \in 1..Len(log) : log'[i] = log[i]
           /\ log'[Len(log) + 1] = [previous |-> head[w], by |-> w]
<1> DEFINE row == [previous |-> head[w], by |-> w]
<1>1. row \in Event
    <2>1. head[w] \in 0..(MaxEvents + 1) /\ head[w] # MaxEvents + 1
        BY DEF TypeOK, InsertEvent, Unread
    <2>2. head[w] \in 0..MaxEvents
        BY <2>1, AuditAssumption
    <2> QED
        BY <2>2 DEF Event
<1>2. log \in Seq(Event) /\ log' = Append(log, row)
    BY DEF TypeOK, InsertEvent
<1> HIDE DEF row
<1>3. /\ log' \in Seq(Event) /\ Len(log) \in Nat
      /\ DOMAIN log = 1..Len(log) /\ DOMAIN log' = 1..(Len(log) + 1)
      /\ \A i \in 1..Len(log) : log'[i] = log[i]
      /\ log'[Len(log) + 1] = row
    BY <1>1, <1>2, AppendProperties, LenProperties
<1> QED
    BY <1>3 DEF row

\* The log's length and its newest position are within their bounds.
LEMMA LengthOfLog ==
    ASSUME TypeOK
    PROVE  Len(log) \in 0..MaxEvents /\ Newest \in 0..Unread /\ Newest # Unread
<1>1. Len(log) \in Nat
    BY LenProperties DEF TypeOK
<1> QED
    BY <1>1, AuditAssumption DEF TypeOK, Newest, Unread

\* The fields of an event of the log.
LEMMA EventFields ==
    ASSUME TypeOK, NEW i \in DOMAIN log
    PROVE  /\ DOMAIN log = 1..Len(log) /\ Len(log) \in Nat /\ i \in 1..Len(log)
           /\ log[i].previous \in Nat /\ log[i].by \in Writer
<1>1. /\ log \in Seq(Event) /\ DOMAIN log = 1..Len(log) /\ Len(log) \in Nat
    BY LenProperties DEF TypeOK
<1>2. log[i] \in Event
    BY <1>1, ElementOfSeq
<1>3. \A e \in Event : e.previous \in Nat /\ e.by \in Writer
    BY AuditAssumption DEF Event
<1> QED
    BY <1>1, <1>2, <1>3

\* The type is inductive.
LEMMA TypeStep ==
    ASSUME TypeOK, [Next]_vars
    PROVE  TypeOK'
<1>a. Unread \in 0..Unread
    BY AuditAssumption DEF Unread
<1>b. Transaction \subseteq Writer /\ Rejecter \subseteq Writer
    BY DEF Writer
<1>1. ASSUME NEW w \in Writer, ReadHead(w)
      PROVE  head' \in [Writer -> 0..Unread]
    BY <1>1, LengthOfLog DEF ReadHead, TypeOK
<1>2. ASSUME NEW w \in Writer, InsertEvent(w)
      PROVE  /\ head' \in [Writer -> 0..Unread]
             /\ log' \in Seq(Event) /\ Len(log') <= MaxEvents
    <2>1. /\ log' \in Seq(Event) /\ DOMAIN log' = 1..(Len(log) + 1) /\ Len(log) \in Nat
        BY <1>2, Insertion
    <2>2. Len(log') = Len(log) + 1
        BY <2>1, LenProperties
    <2>3. Len(log) < MaxEvents
        BY <1>2 DEF InsertEvent
    <2>4. head' \in [Writer -> 0..Unread]
        BY <1>2, <1>a DEF InsertEvent, TypeOK
    <2> QED
        BY <2>1, <2>2, <2>3, <2>4, AuditAssumption
<1>3. ASSUME NEW w \in Writer, head' = [head EXCEPT ![w] = Unread]
      PROVE  head' \in [Writer -> 0..Unread]
    BY <1>3, <1>a DEF TypeOK
<1>4. ASSUME NEW t \in Transaction, \/ TxTakesLock(t) \/ TxReadsHead(t)
                                    \/ TxInsertsAndCommits(t) \/ TxCommitsWithoutEvent(t)
                                    \/ TxRollsBack(t)
      PROVE  TypeOK'
    BY <1>4, <1>b, <1>1, <1>2, <1>3
       DEF TxTakesLock, TxReadsHead, TxInsertsAndCommits, TxCommitsWithoutEvent, TxRollsBack,
           TypeOK
<1>5. ASSUME NEW r \in Rejecter, \/ RejectReadsHead(r) \/ RejectInserts(r)
                                 \/ RejectGivesUp(r)
      PROVE  TypeOK'
    BY <1>5, <1>b, <1>1, <1>2, <1>3
       DEF RejectReadsHead, RejectInserts, RejectGivesUp, TypeOK
<1>6. CASE UNCHANGED vars
    BY <1>6 DEF vars, TypeOK
<1> QED
    BY <1>4, <1>5, <1>6 DEF Next

\* Who reads the head under the lock keeps it true: others insert only while
\* the lock is free.
LEMMA ReadersStep ==
    ASSUME TypeOK, ReadersHoldTheLock, [Next]_vars
    PROVE  ReadersHoldTheLock'
<1> SUFFICES ASSUME NEW u \in Transaction, head'[u] # Unread
             PROVE  lock' = u /\ head'[u] = Len(log')
    BY DEF ReadersHoldTheLock, Newest, Unread
<1>0. head[u] # Unread => lock = u /\ head[u] = Len(log)
    BY DEF ReadersHoldTheLock, Newest
<1>a. /\ Transaction \subseteq Writer /\ Rejecter \subseteq Writer
      /\ Transaction \cap Rejecter = {} /\ u # "free"
    BY AuditAssumption DEF Writer
<1>b. head \in [Writer -> 0..Unread]
    BY DEF TypeOK
<1>1. ASSUME NEW t \in Transaction, TxTakesLock(t)
      PROVE  lock' = u /\ head'[u] = Len(log')
    BY <1>0, <1>1, <1>a DEF TxTakesLock
<1>2. ASSUME NEW t \in Transaction, TxReadsHead(t)
      PROVE  lock' = u /\ head'[u] = Len(log')
    BY <1>0, <1>2, <1>a, <1>b DEF TxReadsHead, ReadHead, Newest
<1>3. ASSUME NEW t \in Transaction, TxInsertsAndCommits(t) \/ TxRollsBack(t)
      PROVE  lock' = u /\ head'[u] = Len(log')
    <2>1. lock = t /\ head' = [head EXCEPT ![t] = Unread]
        BY <1>3 DEF TxInsertsAndCommits, TxRollsBack, InsertEvent
    <2> QED
        BY <1>0, <1>a, <1>b, <2>1
<1>4. ASSUME NEW r \in Rejecter, RejectInserts(r)
      PROVE  lock' = u /\ head'[u] = Len(log')
    <2>1. lock = "free" /\ head' = [head EXCEPT ![r] = Unread]
        BY <1>4 DEF RejectInserts, InsertEvent
    <2> QED
        BY <1>0, <1>a, <1>b, <2>1
<1>5. ASSUME NEW r \in Rejecter, RejectReadsHead(r) \/ RejectGivesUp(r)
      PROVE  lock' = u /\ head'[u] = Len(log')
    <2>1. r # u /\ lock' = lock /\ log' = log /\ head'[u] = head[u]
        BY <1>5, <1>a, <1>b DEF RejectReadsHead, RejectGivesUp, ReadHead
    <2> QED
        BY <1>0, <2>1
<1>6. ASSUME NEW t \in Transaction, TxCommitsWithoutEvent(t)
      PROVE  lock' = u /\ head'[u] = Len(log')
    BY <1>0, <1>6 DEF TxCommitsWithoutEvent
<1>7. CASE UNCHANGED vars
    BY <1>0, <1>7 DEF vars
<1> QED
    BY <1>1, <1>2, <1>3, <1>4, <1>5, <1>6, <1>7 DEF Next

\* Every step leaves the heads that were read within the log.
LEMMA HeadsStep ==
    ASSUME TypeOK, HeadsAreOfTheLog, [Next]_vars
    PROVE  HeadsAreOfTheLog'
<1> SUFFICES ASSUME NEW w \in Writer, head'[w] # Unread
             PROVE  head'[w] \in 0..Len(log')
    BY DEF HeadsAreOfTheLog, Unread
<1>a. /\ Transaction \subseteq Writer /\ Rejecter \subseteq Writer
      /\ head \in [Writer -> 0..Unread] /\ Len(log) \in Nat
    BY LengthOfLog DEF Writer, TypeOK
<1>b. head[w] # Unread => head[w] \in 0..Len(log)
    BY DEF HeadsAreOfTheLog
<1>1. ASSUME NEW v \in Writer, ReadHead(v), log' = log
      PROVE  head'[w] \in 0..Len(log')
    BY <1>1, <1>a, <1>b DEF ReadHead, Newest
<1>2. ASSUME NEW v \in Writer, InsertEvent(v)
      PROVE  head'[w] \in 0..Len(log')
    <2>1. /\ log' \in Seq(Event) /\ DOMAIN log' = 1..(Len(log) + 1)
        BY <1>2, Insertion
    <2>2. Len(log') = Len(log) + 1
        BY <2>1, <1>a, LenProperties
    <2>3. v # w /\ head'[w] = head[w]
        BY <1>2, <1>a DEF InsertEvent
    <2> QED
        BY <2>2, <2>3, <1>a, <1>b
<1>3. ASSUME NEW v \in Writer, head' = head \/ head' = [head EXCEPT ![v] = Unread],
             log' = log
      PROVE  head'[w] \in 0..Len(log')
    BY <1>3, <1>a, <1>b
<1>4. ASSUME NEW t \in Transaction, \/ TxTakesLock(t) \/ TxReadsHead(t)
                                    \/ TxInsertsAndCommits(t) \/ TxCommitsWithoutEvent(t)
                                    \/ TxRollsBack(t)
      PROVE  head'[w] \in 0..Len(log')
    BY <1>4, <1>a, <1>1, <1>2, <1>3
       DEF TxTakesLock, TxReadsHead, TxInsertsAndCommits, TxCommitsWithoutEvent, TxRollsBack
<1>5. ASSUME NEW r \in Rejecter, \/ RejectReadsHead(r) \/ RejectInserts(r)
                                 \/ RejectGivesUp(r)
      PROVE  head'[w] \in 0..Len(log')
    BY <1>5, <1>a, <1>1, <1>2, <1>3 DEF RejectReadsHead, RejectInserts, RejectGivesUp
<1>6. CASE UNCHANGED vars
    BY <1>6, <1>b DEF vars
<1> QED
    BY <1>4, <1>5, <1>6 DEF Next

\* An insertion by a rejected request uses up the head it has read.
LEMMA RejectionsStep ==
    ASSUME TypeOK, HeadsAreOfTheLog, RejectionsMoveOn, [Next]_vars
    PROVE  RejectionsMoveOn'
<1>a. /\ Transaction \subseteq Writer /\ Rejecter \subseteq Writer
      /\ Transaction \cap Rejecter = {}
      /\ head \in [Writer -> 0..Unread] /\ Len(log) \in Nat /\ DOMAIN log = 1..Len(log)
    BY AuditAssumption, LengthOfLog, LenProperties DEF Writer, TypeOK
<1>b. \A i \in DOMAIN log : log[i].previous \in Nat /\ log[i].by \in Writer
    BY EventFields
<1>1. ASSUME NEW w \in Writer, InsertEvent(w)
      PROVE  RejectionsMoveOn'
    <2>1. /\ DOMAIN log' = 1..(Len(log) + 1)
          /\ \A i \in 1..Len(log) : log'[i] = log[i]
          /\ log'[Len(log) + 1] = [previous |-> head[w], by |-> w]
        BY <1>1, Insertion
    <2> DEFINE n == Len(log) + 1
    <2>2. log'[n].previous = head[w] /\ log'[n].by = w
        BY <2>1
    <2>3. head[w] \in 0..Len(log) /\ head[w] # Unread
        BY <1>1 DEF InsertEvent, HeadsAreOfTheLog
    <2>4. head' = [head EXCEPT ![w] = Unread]
        BY <1>1 DEF InsertEvent
    <2> HIDE DEF n
    <2>5. \A i \in DOMAIN log' : (i \in DOMAIN log /\ log'[i] = log[i]) \/ i = n
        BY <1>a, <2>1 DEF n
    <2>n. n = Len(log) + 1
        BY DEF n
    <2>6. \A i \in DOMAIN log' : log'[i].previous < i
        BY <1>a, <1>b, <2>2, <2>3, <2>5, <2>n DEF RejectionsMoveOn
    <2>7. ASSUME NEW i \in DOMAIN log', log'[i].by \in Rejecter,
                 head'[log'[i].by] # Unread
          PROVE  log'[i].previous < head'[log'[i].by]
        <3>1. log'[i].by # w /\ head'[log'[i].by] = head[log'[i].by]
            BY <1>a, <2>4, <2>7
        <3>2. i \in DOMAIN log /\ log'[i] = log[i]
            BY <2>2, <2>5, <3>1
        <3> QED
            BY <2>7, <3>1, <3>2 DEF RejectionsMoveOn
    <2>8. ASSUME NEW i \in DOMAIN log', NEW j \in DOMAIN log', log'[i].by \in Rejecter,
                 log'[j].by = log'[i].by, i < j
          PROVE  log'[i].previous < log'[j].previous
        <3>1. CASE j \in DOMAIN log /\ log'[j] = log[j]
            <4>1. i < n
                BY <1>a, <2>1, <2>8, <2>n, <3>1
            <4>2. i \in DOMAIN log /\ log'[i] = log[i]
                BY <1>a, <2>1, <2>5, <2>n, <4>1
            <4> QED
                BY <2>8, <3>1, <4>2 DEF RejectionsMoveOn
        <3>2. CASE j = n
            <4>1. i \in DOMAIN log /\ log'[i] = log[i]
                BY <1>a, <2>n, <2>5, <2>8, <3>2
            <4>2. log[i].by = w
                BY <2>2, <2>8, <3>2, <4>1
            <4> QED
                BY <2>2, <2>3, <2>8, <3>2, <4>1, <4>2 DEF RejectionsMoveOn
        <3> QED
            BY <2>5, <3>1, <3>2
    <2> QED
        BY <2>6, <2>7, <2>8 DEF RejectionsMoveOn, Unread
<1>2. ASSUME NEW w \in Writer, ReadHead(w), log' = log
      PROVE  RejectionsMoveOn'
    <2>1. \A i \in DOMAIN log : log[i].previous < Len(log)
        BY <1>a, <1>b DEF RejectionsMoveOn
    <2> QED
        BY <1>2, <1>a, <1>b, <2>1 DEF ReadHead, Newest, RejectionsMoveOn, Unread
<1>3. ASSUME NEW w \in Writer, head' = [head EXCEPT ![w] = Unread], log' = log
      PROVE  RejectionsMoveOn'
    BY <1>3, <1>a, <1>b DEF RejectionsMoveOn, Unread
<1>4. ASSUME NEW t \in Transaction, \/ TxTakesLock(t) \/ TxReadsHead(t)
                                    \/ TxInsertsAndCommits(t) \/ TxCommitsWithoutEvent(t)
                                    \/ TxRollsBack(t)
      PROVE  RejectionsMoveOn'
    <2>1. CASE TxTakesLock(t) \/ TxCommitsWithoutEvent(t)
        BY <2>1 DEF TxTakesLock, TxCommitsWithoutEvent, RejectionsMoveOn, Unread
    <2> QED
        BY <1>4, <1>a, <1>1, <1>2, <1>3, <2>1
           DEF TxReadsHead, TxInsertsAndCommits, TxRollsBack
<1>5. ASSUME NEW r \in Rejecter, \/ RejectReadsHead(r) \/ RejectInserts(r)
                                 \/ RejectGivesUp(r)
      PROVE  RejectionsMoveOn'
    BY <1>5, <1>a, <1>1, <1>2, <1>3 DEF RejectReadsHead, RejectInserts, RejectGivesUp
<1>6. CASE UNCHANGED vars
    BY <1>6 DEF vars, RejectionsMoveOn, Unread
<1> QED
    BY <1>4, <1>5, <1>6 DEF Next

\* A committed event is linked to the newest one, which its transaction has read
\* under the lock.
LEMMA ChainedStep ==
    ASSUME TypeOK, ReadersHoldTheLock, CommittedEventsAreChained, [Next]_vars
    PROVE  CommittedEventsAreChained'
<1>a. /\ Transaction \subseteq Writer /\ Rejecter \subseteq Writer
      /\ Transaction \cap Rejecter = {}
    BY AuditAssumption DEF Writer
<1>1. ASSUME NEW w \in Writer, InsertEvent(w), w \in Transaction => head[w] = Len(log)
      PROVE  CommittedEventsAreChained'
    <2> SUFFICES ASSUME NEW i \in DOMAIN log', log'[i].by \in Transaction
                 PROVE  log'[i].previous = i - 1
        BY DEF CommittedEventsAreChained
    <2>1. /\ Len(log) \in Nat /\ DOMAIN log = 1..Len(log) /\ DOMAIN log' = 1..(Len(log) + 1)
          /\ \A j \in 1..Len(log) : log'[j] = log[j]
          /\ log'[Len(log) + 1] = [previous |-> head[w], by |-> w]
        BY <1>1, Insertion
    <2>2. CASE i \in 1..Len(log)
        BY <2>1, <2>2 DEF CommittedEventsAreChained
    <2>3. CASE i = Len(log) + 1
        <3>1. log'[i].by = w /\ log'[i].previous = head[w]
            BY <2>1, <2>3
        <3> QED
            BY <1>1, <2>1, <2>3, <3>1
    <2> QED
        BY <2>1, <2>2, <2>3
<1>2. ASSUME NEW t \in Transaction, TxInsertsAndCommits(t)
      PROVE  CommittedEventsAreChained'
    <2>1. InsertEvent(t) /\ head[t] # Unread
        BY <1>2 DEF TxInsertsAndCommits, InsertEvent
    <2>2. head[t] = Len(log)
        BY <2>1 DEF ReadersHoldTheLock, Newest
    <2> QED
        BY <1>1, <1>a, <2>1, <2>2
<1>3. ASSUME NEW r \in Rejecter, RejectInserts(r)
      PROVE  CommittedEventsAreChained'
    BY <1>1, <1>3, <1>a DEF RejectInserts
<1>4. ASSUME log' = log
      PROVE  CommittedEventsAreChained'
    BY <1>4 DEF CommittedEventsAreChained
<1>5. ASSUME NEW t \in Transaction, \/ TxTakesLock(t) \/ TxReadsHead(t)
                                    \/ TxCommitsWithoutEvent(t) \/ TxRollsBack(t)
      PROVE  CommittedEventsAreChained'
    BY <1>4, <1>5 DEF TxTakesLock, TxReadsHead, TxCommitsWithoutEvent, TxRollsBack
<1>6. ASSUME NEW r \in Rejecter, RejectReadsHead(r) \/ RejectGivesUp(r)
      PROVE  CommittedEventsAreChained'
    BY <1>4, <1>6 DEF RejectReadsHead, RejectGivesUp
<1>7. CASE UNCHANGED vars
    BY <1>4, <1>7 DEF vars
<1> QED
    BY <1>2, <1>3, <1>5, <1>6, <1>7 DEF Next

-----------------------------------------------------------------------------
\* The parts of the invariant, established and kept together.
THEOREM InvariantHolds == Spec => []IInv
<1>1. Init => IInv
    <2> SUFFICES ASSUME Init
                 PROVE  IInv
        OBVIOUS
    <2>1. TypeOK
        BY EmptySeq, AuditAssumption DEF Init, TypeOK, Unread
    <2>2. ReadersHoldTheLock
        BY DEF Init, ReadersHoldTheLock, Writer
    <2>3. CommittedEventsAreChained
        BY DEF Init, CommittedEventsAreChained
    <2>4. HeadsAreOfTheLog /\ RejectionsMoveOn
        BY DEF Init, HeadsAreOfTheLog, RejectionsMoveOn
    <2> QED
        BY <2>1, <2>2, <2>3, <2>4 DEF IInv
<1>2. IInv /\ [Next]_vars => IInv'
    BY TypeStep, ReadersStep, HeadsStep, ChainedStep, RejectionsStep DEF IInv
<1> QED
    BY <1>1, <1>2, PTL DEF Spec

\* The log and the writers' heads are of their types (TypeOK).
THEOREM TypeCorrect == Spec => []TypeOK
<1>1. IInv => TypeOK
    BY DEF IInv
<1> QED
    BY <1>1, InvariantHolds, PTL

\* Every committed change is chained to the event just before it.
THEOREM CommittedChangesAreChained == Spec => []CommittedEventsAreChained
<1>1. IInv => CommittedEventsAreChained
    BY DEF IInv
<1> QED
    BY <1>1, InvariantHolds, PTL

\* Of the successors of an event, one is a committed change's, and every rejected
\* request has at most one.
LEMMA FewSuccessors ==
    ASSUME IInv, NEW h \in 0..Len(log)
    PROVE  Cardinality(Successors(h)) <= 1 + Cardinality(Rejecter)
<1> DEFINE T == { i \in Successors(h) : log[i].by \in Transaction }
           R == { i \in Successors(h) : log[i].by \in Rejecter }
           f == [i \in R |-> log[i].by]
<1>a. DOMAIN log = 1..Len(log) /\ Len(log) \in Nat
    BY LengthOfLog, LenProperties DEF IInv, TypeOK
<1>b. \A i \in DOMAIN log : log[i].previous \in Nat /\ log[i].by \in Transaction \cup Rejecter
    BY EventFields DEF IInv, Writer
<1>1. Successors(h) = T \cup R
    BY <1>b DEF Successors
<1>2. T \in SUBSET {h + 1}
    <2>1. ASSUME NEW i \in T
          PROVE  i = h + 1
        BY <1>a, <2>1 DEF Successors, IInv, CommittedEventsAreChained
    <2> QED
        BY <2>1
<1>3. IsFiniteSet({h + 1}) /\ Cardinality({h + 1}) = 1
    BY FS_Singleton
<1>4. f \in [R -> Rejecter]
    OBVIOUS
<1>5. ASSUME NEW i \in R, NEW j \in R, f[i] = f[j]
      PROVE  i = j
    <2>1. /\ i \in DOMAIN log /\ j \in DOMAIN log /\ log[i].by \in Rejecter
          /\ log[i].by = log[j].by /\ log[i].previous = h /\ log[j].previous = h
        BY <1>5 DEF Successors
    <2>2. ~(i < j) /\ ~(j < i)
        BY <1>b, <2>1 DEF IInv, RejectionsMoveOn
    <2> QED
        BY <1>a, <2>1, <2>2
<1> HIDE DEF T, R
<1>6. f \in Injection(R, Rejecter)
    BY <1>4, <1>5 DEF Injection, IsInjective
<1> HIDE DEF f
<1>7. IsFiniteSet(Rejecter)
    BY AuditAssumption
<1>8. IsFiniteSet(R) /\ Cardinality(R) <= Cardinality(Rejecter)
    BY <1>6, <1>7, FS_Injection
<1>9. IsFiniteSet(T) /\ Cardinality(T) <= 1
    BY <1>2, <1>3, FS_Subset
<1>10. Cardinality(T \cup R) = Cardinality(T) + Cardinality(R) - Cardinality(T \cap R)
    BY <1>8, <1>9, FS_Union
<1>11. /\ Cardinality(T) \in Nat /\ Cardinality(R) \in Nat
       /\ Cardinality(Rejecter) \in Nat
    BY <1>7, <1>8, <1>9, FS_CardinalityType
<1>12. IsFiniteSet(T \cap R)
    BY <1>8, FS_Intersection
<1>13. Cardinality(T \cap R) \in Nat
    BY <1>12, FS_CardinalityType
<1> QED
    BY <1>1, <1>8, <1>9, <1>10, <1>11, <1>13

\* The chain frays no further than rejected requests run beside it (ForksAreBounded).
THEOREM ForksAreFew == Spec => []ForksAreBounded
<1>1. IInv => ForksAreBounded
    BY FewSuccessors DEF ForksAreBounded
<1> QED
    BY <1>1, InvariantHolds, PTL

-----------------------------------------------------------------------------
\* What a write needs and takes, and what it leaves of the audit log.
LEMMA LockIsHeld ==
    ASSUME NEW t \in Transaction, Locks(t)
    PROVE  /\ lock = t \/ (lock = "free" /\ tx[t].fresh)
           /\ lock' = t /\ log' = log /\ head' = head
           /\ [Next]_vars
<1>1. CASE lock = t /\ UNCHANGED vars
    BY <1>1 DEF vars
<1>2. CASE tx[t].fresh /\ TxTakesLock(t)
    BY <1>2 DEF TxTakesLock, Next
<1> QED
    BY <1>1, <1>2 DEF Locks

\* To the audit log, the rows and snapshots are none of its business.
LEMMA StoreStep ==
    ASSUME [StoreNext]_storeVars
    PROVE  [Next]_vars
<1>1. ASSUME NEW t \in Transaction,
             \/ \E r \in Object : TxWrites(t, r)
             \/ \E j \in Job : TxClaims(t, j)
      PROVE  [Next]_vars
    BY <1>1, LockIsHeld DEF TxWrites, TxClaims
<1>2. ASSUME NEW t \in Transaction,
             TxReads(t) \/ TxLooksUpHead(t) \/ TxCommits(t) \/ ClaimCommits(t) \/ TxFails(t)
      PROVE  [Next]_vars
    BY <1>2 DEF TxReads, TxLooksUpHead, TxCommits, ClaimCommits, TxFails, Next
<1>3. ASSUME NEW q \in Rejecter, RejectPrepares(q) \/ RejectAppends(q)
      PROVE  [Next]_vars
    BY <1>3 DEF RejectPrepares, RejectAppends, Next
<1>4. CASE \/ \E r \in Row : Inserts(r)
           \/ \E j \in Job : UpdatesJob(j)
           \/ WritesElsewhere
    BY <1>4 DEF Inserts, UpdatesJob, StatementWrites, WritesElsewhere, vars
<1>5. CASE UNCHANGED storeVars
    BY <1>5 DEF storeVars
<1> QED
    BY <1>1, <1>2, <1>3, <1>4, <1>5 DEF StoreNext

\* Every behaviour of the store is one of its audit log.
LEMMA StoreIsAnAuditLog == StoreSpec => Spec
<1>1. StoreInit => Init
    BY DEF StoreInit
<1>2. [StoreNext]_storeVars => [Next]_vars
    BY StoreStep
<1> QED
    BY <1>1, <1>2, PTL DEF StoreSpec, Spec

-----------------------------------------------------------------------------
\* A snapshot that is still fresh shows the newest state.
FreshIsNewest == \A t \in Transaction : tx[t].fresh => tx[t].seen = rows

\* What the holder of the lock has written: objects, or one job that exists.  Only
\* in the first case it has looked up the head for an event.
WritersHaveWritten ==
    \A t \in Transaction : lock = t =>
        /\ tx[t].wrote # {}
        /\ \/ tx[t].wrote \subseteq Object
           \/ /\ head[t] = Unread
              /\ \E j \in Job : tx[t].wrote = {j} /\ tx[t].seen[j] > 0

SInv == /\ StoreTypeOK /\ ReadersHoldTheLock /\ HeadsAreOfTheLog
        /\ FreshIsNewest /\ WriterIsUpToDate /\ WritersHaveWritten

\* What a commit leaves of the open snapshots.
LEMMA OutdatedSnapshots ==
    ASSUME StoreTypeOK
    PROVE  /\ Outdated \in [Transaction -> Tx \cup {NotBegun}]
           /\ \A t \in Transaction : ~Outdated[t].fresh
<1> SUFFICES ASSUME NEW t \in Transaction
             PROVE  Outdated[t] \in Tx \cup {NotBegun} /\ ~Outdated[t].fresh
    BY DEF Outdated
<1>1. CASE Open(t)
    <2>1. tx[t] \in Tx
        BY <1>1 DEF StoreTypeOK, Open
    <2>2. Outdated[t] = [tx[t] EXCEPT !.fresh = FALSE]
        BY <1>1 DEF Outdated
    <2> QED
        BY <2>1, <2>2 DEF Tx
<1>2. CASE ~Open(t)
    BY <1>2 DEF Outdated, NotBegun
<1> QED
    BY <1>1, <1>2

\* What a method opens with.
LEMMA OpenedSnapshot ==
    ASSUME StoreTypeOK, NEW t \in Transaction, TxReads(t)
    PROVE  /\ tx' \in [Transaction -> Tx \cup {NotBegun}]
           /\ tx'[t].seen = rows
           /\ tx'[t] # NotBegun
           /\ \A u \in Transaction \ {t} : tx'[u] = tx[u]
<1> DEFINE snapshot == [seen |-> rows, wrote |-> {}, fresh |-> TRUE]
<1>1. snapshot \in Tx
    BY DEF StoreTypeOK, Tx
<1>2. snapshot # NotBegun /\ snapshot.seen = rows
    <2>1. snapshot.fresh /\ ~NotBegun.fresh /\ snapshot.seen = rows
        BY DEF NotBegun
    <2> QED
        BY <2>1
<1>3. tx \in [Transaction -> Tx \cup {NotBegun}] /\ tx' = [tx EXCEPT ![t] = snapshot]
    BY DEF StoreTypeOK, TxReads
<1> HIDE DEF snapshot
<1> QED
    BY <1>1, <1>2, <1>3

\* What a write changes of its transaction.
LEMMA WrittenRows ==
    ASSUME StoreTypeOK, NEW t \in Transaction, Open(t), NEW W \in SUBSET Row,
           tx' = [tx EXCEPT ![t].wrote = W]
    PROVE  /\ tx' \in [Transaction -> Tx \cup {NotBegun}]
           /\ tx'[t] # NotBegun
           /\ tx'[t].seen = tx[t].seen /\ tx'[t].fresh = tx[t].fresh /\ tx'[t].wrote = W
           /\ \A u \in Transaction \ {t} : tx'[u] = tx[u]
<1> DEFINE new == [tx[t] EXCEPT !.wrote = W]
<1>1. tx[t] \in Tx
    BY DEF StoreTypeOK, Open
<1>2. /\ new \in Tx /\ new.seen = tx[t].seen /\ new.fresh = tx[t].fresh /\ new.wrote = W
    BY <1>1 DEF Tx
<1>3. \A x \in Tx : x # NotBegun
    <2>1. \A x \in Tx : DOMAIN x = {"seen", "wrote", "fresh"}
        BY DEF Tx
    <2>2. DOMAIN NotBegun = {"fresh"}
        BY DEF NotBegun
    <2> QED
        BY <2>1, <2>2
<1>4. tx \in [Transaction -> Tx \cup {NotBegun}] /\ tx' = [tx EXCEPT ![t] = new]
    BY DEF StoreTypeOK
<1> HIDE DEF new
<1> QED
    BY <1>2, <1>3, <1>4

\* Both kinds of write, in one form.
LEMMA WriteOfATransaction ==
    ASSUME StoreTypeOK, NEW t \in Transaction,
           \/ \E r \in Object : TxWrites(t, r)
           \/ \E j \in Job : TxClaims(t, j)
    PROVE  /\ Open(t) /\ Locks(t) /\ rows' = rows /\ saw' = saw
           /\ \E W \in SUBSET Row :
                /\ tx' = [tx EXCEPT ![t].wrote = W]
                /\ W # {}
                /\ \/ W \subseteq Object
                   \/ tx[t].wrote = {} /\ \E j \in Job : W = {j} /\ tx[t].seen[j] > 0
<1>1. ASSUME NEW r \in Object, TxWrites(t, r)
      PROVE  \E W \in SUBSET Row :
                /\ tx' = [tx EXCEPT ![t].wrote = W] /\ W # {} /\ W \subseteq Object
    <2> DEFINE W == tx[t].wrote \cup {r}
    <2>1. W \in SUBSET Row /\ W # {} /\ W \subseteq Object /\ tx' = [tx EXCEPT ![t].wrote = W]
        BY <1>1 DEF TxWrites, Row
    <2> QED
        BY <2>1
<1>2. ASSUME NEW j \in Job, TxClaims(t, j)
      PROVE  \E W \in SUBSET Row :
                /\ tx' = [tx EXCEPT ![t].wrote = W] /\ W # {}
                /\ tx[t].wrote = {} /\ \E k \in Job : W = {k} /\ tx[t].seen[k] > 0
    <2>1. /\ {j} \in SUBSET Row /\ {j} # {} /\ tx' = [tx EXCEPT ![t].wrote = {j}]
          /\ tx[t].wrote = {} /\ tx[t].seen[j] \in 1..(MaxWrites - 1)
        BY <1>2 DEF TxClaims, Row
    <2>2. tx[t].seen[j] > 0
        BY <2>1, StoreAssumption
    <2> QED
        BY <2>1, <2>2
<1>3. Open(t) /\ Locks(t) /\ rows' = rows /\ saw' = saw
    BY DEF TxWrites, TxClaims
<1> QED
    BY <1>1, <1>2, <1>3

\* What a commit shows to the others: the writer's rows, each written once more.
LEMMA Published ==
    ASSUME StoreTypeOK, WriterIsUpToDate, NEW t \in Transaction, lock = t, Publish(t)
    PROVE  /\ saw' = rows
           /\ rows' = [r \in Row |-> IF r \in tx[t].wrote THEN rows[r] + 1 ELSE rows[r]]
           /\ rows' \in Rows
           /\ tx' = [Outdated EXCEPT ![t] = NotBegun]
           /\ tx' \in [Transaction -> Tx \cup {NotBegun}]
<1>1. tx[t].seen = rows
    BY DEF WriterIsUpToDate
<1>2. /\ saw' = rows /\ tx' = [Outdated EXCEPT ![t] = NotBegun]
      /\ rows' = [r \in Row |-> IF r \in tx[t].wrote THEN rows[r] + 1 ELSE rows[r]]
    BY <1>1 DEF Publish
<1>3. rows \in Rows
    BY DEF StoreTypeOK
<1>4. rows' \in Rows
    BY <1>2, <1>3 DEF Rows
<1> QED
    BY <1>2, <1>4, OutdatedSnapshots

\* What a statement outside a transaction changes.
LEMMA StatementWritten ==
    ASSUME StoreTypeOK, NEW r \in Row, StatementWrites(r)
    PROVE  /\ saw' = rows /\ log' = log /\ lock = "free" /\ lock' = "free"
           /\ rows' = [s \in Row |-> IF s \in {r} THEN rows[s] + 1 ELSE rows[s]]
           /\ rows' \in Rows
           /\ tx' = Outdated
<1>1. rows \in Rows
    BY DEF StoreTypeOK
<1>2. rows' = [s \in Row |-> IF s \in {r} THEN rows[s] + 1 ELSE rows[s]]
    BY <1>1 DEF StatementWrites, Rows
<1>3. rows' \in Rows
    BY <1>1, <1>2 DEF Rows
<1> QED
    BY <1>2, <1>3 DEF StatementWrites, vars

\* Every step of the store keeps the types.
LEMMA StoreTypeStep ==
    ASSUME StoreTypeOK, WriterIsUpToDate, [StoreNext]_storeVars
    PROVE  StoreTypeOK'
<1>1. TypeOK'
    BY TypeStep, StoreStep DEF StoreTypeOK
<1>a. rows \in Rows /\ saw \in Rows /\ tx \in [Transaction -> Tx \cup {NotBegun}]
    BY DEF StoreTypeOK
<1>2. ASSUME NEW t \in Transaction, TxReads(t)
      PROVE  StoreTypeOK'
    BY <1>1, <1>2, <1>a, OpenedSnapshot DEF TxReads, StoreTypeOK
<1>3. ASSUME NEW t \in Transaction,
             \/ \E r \in Object : TxWrites(t, r)
             \/ \E j \in Job : TxClaims(t, j)
      PROVE  StoreTypeOK'
    BY <1>1, <1>3, <1>a, WriteOfATransaction, WrittenRows DEF StoreTypeOK
<1>4. ASSUME NEW t \in Transaction, TxLooksUpHead(t) \/ TxFails(t)
      PROVE  StoreTypeOK'
    <2>1. rows' = rows /\ saw' = saw /\ (tx' = tx \/ tx' = [tx EXCEPT ![t] = NotBegun])
        BY <1>4 DEF TxLooksUpHead, TxFails
    <2>2. tx' \in [Transaction -> Tx \cup {NotBegun}]
        BY <1>a, <2>1
    <2> QED
        BY <1>1, <1>a, <2>1, <2>2 DEF StoreTypeOK
<1>5. ASSUME NEW t \in Transaction, TxCommits(t) \/ ClaimCommits(t)
      PROVE  StoreTypeOK'
    <2>1. lock = t /\ Publish(t)
        BY <1>5 DEF TxCommits, TxInsertsAndCommits, ClaimCommits, TxCommitsWithoutEvent
    <2> QED
        BY <1>1, <1>a, <2>1, Published DEF StoreTypeOK
<1>6. ASSUME NEW q \in Rejecter, RejectPrepares(q) \/ RejectAppends(q)
      PROVE  StoreTypeOK'
    BY <1>6, <1>1, <1>a, OutdatedSnapshots DEF RejectPrepares, RejectAppends, StoreTypeOK
<1>7. ASSUME NEW r \in Row, Inserts(r) \/ (r \in Job /\ UpdatesJob(r))
      PROVE  StoreTypeOK'
    BY <1>7, <1>1, <1>a, StatementWritten, OutdatedSnapshots DEF Inserts, UpdatesJob, StoreTypeOK
<1>8. CASE WritesElsewhere
    BY <1>8, <1>1, <1>a, OutdatedSnapshots DEF WritesElsewhere, StoreTypeOK
<1>9. CASE UNCHANGED storeVars
    BY <1>9, <1>1, <1>a DEF storeVars, StoreTypeOK
<1> QED
    BY <1>2, <1>3, <1>4, <1>5, <1>6, <1>7, <1>8, <1>9 DEF StoreNext, Row

\* Snapshots are out of date with the first commit after them, only those that
\* are not may become writers, and a writer has written.
LEMMA SnapshotStep ==
    ASSUME SInv, [StoreNext]_storeVars
    PROVE  FreshIsNewest' /\ WriterIsUpToDate' /\ WritersHaveWritten'
<1> DEFINE Goal == FreshIsNewest' /\ WriterIsUpToDate' /\ WritersHaveWritten'
<1> SUFFICES Goal
    OBVIOUS
<1>i. /\ StoreTypeOK /\ ReadersHoldTheLock /\ FreshIsNewest /\ WriterIsUpToDate
      /\ WritersHaveWritten
    BY DEF SInv
<1>a. /\ lock \in Transaction \cup {"free"} /\ "free" \notin Transaction
      /\ tx \in [Transaction -> Tx \cup {NotBegun}]
      /\ head \in [Writer -> 0..Unread] /\ Transaction \subseteq Writer
      /\ Transaction \cap Rejecter = {}
    BY <1>i, AuditAssumption DEF StoreTypeOK, TypeOK, Writer
<1>b. ~NotBegun.fresh
    BY DEF NotBegun
<1>c. ASSUME lock' = "free", \A u \in Transaction : tx'[u].fresh => tx'[u].seen = rows'
      PROVE  Goal
    BY <1>c, <1>a DEF FreshIsNewest, WriterIsUpToDate, WritersHaveWritten
<1>d. ASSUME lock' = "free", tx' = Outdated
      PROVE  Goal
    BY <1>c, <1>d, <1>i, OutdatedSnapshots
<1>1. ASSUME NEW t \in Transaction, TxReads(t)
      PROVE  Goal
    <2>1. /\ rows' = rows /\ ~Open(t) /\ lock' = lock /\ head' = head
          /\ tx'[t].seen = rows /\ tx'[t] # NotBegun
          /\ \A u \in Transaction \ {t} : tx'[u] = tx[u]
        BY <1>1, <1>i, OpenedSnapshot DEF TxReads, vars
    <2>2. FreshIsNewest'
        BY <1>i, <2>1 DEF FreshIsNewest
    <2>3. lock # t
        BY <1>i, <2>1 DEF WriterIsUpToDate
    <2>4. WriterIsUpToDate'
        BY <1>i, <2>1, <2>3 DEF WriterIsUpToDate, Open
    <2>5. WritersHaveWritten'
        BY <1>i, <2>1, <2>3 DEF WritersHaveWritten, Unread
    <2> QED
        BY <2>2, <2>4, <2>5
<1>2. ASSUME NEW t \in Transaction,
             \/ \E r \in Object : TxWrites(t, r)
             \/ \E j \in Job : TxClaims(t, j)
      PROVE  Goal
    <2>1. PICK W \in SUBSET Row :
              /\ tx' = [tx EXCEPT ![t].wrote = W]
              /\ W # {}
              /\ \/ W \subseteq Object
                 \/ tx[t].wrote = {} /\ \E j \in Job : W = {j} /\ tx[t].seen[j] > 0
        BY <1>2, <1>i, WriteOfATransaction
    <2>2. Open(t) /\ Locks(t) /\ rows' = rows
        BY <1>2, <1>i, WriteOfATransaction
    <2>3. /\ lock = t \/ (lock = "free" /\ tx[t].fresh)
          /\ lock' = t /\ head' = head
        BY <2>2, LockIsHeld
    <2>4. /\ tx'[t] # NotBegun
          /\ tx'[t].seen = tx[t].seen /\ tx'[t].fresh = tx[t].fresh /\ tx'[t].wrote = W
          /\ \A u \in Transaction \ {t} : tx'[u] = tx[u]
        BY <1>i, <2>1, <2>2, WrittenRows
    <2>5. FreshIsNewest'
        BY <1>i, <2>2, <2>4 DEF FreshIsNewest
    <2>6. WriterIsUpToDate'
        BY <1>i, <2>2, <2>3, <2>4 DEF WriterIsUpToDate, FreshIsNewest, Open
    <2>7. tx[t].wrote = {} => head[t] = Unread
        BY <1>i DEF ReadersHoldTheLock, WritersHaveWritten
    <2>8. WritersHaveWritten'
        BY <2>1, <2>3, <2>4, <2>7 DEF WritersHaveWritten, Unread
    <2> QED
        BY <2>5, <2>6, <2>8
<1>3. ASSUME NEW t \in Transaction, TxLooksUpHead(t)
      PROVE  Goal
    <2>1. /\ lock' = lock /\ lock = t /\ rows' = rows /\ tx' = tx
          /\ tx[t].wrote \subseteq Object
        BY <1>3 DEF TxLooksUpHead, TxReadsHead
    <2>2. WritersHaveWritten'
        BY <1>i, <2>1 DEF WritersHaveWritten
    <2> QED
        BY <1>i, <2>1, <2>2 DEF FreshIsNewest, WriterIsUpToDate, Open
<1>4. ASSUME NEW t \in Transaction, TxCommits(t) \/ ClaimCommits(t)
      PROVE  Goal
    <2>1. lock' = "free" /\ tx' = [Outdated EXCEPT ![t] = NotBegun]
        BY <1>4 DEF TxCommits, TxInsertsAndCommits, ClaimCommits, TxCommitsWithoutEvent, Publish
    <2>2. \A u \in Transaction : ~tx'[u].fresh
        BY <1>i, <2>1, <1>b, OutdatedSnapshots
    <2> QED
        BY <1>c, <2>1, <2>2
<1>5. ASSUME NEW t \in Transaction, TxFails(t)
      PROVE  Goal
    <2>1. /\ rows' = rows /\ tx' = [tx EXCEPT ![t] = NotBegun]
          /\ lock' = IF lock = t THEN "free" ELSE lock
          /\ lock # t => head' = head
        BY <1>5 DEF TxFails, TxRollsBack, vars
    <2>2. FreshIsNewest'
        BY <1>i, <1>a, <1>b, <2>1 DEF FreshIsNewest
    <2>3. CASE lock = t
        BY <1>c, <2>1, <2>2, <2>3 DEF FreshIsNewest
    <2>4. CASE lock # t
        <3>1. WriterIsUpToDate'
            BY <1>i, <1>a, <2>1, <2>4 DEF WriterIsUpToDate, Open
        <3>2. WritersHaveWritten'
            BY <1>i, <1>a, <2>1, <2>4 DEF WritersHaveWritten, Unread
        <3> QED
            BY <2>2, <3>1, <3>2
    <2> QED
        BY <2>3, <2>4
<1>6. ASSUME NEW q \in Rejecter, RejectPrepares(q)
      PROVE  Goal
    <2>1. /\ lock' = lock /\ rows' = rows /\ tx' = tx
          /\ \A u \in Transaction : head'[u] = head[u]
        BY <1>6, <1>a DEF RejectPrepares, RejectReadsHead, RejectGivesUp, ReadHead
    <2>2. WritersHaveWritten'
        BY <1>i, <2>1 DEF WritersHaveWritten, Unread
    <2> QED
        BY <1>i, <2>1, <2>2 DEF FreshIsNewest, WriterIsUpToDate, Open
<1>7. ASSUME NEW q \in Rejecter, RejectAppends(q)
      PROVE  Goal
    BY <1>7, <1>d DEF RejectAppends, RejectInserts
<1>8. ASSUME NEW r \in Row, Inserts(r) \/ (r \in Job /\ UpdatesJob(r))
      PROVE  Goal
    BY <1>8, <1>d, <1>i, StatementWritten DEF Inserts, UpdatesJob
<1>9. CASE WritesElsewhere
    BY <1>9, <1>d DEF WritesElsewhere, vars
<1>10. CASE UNCHANGED storeVars
    BY <1>10, <1>i DEF storeVars, vars, FreshIsNewest, WriterIsUpToDate, WritersHaveWritten,
                       Open, Unread
<1> QED
    BY <1>1, <1>2, <1>3, <1>4, <1>5, <1>6, <1>7, <1>8, <1>9, <1>10 DEF StoreNext, Row

-----------------------------------------------------------------------------
\* The parts of the invariant, established and kept together.
THEOREM StoreInvariantHolds == StoreSpec => []SInv
<1>1. StoreInit => SInv
    <2> SUFFICES ASSUME StoreInit
                 PROVE  SInv
        OBVIOUS
    <2>1. TypeOK /\ (\A w \in Writer : head[w] = Unread) /\ lock = "free"
        BY EmptySeq, AuditAssumption DEF StoreInit, Init, TypeOK, Unread
    <2>2. StoreTypeOK
        BY <2>1 DEF StoreInit, StoreTypeOK, Rows
    <2>3. ReadersHoldTheLock /\ HeadsAreOfTheLog
        BY <2>1 DEF ReadersHoldTheLock, HeadsAreOfTheLog, Writer
    <2>4. FreshIsNewest
        BY DEF StoreInit, FreshIsNewest, NotBegun
    <2>5. WriterIsUpToDate /\ WritersHaveWritten
        BY <2>1, AuditAssumption DEF WriterIsUpToDate, WritersHaveWritten
    <2> QED
        BY <2>2, <2>3, <2>4, <2>5 DEF SInv
<1>2. SInv /\ [StoreNext]_storeVars => SInv'
    <2> SUFFICES ASSUME SInv, [StoreNext]_storeVars
                 PROVE  SInv'
        OBVIOUS
    <2>1. [Next]_vars /\ TypeOK
        BY StoreStep DEF SInv, StoreTypeOK
    <2> QED
        BY <2>1, StoreTypeStep, ReadersStep, HeadsStep, SnapshotStep DEF SInv
<1> QED
    BY <1>1, <1>2, PTL DEF StoreSpec

\* The store's tables, snapshots and log keep their types (StoreTypeOK).
THEOREM StoreTypeCorrect == StoreSpec => []StoreTypeOK
<1>1. SInv => StoreTypeOK
    BY DEF SInv
<1> QED
    BY <1>1, StoreInvariantHolds, PTL

\* Who holds the write lock works on the newest state (WriterIsUpToDate).
THEOREM WritersAreUpToDate == StoreSpec => []WriterIsUpToDate
<1>1. SInv => WriterIsUpToDate
    BY DEF SInv
<1> QED
    BY <1>1, StoreInvariantHolds, PTL

\* Beside rows and snapshots, too, a committed change is chained to the event
\* just before it (CommittedEventsAreChained).
THEOREM StoreChangesAreChained == StoreSpec => []CommittedEventsAreChained
    BY StoreIsAnAuditLog, CommittedChangesAreChained, PTL

-----------------------------------------------------------------------------
\* Of all steps, the commit of an audited method is a change with its event, that
\* of a claim moves a job, a single statement inserts a row or moves a job, a
\* rejection appends to an earlier event, and the others are not seen.
LEMMA AtomicStep ==
    ASSUME SInv, [StoreNext]_storeVars
    PROVE  [Atomic!Next]_Atomic!vars
<1>a. /\ StoreTypeOK /\ ReadersHoldTheLock /\ HeadsAreOfTheLog /\ WriterIsUpToDate
      /\ WritersHaveWritten
    BY DEF SInv
<1>r. Row = Atomic!Row
    BY DEF Row, Atomic!Row
<1>1. ASSUME NEW t \in Transaction, TxCommits(t)
      PROVE  [Atomic!Next]_Atomic!vars
    <2>1. /\ lock = t /\ head[t] # Unread /\ Publish(t)
          /\ log' = Append(log, [previous |-> head[t], by |-> t])
        BY <1>1 DEF TxCommits, TxInsertsAndCommits, InsertEvent
    <2>2. head[t] = Len(log)
        BY <1>a, <2>1 DEF ReadersHoldTheLock, Newest
    <2>3. tx[t].wrote \in (SUBSET Object) \ {{}}
        BY <1>a, <2>1 DEF WritersHaveWritten
    <2>4. Atomic!Write(tx[t].wrote)
        BY <1>a, <1>r, <2>1, Published DEF Atomic!Write
    <2>5. Atomic!Change(t, tx[t].wrote)
        BY <2>1, <2>2, <2>4 DEF Atomic!Change
    <2> QED
        BY <2>3, <2>5 DEF Atomic!Next
<1>2. ASSUME NEW t \in Transaction, ClaimCommits(t)
      PROVE  [Atomic!Next]_Atomic!vars
    <2>1. lock = t /\ Publish(t) /\ log' = log /\ tx[t].wrote \subseteq Job
        BY <1>2 DEF ClaimCommits, TxCommitsWithoutEvent
    <2>2. PICK j \in Job : tx[t].wrote = {j} /\ tx[t].seen[j] > 0
        BY <1>a, <2>1, StoreAssumption DEF WritersHaveWritten
    <2>3. tx[t].seen = rows
        BY <1>a, <2>1 DEF WriterIsUpToDate
    <2>4. Atomic!Write({j})
        BY <1>a, <1>r, <2>1, <2>2, Published DEF Atomic!Write
    <2>5. Atomic!MoveJob(j)
        BY <2>1, <2>2, <2>3, <2>4 DEF Atomic!MoveJob
    <2> QED
        BY <2>5 DEF Atomic!Next
<1>3. ASSUME NEW r \in Row, StatementWrites(r)
      PROVE  Atomic!Write({r}) /\ log' = log
    BY <1>3, <1>a, <1>r, StatementWritten DEF Atomic!Write
<1>4. ASSUME NEW r \in Row, Inserts(r)
      PROVE  [Atomic!Next]_Atomic!vars
    BY <1>3, <1>4, <1>r DEF Inserts, Atomic!Insert, Atomic!Next
<1>5. ASSUME NEW j \in Job, UpdatesJob(j)
      PROVE  [Atomic!Next]_Atomic!vars
    BY <1>3, <1>5 DEF UpdatesJob, Row, Atomic!MoveJob, Atomic!Next
<1>6. ASSUME NEW q \in Rejecter, RejectAppends(q)
      PROVE  [Atomic!Next]_Atomic!vars
    <2>1. /\ head[q] # Unread /\ rows' = rows /\ saw' = saw
          /\ log' = Append(log, [previous |-> head[q], by |-> q])
        BY <1>6 DEF RejectAppends, RejectInserts, InsertEvent
    <2>2. head[q] \in 0..Len(log)
        BY <1>a, <2>1 DEF HeadsAreOfTheLog, Writer
    <2>3. Atomic!Reject(q)
        BY <2>1, <2>2 DEF Atomic!Reject
    <2> QED
        BY <2>3 DEF Atomic!Next
<1>7. ASSUME rows' = rows, log' = log, saw' = saw
      PROVE  [Atomic!Next]_Atomic!vars
    BY <1>7 DEF Atomic!vars
<1>8. ASSUME NEW t \in Transaction,
             \/ \E r \in Object : TxWrites(t, r)
             \/ \E j \in Job : TxClaims(t, j)
      PROVE  [Atomic!Next]_Atomic!vars
    BY <1>7, <1>8, <1>a, WriteOfATransaction, LockIsHeld
<1>9. ASSUME NEW t \in Transaction, TxReads(t) \/ TxLooksUpHead(t) \/ TxFails(t)
      PROVE  [Atomic!Next]_Atomic!vars
    BY <1>7, <1>9 DEF TxReads, TxLooksUpHead, TxReadsHead, TxFails, TxRollsBack, vars
<1>10. ASSUME NEW q \in Rejecter, RejectPrepares(q)
      PROVE  [Atomic!Next]_Atomic!vars
    BY <1>7, <1>10 DEF RejectPrepares, RejectReadsHead, RejectGivesUp
<1>11. CASE WritesElsewhere
    BY <1>7, <1>11 DEF WritesElsewhere, vars
<1>12. CASE UNCHANGED storeVars
    BY <1>7, <1>12 DEF storeVars, vars
<1> QED
    BY <1>1, <1>2, <1>4, <1>5, <1>6, <1>8, <1>9, <1>10, <1>11, <1>12 DEF StoreNext

\* A store method is one step, whatever runs beside it (MethodsAreAtomic): why
\* the other modules may take it for one action.
THEOREM StoreImplementsAtomicStore == StoreSpec => MethodsAreAtomic
<1>1. StoreInit => Atomic!Init
    BY DEF StoreInit, Init, Row, Atomic!Init, Atomic!Row
<1>2. SInv /\ [StoreNext]_storeVars => [Atomic!Next]_Atomic!vars
    BY AtomicStep
<1> QED
    BY <1>1, <1>2, StoreInvariantHolds, PTL DEF StoreSpec, MethodsAreAtomic, Atomic!Spec

=============================================================================
