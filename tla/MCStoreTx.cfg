SPECIFICATION StoreSpec
CONSTANTS
    Transaction = {t1, t2}
    Rejecter = {q1}
    MaxEvents = 3
    Object = {o1, o2}
    Job = {j1}
    MaxWrites = 3
SYMMETRY MCSymmetry
INVARIANTS
    CommittedEventsAreChained
    ForksAreBounded
PROPERTIES
    MethodsAreAtomic
CHECK_DEADLOCK FALSE
