SPECIFICATION FairSpec
CONSTANTS
    Job = {j1, j2}
    Worker = {1, 2, 3}
    Owner <- MCOwner
    MaxAttempts = 2
    Lease = 2
    MaxFaults = 2
INVARIANTS
    RetriesAreLimited
    ClaimsAreExclusive
PROPERTIES
    EndedByItsClaimant
    KeepsThePromise
    EveryJobSettles
CHECK_DEADLOCK FALSE
