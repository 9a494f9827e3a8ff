\* A caller with a predicate and a provider that honours its context: every
\* answer, every interleaving of the loop, the timer and the cancellation.
SPECIFICATION FairSpec
CONSTANTS
    NumRetries = 4
    HasRecoverFn = TRUE
    HonoursCtx = TRUE
INVARIANTS
    TypeOK
    TimeoutIsExhaustive
    Paced
PROPERTIES
    ContractSpec
    Returns
    CancelUnblocks
CHECK_DEADLOCK TRUE
