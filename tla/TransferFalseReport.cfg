\* Another payer's output satisfies the wait for a transaction that is not on
\* chain.
SPECIFICATION Spec
CONSTANTS
    Rounds = 1
    NumRetries = 3
    WaitTime = 2
    TTLInc = 2
    ViewLag = 1
    MonotonicView = TRUE
    Others = {o1}
    ReceiverSpends = FALSE
    Misread = FALSE
    MaxSlack = 2
INVARIANTS
    ReportedIsIncluded
CHECK_DEADLOCK TRUE
