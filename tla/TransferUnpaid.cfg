\* Another payer and a provider whose answers may go back in time: a timeout
\* still means that the transaction is not, and never will be, on chain.
SPECIFICATION Spec
CONSTANTS
    Rounds = 2
    NumRetries = 3
    WaitTime = 2
    TTLInc = 2
    ViewLag = 1
    MonotonicView = FALSE
    Others = {o1}
    ReceiverSpends = FALSE
    Misread = FALSE
    MaxSlack = 2
INVARIANTS
    TypeOK
    TimeoutMeansUnpaid
CHECK_DEADLOCK TRUE
