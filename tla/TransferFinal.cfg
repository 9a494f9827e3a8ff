\* Two rounds: the receiver spends what it gets while the program polls.
SPECIFICATION FairSpec
CONSTANTS
    Rounds = 2
    NumRetries = 3
    WaitTime = 2
    TTLInc = 2
    ViewLag = 1
    MonotonicView = TRUE
    Others = {}
    ReceiverSpends = TRUE
    Misread = FALSE
    MaxSlack = 2
INVARIANTS
    TimeoutIsFinal
    ReportedIsIncluded
PROPERTIES
    Concludes
CHECK_DEADLOCK TRUE
