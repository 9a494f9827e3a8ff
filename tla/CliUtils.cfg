\* Sequences of calls of every kind, each step failing or not.
SPECIFICATION Spec
CONSTANTS
    Calls = {"wallet", "stake-wallet", "address", "stake-address",
             "policy-id", "tx-hash"}
    MaxCalls = 3
INVARIANTS
    ResultsFitError
\* After MaxCalls calls.
CHECK_DEADLOCK FALSE
