\* GetWalletAddress: what its comment says.
SPECIFICATION Spec
CONSTANTS
    Calls = {"wallet", "stake-wallet"}
    MaxCalls = 2
INVARIANTS
    ResultOrError
CHECK_DEADLOCK FALSE
