\* Both flows over lists of up to three UTxOs, with every call failing or not.
SPECIFICATION Spec
CONSTANTS
    Word = 256
    MinUTxO = 10
    PotentialFee = 3
    Fees = {1, 3, 8, 13}
    UtxoLists <- MCUtxoLists
    TTLs = {200, 201}
    KeySize = 2
    WalletTexts <- MCWalletTexts
    MaxInputs = 6
INVARIANTS
    SignedIsIntended
    ValueConserved
    WitnessesPaidFor
    WitnessesSuffice
    ExactMatchNeverBuilds
    LeavesNoFiles
\* A flow returns.
CHECK_DEADLOCK FALSE
