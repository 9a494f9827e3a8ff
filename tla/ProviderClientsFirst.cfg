\* The comment of GetUTXOsForAmount.
SPECIFICATION Spec
CONSTANTS
    MCAmounts = {1, 5, 10, 13}
    MCMaxUtxos = 3
    Genesis <- MCGenesis
    Bounds <- MCBounds
    Epochs = 2
    PageSize = 2
    Target = 9
    MaxEvents = 2
    NumRetries = 2
    TTLInc = 3
    Word = 64
INVARIANTS
    OneInputIfEnough
\* The operation returns.
CHECK_DEADLOCK FALSE
