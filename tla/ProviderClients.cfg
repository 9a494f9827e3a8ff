\* Amounts in tenths of MinUTxODefaultValue.
SPECIFICATION Spec
CONSTANTS
    MCAmounts = {1, 5, 10, 13}
    MCMaxUtxos = 3
    Genesis <- MCGenesis
    Bounds <- MCBounds
    Epochs = 2
    PageSize = 2
    Target = 9
    MaxEvents = 2
    NumRetries = 2
    TTLInc = 3
    Word = 64
INVARIANTS
    ListIsOfOneMoment
    ReturnsShortestPrefix
    RefusesOnlyThePoor
    TipIsOfTheCall
    ConfiguredInOrder
    SubmittedIsTaken
    WaitedForWasThere
    TimeoutIsHonest
    ResultOrErr
\* The operation returns.
CHECK_DEADLOCK FALSE
