\* Every sequence of calls on a fresh builder, with every write and every run of
\* cardano-cli failing or not.  0 is below the default minimum and 2 above.
SPECIFICATION Spec
CONSTANTS
    i1 = i1
    i2 = i2
    s1 = s1
    s2 = s2
    w1 = w1
    w2 = w2
    Inputs <- MCInputs
    Scripts <- MCScripts
    KeyCount <- MCKeyCount
    Witnesses <- MCWitnesses
    NoScript = NoScript
    Params = {p1, p2}
    Metadata = {m1, m2}
    Nil = Nil
    Amounts = {0, 2}
    TTLs = {0, 5}
    MinUTxO = 1
    Magics = {0, 2}
    MainNetMagic = 7
    NoFile = NoFile
    MaxInputs = 2
    MaxCalls = 6
INVARIANTS
    BuiltIsCurrent
    FeeIsCurrent
    AssembledIsGiven
PROPERTY
    ContractSpec
\* Callers stop calling at some point, here after MaxCalls calls.
CHECK_DEADLOCK FALSE
