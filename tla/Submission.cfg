\* Three goroutines, two of them on one provider, all on one cardano-cli.
SPECIFICATION SubmissionSpec
CONSTANTS
    c1 = c1
    c2 = c2
    c3 = c3
    p1 = p1
    p2 = p2
    babbage = babbage
    conway = conway
    Torn = Torn
    Callers <- MCCallers
    Goroutines <- MCCallers
    Providers <- MCProviders
    ProviderOf <- MCProviderOf
    Formats <- MCFormats
    CliFormat <- MCCliFormat
    Default = babbage
INVARIANTS
    SubmissionTypeOK
    SubmitsOwn
    NoMoreThanAccepted
    FitsCli
\* All calls have returned.
CHECK_DEADLOCK FALSE
