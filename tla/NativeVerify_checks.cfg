SPECIFICATION FairVerifySpec
CONSTANTS
    MaxChecks = 2
    PipeLimit = 2
    MaxOutput = 3
INVARIANTS
    VerdictIsSound
PROPERTIES
    VerificationReturns
CHECK_DEADLOCK FALSE
