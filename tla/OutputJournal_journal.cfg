SPECIFICATION Spec
CONSTANTS
    p1 = p1
    p2 = p2
    none = none
    t1 = t1
    t2 = t2
    Plans <- PlansMC
    NoPlan = none
    NoJournal = NoJournal
    Tx <- TxMC
    MaxFaults = 1
    MaxCrashes = 2
INVARIANTS
    OnlyWholeOutcomes
    BackupsAreJournalled
    RecoveryAcceptsOneInterruption
    ForgottenBackupsAreSpare
PROPERTIES
    ReplacementIsAtomic
