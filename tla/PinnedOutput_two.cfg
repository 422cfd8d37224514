SPECIFICATION Spec
CONSTANTS
    b1 = b1
    b2 = b2
    p1 = p1
    p2 = p2
    none = none
    t1 = t1
    t2 = t2
    Builders <- BuildersMC
    Plans <- PlansMC
    NoPlan = none
    Tx <- TxMC
    MaxFaults = 1
    MaxCrashes = 1
SYMMETRY SymmetryMC
INVARIANTS
    OutputIsWhole
PROPERTIES
    CompleteTreeSurvives
