SPECIFICATION FairRuntimeSpec
CONSTANTS
    d1 = d1
    d2 = d2
    none = none
    bash = bash
    read = read
    Hooks <- HooksMC
    Events <- EventsMC
    Dispatches <- DispatchesMC
    NoDispatch = none
INVARIANTS
    DecisionIsSound
    ShutdownIsQuiet
PROPERTIES
    ClosedStartsNothing
    EverythingEnds
