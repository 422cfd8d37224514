SPECIFICATION Spec
CONSTANTS
    Procs = {p1, p2}
    Bases = {b1, b2}
    Dirs = {d1, d2, d3}
    Plans <- AllPlans
    Fold <- MCFold
    BadStems <- MCBadStems
    None = None
    Junk = Junk
    Partial = Partial
    MaxRuns = 2
    MaxMoves = 1
    MaxFaults = 1
    MaxKills = 1
SYMMETRY SymmetryMC
INVARIANTS
    SuccessPublishesPlan
    MovedFailsClosed
    ArchivesAreWhole
PROPERTY
    UnchangedIsKept
CHECK_DEADLOCK FALSE
