SPECIFICATION OutputSpec
CONSTANTS
    a = a
    b = b
    c = c
    x = x
    y = y
    Names = {a, b, c}
    Depth = 2
    Contents = {x, y}
    Fold <- FoldMC
    OutputName = out
    SourcePlans <- PlansMC
    EditedNames = {a, b}
INVARIANTS
    BuildIsExact
    CheckNamesEveryDifference
