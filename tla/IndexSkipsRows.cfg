SPECIFICATION Spec
CONSTANTS
    Null = Null
    Unbound = Unbound
    MaxCount = 5
    Growths <- MCGrowths
    Keys <- MCKeys
    NewRows <- MCNewRows
    Queries <- MCQueries
    MaxOps = 0
    Deep = TRUE
INVARIANT AllRangesFound
CHECK_DEADLOCK FALSE
