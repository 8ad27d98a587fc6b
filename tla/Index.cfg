SPECIFICATION Spec
CONSTANTS
    Null = Null
    Unbound = Unbound
    MaxCount = 5
    Growths <- MCGrowths
    Keys <- MCKeys
    NewRows <- MCNewRows
    Queries <- MCQueries
    MaxOps = 2
    Deep = FALSE
INVARIANTS FindsKeys Balanced RangesFound
CHECK_DEADLOCK FALSE
