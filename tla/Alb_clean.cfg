\* A lone attack is undone in the end; the second execution makes it not alone.
SPECIFICATION FairSpec
CONSTANTS
    Executions = {e1, e2}
    UserRules = {r1, r2}
    Top = 2
    PageSize = 2
    None = None
    MaxFaults = 1
    MaxMoves = 0
    MaxStops = 3
PROPERTY EventuallyClean
CHECK_DEADLOCK FALSE
