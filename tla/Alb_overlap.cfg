\* Two executions on a listener with two rules, and an owner who changes one.
SPECIFICATION Spec
CONSTANTS
    Executions = {e1, e2}
    UserRules = {r1, r2}
    Top = 2
    PageSize = 2
    None = None
    MaxFaults = 1
    MaxMoves = 1
    MaxStops = 2
SYMMETRY Symmetry
INVARIANTS TypeOK StoppedIsClean PrioritiesRestored AtMostOneDown
PROPERTY OwnerRulesKept
CHECK_DEADLOCK FALSE
