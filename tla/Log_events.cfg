\* Two logs of one service whose events are shown in any order.
SPECIFICATION Spec
CONSTANTS
    Executions = {e1, e2}
    Services = {s1}
    ClusterOf <- MCClusterOf
    Descriptions <- MCDescriptions
    Nil = Nil
    Failure = Failure
    MaxEvents = 2
    MaxTime = 3
    MaxDelay = 1
    MaxLost = 1
    MaxRepeats = 1
    MaxRestarts = 1
SYMMETRY Symmetry
INVARIANTS ReportedOnce NothingSkipped
PROPERTY ImplementsPoller
CHECK_DEADLOCK FALSE
