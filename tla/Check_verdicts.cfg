\* Two checks with all modes on one service.
SPECIFICATION Spec
CONSTANTS
    Executions = {e1, e2}
    Services = {s1}
    ClusterOf <- MCClusterOf
    MaxTasks = 1
    Descriptions <- MCDescriptions
    Nil = Nil
    Failure = Failure
    Modes <- AllModes
    MaxRepeats = 1
    MaxRestarts = 1
INVARIANTS PassedMeansMetUndisturbed RunningIsPolled
PROPERTY ImplementsPoller
SYMMETRY Symmetry
