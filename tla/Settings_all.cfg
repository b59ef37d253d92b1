\* Two executions on a resource of every kind.
SPECIFICATION FairSpec
CONSTANTS
    Executions = {e1, e2}
    Owner = Owner
    Indexes = {"index"}
    Processes = {"Launch"}
    Numbers = {2}
    Attacked = {0, 1}
    MaxFaults = 1
    MaxChanges = 1
    MaxStops = 2
INVARIANT UnwoundIsRestored
PROPERTIES OtherSettingsKept EventuallyRestored
CHECK_DEADLOCK FALSE
