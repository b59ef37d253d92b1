\* One execution on a stage that nobody else touches.
SPECIFICATION Spec
CONSTANTS
    Executions = {e1}
    Owner = Owner
    Indexes = {"index"}
    Processes = {"Launch"}
    Numbers = {2}
    Attacked = {0, 1}
    MaxFaults = 0
    MaxChanges = 0
    MaxStops = 1
INVARIANTS LimitsRestored
CHECK_DEADLOCK FALSE
