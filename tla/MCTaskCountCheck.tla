--------------------------- MODULE MCTaskCountCheck ---------------------------
(* Small instances of TaskCountCheck: services of one cluster.               *)
EXTENDS TaskCountCheck, TLC

CONSTANTS MaxTasks
MCClusterOf == [s \in Services |-> "cluster"]
MCDescriptions == [running : 0 .. MaxTasks, desired : {1}] \cup {Failure}
AllModes == {"runningCountMin1", "runningCountEqualsDesiredCount",
             "runningCountLessThanDesiredCount", "runningCountIncreased",
             "runningCountDecreased", "unsupported"}
Symmetry == Permutations(Executions) \cup Permutations(Services)
=============================================================================
