--------------------------- MODULE MCServiceEventLog ---------------------------
(* Small instances of ServiceEventLog: services of one cluster.              *)
EXTENDS ServiceEventLog, TLC

MCClusterOf == [s \in Services |-> "cluster"]
MCDescriptions == {events : events \in SUBSET Event} \cup {Failure}
Symmetry == Permutations(Executions)
=============================================================================
