----------------------------- MODULE PollRecords -----------------------------
(***************************************************************************)
(* The map EcsServiceDescriptionPoller.polls of extecs and the functions   *)
(* that the poller's mutex makes atomic on it.                             *)
(*                                                                         *)
(* The nested maps account > region > role > cluster > service are one     *)
(* function: Register creates every level a record needs and Unregister    *)
(* deletes every level it leaves empty, so a level exists exactly when a   *)
(* service below it is registered.  ClusterOf gives the path of a service  *)
(* down to its cluster; no reader tells the levels above it apart.         *)
(***************************************************************************)
EXTENDS Integers

CONSTANTS
    Services,
    ClusterOf,      \* the path (account, region, role, cluster) of a service
    Descriptions,   \* what AWS may say of a service, a failure included
    Nil             \* no record, no value

ASSUME PollAssumption == Nil \notin Descriptions /\ Nil \notin [count : Nat, value : Descriptions \cup {Nil}]

Record == [count : Nat, value : Descriptions \cup {Nil}]
Polls == [Services -> Record \cup {Nil}]
Registered(p, s) == p[s] # Nil

\* Mutant: a service that is registered already is registered from scratch.
WithAnew(p, s) == [p EXCEPT ![s] = [count |-> 0, value |-> Nil]]

\* Register: the first registration of a service has count 0.
With(p, s) ==
    [p EXCEPT ![s] = IF @ = Nil THEN [count |-> 0, value |-> Nil]
                     ELSE [count |-> @.count + 1, value |-> @.value]]

\* Mutant: the last registration but one deletes the record.
WithoutEarly(p, s) ==
    [p EXCEPT ![s] = IF @ = Nil \/ @.count <= 1 THEN Nil
                     ELSE [count |-> @.count - 1, value |-> @.value]]

\* Mutant: the record of the last registration is kept.
WithoutForever(p, s) ==
    [p EXCEPT ![s] = IF @ = Nil THEN Nil ELSE [count |-> @.count - 1, value |-> @.value]]

\* Unregister: nothing happens to a service that is not registered.
Without(p, s) ==
    [p EXCEPT ![s] = IF @ = Nil \/ @.count = 0 THEN Nil
                     ELSE [count |-> @.count - 1, value |-> @.value]]

\* Latest.
LatestOf(p, s) == IF p[s] = Nil THEN Nil ELSE p[s].value

ClusterKnown(p, s) == \E t \in Services : ClusterOf[t] = ClusterOf[s] /\ Registered(p, t)

\* AwaitLatest returns: nil when the cluster is not in the map, or a value.  A
\* service that is not registered in a known cluster is waited for.
Answerable(p, s) == ~ClusterKnown(p, s) \/ LatestOf(p, s) # Nil

\* pollAll: the services S are described.  A client that cannot be created and
\* a call that fails leave out the services of a cluster or of a page.
Polled(p, S, actual) ==
    [s \in Services |-> IF s \in S THEN [count |-> p[s].count, value |-> actual[s]] ELSE p[s]]
=============================================================================
