---------------------------- MODULE ServicePoller ----------------------------
(***************************************************************************)
(* The ServiceDescriptionPoller of extecs with any clients that register a *)
(* service, may await its first description, and unregister it.            *)
(*                                                                         *)
(* Every operation holds the mutex from its first to its last line, so     *)
(* each is one action; AwaitLatest gives the mutex back while it sleeps on *)
(* the condition variable, so a call of it is one action per wake-up.      *)
(***************************************************************************)
EXTENDS PollRecords, FiniteSets

CONSTANTS
    Clients,
    MaxRepeats,     \* bound: Unregister calls that do not match a Register
    MaxRestarts     \* bound: restarts of the extension

ASSUME BoundsAssumption ==
    IsFiniteSet(Clients) /\ MaxRepeats \in Nat /\ MaxRestarts \in Nat

VARIABLES
    polls,      \* the poller's map
    asleep,     \* the clients in cond.Wait
    actual,     \* AWS: the description of each service
    using,      \* client: what it has done with its service
    service,    \* client: the service it uses
    repeats, restarts

vars == <<polls, asleep, actual, using, service, repeats, restarts>>

Holders(s) == {c \in Clients : service[c] = s /\ using[c] \in {"registered", "awaiting"}}

-----------------------------------------------------------------------------
Init ==
    /\ polls = [s \in Services |-> Nil] /\ asleep = {}
    /\ actual \in [Services -> Descriptions]
    /\ using = [c \in Clients |-> "no"] /\ service \in [Clients -> Services]
    /\ repeats = 0 /\ restarts = 0

\* Register, by a request that returns or that goes on to await a description.
Register(c) ==
    /\ using[c] = "no"
    /\ \E s \in Services :
         /\ service' = [service EXCEPT ![c] = s]
         /\ polls' = With(polls, s)
    /\ \E next \in {"registered", "awaiting"} : using' = [using EXCEPT ![c] = next]
    /\ UNCHANGED <<asleep, actual, repeats, restarts>>

\* One turn of the loop in AwaitLatest.
AwaitLatest(c) ==
    /\ using[c] = "awaiting" /\ c \notin asleep
    /\ \/ /\ Answerable(polls, service[c])
          /\ using' = [using EXCEPT ![c] = "registered"]
          /\ UNCHANGED asleep
       \/ /\ ~Answerable(polls, service[c])
          /\ asleep' = asleep \cup {c}
          /\ UNCHANGED using
    /\ UNCHANGED <<polls, actual, service, repeats, restarts>>

\* Mutant: Unregister does not broadcast.
UnregisterQuietly(c) ==
    /\ polls' = Without(polls, service[c])
    /\ \/ /\ using[c] = "registered"
          /\ using' = [using EXCEPT ![c] = "no"]
          /\ UNCHANGED repeats
       \/ /\ using[c] = "no" /\ repeats < MaxRepeats
          /\ repeats' = repeats + 1
          /\ UNCHANGED using
    /\ UNCHANGED <<asleep, actual, service, restarts>>

\* Unregister; a client that has unregistered already may do it again.
Unregister(c) ==
    /\ polls' = Without(polls, service[c])
    /\ asleep' = {}
    /\ \/ /\ using[c] = "registered"
          /\ using' = [using EXCEPT ![c] = "no"]
          /\ UNCHANGED repeats
       \/ /\ using[c] = "no" /\ repeats < MaxRepeats
          /\ repeats' = repeats + 1
          /\ UNCHANGED using
    /\ UNCHANGED <<actual, service, restarts>>

\* pollAll describes the services S, of the registered ones, and broadcasts.
PollAll(S) ==
    /\ \A s \in S : Registered(polls, s)
    /\ polls' = Polled(polls, S, actual)
    /\ asleep' = {}
    /\ UNCHANGED <<actual, using, service, repeats, restarts>>

ServiceChanges(s) ==
    /\ \E d \in Descriptions : actual' = [actual EXCEPT ![s] = d]
    /\ UNCHANGED <<polls, asleep, using, service, repeats, restarts>>

\* The extension restarts: the map is empty, the waiting requests have failed.
Restart ==
    /\ restarts < MaxRestarts /\ restarts' = restarts + 1
    /\ polls' = [s \in Services |-> Nil] /\ asleep' = {}
    /\ using' = [c \in Clients |-> IF using[c] = "awaiting" THEN "no" ELSE using[c]]
    /\ UNCHANGED <<actual, service, repeats>>

Next ==
    \/ \E c \in Clients : Register(c) \/ AwaitLatest(c) \/ Unregister(c)
    \/ \E S \in SUBSET Services : PollAll(S)
    \/ \E s \in Services : ServiceChanges(s)
    \/ Restart

Spec == Init /\ [][Next]_vars

\* A client that is awake goes on, and every registered service is described
\* again and again: the ticker fires every five seconds.
Fairness ==
    /\ \A c \in Clients : WF_vars(AwaitLatest(c))
    /\ \A s \in Services : WF_vars(\E S \in SUBSET Services : s \in S /\ PollAll(S))

FairSpec == Spec /\ Fairness

-----------------------------------------------------------------------------
(* Properties                                                              *)

\* Every variable has its type: the map of service_description_poller.go, the
\* waiting clients and what AWS says.
TypeOK ==
    /\ polls \in Polls /\ asleep \subseteq Clients
    /\ actual \in [Services -> Descriptions]
    /\ using \in [Clients -> {"no", "registered", "awaiting"}]
    /\ service \in [Clients -> Services]
    /\ repeats \in Nat /\ restarts \in Nat

\* No wake-up is lost: whoever sleeps in AwaitLatest would still have to wait
\* if he looked at the map now.  Every operation that can make a call
\* answerable broadcasts, the deletion of a cluster by Unregister included.
NoLostWakeup ==
    \A c \in asleep : using[c] = "awaiting" /\ ~Answerable(polls, service[c])

\* As long as every Unregister matches a Register and the extension does not
\* restart, a record exists exactly while somebody holds it, and its count is
\* one less than the number of holders.
HoldersCounted ==
    repeats = 0 /\ restarts = 0 =>
        \A s \in Services :
            IF Registered(polls, s)
            THEN Cardinality(Holders(s)) = polls[s].count + 1
            ELSE Holders(s) = {}

\* A client that awaits a description gets an answer, if every Unregister
\* matches a Register that the running process has seen: its own registration
\* keeps the service in the polls.  Otherwise another client may take the
\* registration away, and it waits for ever beside a service of its cluster.
EventuallyAnswered ==
    \A c \in Clients :
        using[c] = "awaiting" ~> (using[c] # "awaiting" \/ repeats + restarts > 0)
=============================================================================
