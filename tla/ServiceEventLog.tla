---------------------------- MODULE ServiceEventLog ----------------------------
(***************************************************************************)
(* The "Service Event Log" of extecs, the other client of the poller:      *)
(* Prepare registers the service and notes the time, Start, Status and     *)
(* Stop report the events of the latest description that are newer than    *)
(* the newest one reported, and Stop unregisters the service.              *)
(*                                                                         *)
(* The messages and the new state travel in one reply: when it is lost the *)
(* platform has neither, and asks again with the state it had.             *)
(***************************************************************************)
EXTENDS PollRecords, FiniteSets

CONSTANTS
    Executions,     \* executions of the event log
    Failure,        \* the description of a service AWS does not find
    MaxEvents,      \* bound: events that occur
    MaxTime,        \* bound: the clock
    MaxDelay,       \* how long after its CreatedAt AWS may show an event
    MaxLost,        \* bound: replies that are lost
    MaxRepeats,     \* bound: repeated Stop requests
    MaxRestarts     \* bound: restarts of the extension

Event == [id : 1 .. MaxEvents, at : 0 .. MaxTime]

ASSUME LogAssumption ==
    /\ Failure \in Descriptions /\ Descriptions \ {Failure} = SUBSET Event
    /\ IsFiniteSet(Executions) /\ MaxEvents \in Nat /\ MaxTime \in Nat /\ MaxDelay \in Nat
    /\ MaxLost \in Nat /\ MaxRepeats \in Nat /\ MaxRestarts \in Nat

VARIABLES
    polls, asleep, actual,  \* the poller's map, the sleepers, AWS
    now,        \* the clock
    occurred,   \* AWS: how many events have occurred
    phase,      \* platform: how far an execution is
    service,    \* state.ServiceArn
    newest,     \* state.LatestEventTimestamp, as the platform has it
    since,      \* history: the time of Prepare
    read,       \* history: the events in the descriptions read by answered requests
    reported,   \* history: the events in the messages the platform has received
    twice,      \* history: a message has been received a second time
    disordered, \* history: AWS has shown an event that was not newer than the others
    lost, repeats, restarts

logs == <<phase, service, newest, since, read, reported, twice>>
vars == <<polls, asleep, actual, now, occurred, phase, service, newest, since, read,
          reported, twice, disordered, lost, repeats, restarts>>

-----------------------------------------------------------------------------
Init ==
    /\ polls = [s \in Services |-> Nil] /\ asleep = {}
    /\ actual = [s \in Services |-> {}]
    /\ now = 0 /\ occurred = 0
    /\ phase = [e \in Executions |-> "new"]
    /\ service \in [Executions -> Services]
    /\ newest = [e \in Executions |-> 0] /\ since = [e \in Executions |-> 0]
    /\ read = [e \in Executions |-> {}] /\ reported = [e \in Executions |-> {}]
    /\ twice = FALSE /\ disordered = FALSE
    /\ lost = 0 /\ repeats = 0 /\ restarts = 0

\* Mutant: the service is not registered.
PrepareUnregistered(e) ==
    /\ phase[e] = "new"
    /\ phase' = [phase EXCEPT ![e] = "running"]
    /\ newest' = [newest EXCEPT ![e] = now] /\ since' = [since EXCEPT ![e] = now]
    /\ UNCHANGED <<polls, asleep, actual, now, occurred, service, read, reported, twice,
                   disordered, lost, repeats, restarts>>

\* Prepare; the platform does not start, or stop, what it could not prepare.
Prepare(e) ==
    /\ phase[e] = "new"
    /\ polls' = With(polls, service[e])
    /\ \/ /\ phase' = [phase EXCEPT ![e] = "running"]
          /\ newest' = [newest EXCEPT ![e] = now] /\ since' = [since EXCEPT ![e] = now]
          /\ UNCHANGED lost
       \/ /\ lost < MaxLost /\ lost' = lost + 1
          /\ phase' = [phase EXCEPT ![e] = "failed"]
          /\ UNCHANGED <<newest, since>>
    /\ UNCHANGED <<asleep, actual, now, occurred, service, read, reported, twice,
                   disordered, repeats, restarts>>

\* The events of the description a request reads; none without a description.
EventsOf(p, s) == IF LatestOf(p, s) \in {Nil, Failure} THEN {} ELSE LatestOf(p, s)

\* Mutant: an event at the instant of the newest one is reported again.
NewEventsAgain(events, t) == {v \in events : v.at >= t}

\* filterEventsAfter: the events that are new ...
NewEvents(events, t) == {v \in events : v.at > t}

\* Mutant: the time of the request is kept.
NewestOfNow(events, t) == now

\* ... and the time of the newest event.
Newest(events, t) ==
    CHOOSE n \in {t} \cup {v.at : v \in NewEvents(events, t)} :
        \A v \in NewEvents(events, t) : v.at <= n

\* newMessages: the platform receives the messages and the new state.
Answer(e) ==
    LET events == EventsOf(polls, service[e])
        new == NewEvents(events, newest[e]) IN
    /\ newest' = [newest EXCEPT ![e] = Newest(events, newest[e])]
    /\ reported' = [reported EXCEPT ![e] = @ \cup new]
    /\ twice' = (twice \/ new \cap reported[e] # {})
    /\ read' = [read EXCEPT ![e] = @ \cup events]
    /\ UNCHANGED lost

LoseAnswer == lost < MaxLost /\ lost' = lost + 1 /\ UNCHANGED <<newest, reported, twice, read>>

\* Start and Status; the platform asks again, or stops, when it gets no answer.
Status(e) ==
    /\ phase[e] = "running"
    /\ Answer(e) \/ LoseAnswer
    /\ UNCHANGED <<polls, asleep, actual, now, occurred, phase, service, since, disordered,
                   repeats, restarts>>

\* Stop, once the duration is over, the experiment is cancelled or the answer
\* to another Stop was lost: its messages first, then Unregister.  Its reply
\* carries no state, but nobody asks for more once it has arrived.
Stop(e) ==
    /\ \/ phase[e] = "running" /\ UNCHANGED repeats
       \/ phase[e] = "stopLost" /\ repeats < MaxRepeats /\ repeats' = repeats + 1
    /\ \/ Answer(e) /\ phase' = [phase EXCEPT ![e] = "stopped"]
       \/ LoseAnswer /\ phase' = [phase EXCEPT ![e] = "stopLost"]
    /\ polls' = Without(polls, service[e])
    /\ asleep' = {}
    /\ UNCHANGED <<actual, now, occurred, service, since, disordered, restarts>>

(* The poller, AWS and the process ----------------------------------------- *)

PollAll(S) ==
    /\ \A s \in S : Registered(polls, s)
    /\ polls' = Polled(polls, S, actual)
    /\ asleep' = {}
    /\ UNCHANGED <<actual, now, occurred, logs, disordered, lost, repeats, restarts>>

Tick ==
    /\ now < MaxTime /\ now' = now + 1
    /\ UNCHANGED <<polls, asleep, actual, occurred, logs, disordered, lost, repeats, restarts>>

\* AWS shows an event of a service that occurred at most MaxDelay ago.
EventOccurs(s) ==
    /\ occurred < MaxEvents /\ actual[s] # Failure
    /\ occurred' = occurred + 1
    /\ \E at \in 0 .. now :
         /\ at >= now - MaxDelay
         /\ actual' = [actual EXCEPT ![s] = @ \cup {[id |-> occurred', at |-> at]}]
         /\ disordered' = (disordered \/ \E v \in actual[s] : v.at >= at)
    /\ UNCHANGED <<polls, asleep, now, logs, lost, repeats, restarts>>

ServiceIsDeleted(s) ==
    /\ actual[s] # Failure
    /\ actual' = [actual EXCEPT ![s] = Failure]
    /\ UNCHANGED <<polls, asleep, now, occurred, logs, disordered, lost, repeats, restarts>>

Restart ==
    /\ restarts < MaxRestarts /\ restarts' = restarts + 1
    /\ polls' = [s \in Services |-> Nil] /\ asleep' = {}
    /\ UNCHANGED <<actual, now, occurred, logs, disordered, lost, repeats>>

Next ==
    \/ \E e \in Executions : Prepare(e) \/ Status(e) \/ Stop(e)
    \/ \E S \in SUBSET Services : PollAll(S)
    \/ \E s \in Services : EventOccurs(s) \/ ServiceIsDeleted(s)
    \/ Tick \/ Restart

Spec == Init /\ [][Next]_vars

-----------------------------------------------------------------------------
(* Properties                                                              *)

\* Every variable has its type: EcsServiceEventLogState and the poller.
TypeOK ==
    /\ polls \in Polls /\ asleep \subseteq Executions
    /\ actual \in [Services -> Descriptions]
    /\ now \in 0 .. MaxTime /\ occurred \in 0 .. MaxEvents
    /\ phase \in [Executions -> {"new", "failed", "running", "stopped", "stopLost"}]
    /\ service \in [Executions -> Services]
    /\ newest \in [Executions -> 0 .. MaxTime] /\ since \in [Executions -> 0 .. MaxTime]
    /\ read \in [Executions -> SUBSET Event] /\ reported \in [Executions -> SUBSET Event]
    /\ twice \in BOOLEAN /\ disordered \in BOOLEAN
    /\ lost \in Nat /\ repeats \in Nat /\ restarts \in Nat

\* No event is reported a second time, nor one that is older than the log,
\* whichever replies are lost, whoever else unregisters the service, and in
\* whatever order AWS shows its events.
ReportedOnce ==
    ~twice /\ \A e \in Executions : \A v \in reported[e] : v.at > since[e]

\* As long as AWS shows the events of a service in the order of their times,
\* every event since Prepare that a request found in the poller's description
\* has been reported, lost replies, restarts and lost registrations included.
\* It is not so for an event that shows up late or in the same instant as the
\* newest one reported.
NothingSkipped ==
    \A e \in Executions :
        ~disordered => \A v \in read[e] : v.at > since[e] => v \in reported[e]

\* The log is a client of the poller that never awaits a description: every
\* step of it is a step of ServicePoller or leaves its state alone.
UsingOf(p) == IF p \in {"running", "failed"} THEN "registered" ELSE "no"
Using == [e \in Executions |-> UsingOf(phase[e])]
Poller == INSTANCE ServicePoller WITH Clients <- Executions, using <- Using
ImplementsPoller == Poller!Spec
=============================================================================
