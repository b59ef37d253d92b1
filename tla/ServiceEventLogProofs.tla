------------------------- MODULE ServiceEventLogProofs -------------------------
(***************************************************************************)
(* What ServiceEventLog guarantees for every number of logs, services and  *)
(* events: nothing is reported twice, nothing that AWS shows in order is   *)
(* skipped, and the logs are clients of ServicePoller.                     *)
(***************************************************************************)
EXTENDS ServiceEventLog, TLAPS, WellFoundedInduction

-----------------------------------------------------------------------------
(* The newest of the new events                                            *)

\* A non-empty set of bounded numbers has a maximum.
LEMMA Maximum ==
    ASSUME NEW top \in Nat, NEW S \in SUBSET (0 .. top), S # {}
    PROVE  \E n \in S : \A m \in S : m <= n
<1>1. PICK T : T = {top - n : n \in S}
  OBVIOUS
<1>2. T \subseteq Nat
  BY <1>1
<1>3. T # {}
  BY <1>1
<1>4. PICK x \in T : \A y \in T : ~ (<<y, x>> \in OpToRel(<, Nat))
  BY <1>2, <1>3, NatLessThanWellFounded, WFMin
<1>5. \A y \in T : ~ (y < x)
  BY <1>2, <1>4 DEF OpToRel
<1>6. PICK n \in S : x = top - n
  BY <1>1
<1>7. ASSUME NEW m \in S PROVE m <= n
  <2>1. top - m \in T
    BY <1>1
  <2>2. ~(top - m < top - n)
    BY <1>5, <1>6, <2>1
  <2>3. m \in Int /\ n \in Int
    OBVIOUS
  <2> QED  BY <2>2, <2>3
<1> QED  BY <1>7

\* The timestamp kept is not older than the one before, nor than any event
\* that is reported, and it is the time of one of them.
LEMMA NewestBounds ==
    ASSUME NEW events \in SUBSET Event, NEW t \in 0 .. MaxTime
    PROVE  /\ Newest(events, t) \in 0 .. MaxTime
           /\ t <= Newest(events, t)
           /\ \A v \in NewEvents(events, t) : v.at <= Newest(events, t)
           /\ Newest(events, t) \in {t} \cup {v.at : v \in NewEvents(events, t)}
<1> DEFINE times == {t} \cup {v.at : v \in NewEvents(events, t)}
<1>1. NewEvents(events, t) \subseteq Event
  BY DEF NewEvents
<1>2. \A v \in Event : v.at \in 0 .. MaxTime
  BY DEF Event
<1>3. times \in SUBSET (0 .. MaxTime) /\ t \in times
  BY <1>1, <1>2
<1>4. MaxTime \in Nat
  BY LogAssumption
<1>5. PICK n \in times : \A m \in times : m <= n
  <2> HIDE DEF times
  <2> QED  BY <1>3, <1>4, Maximum
<1>6. /\ Newest(events, t) \in times
      /\ \A v \in NewEvents(events, t) : v.at <= Newest(events, t)
  <2>1. \E k \in times : \A v \in NewEvents(events, t) : v.at <= k
    BY <1>5
  <2> QED  BY <2>1 DEF Newest
<1>7. t <= Newest(events, t)
  <2>1. ASSUME NEW v \in NewEvents(events, t) PROVE t <= v.at
    BY <1>1, <1>2 DEF NewEvents
  <2>2. t <= t
    OBVIOUS
  <2>3. \A m \in times : t <= m
    BY <2>1, <2>2
  <2> QED  BY <1>6, <2>3
<1> QED  BY <1>3, <1>6, <1>7

\* What a request reads are events.
LEMMA EventsTyped ==
    ASSUME NEW p \in Polls, NEW s \in Services
    PROVE  EventsOf(p, s) \in SUBSET Event
<1>1. LatestOf(p, s) \in Descriptions \cup {Nil}
  BY DEF Polls, Record, LatestOf
<1>2. Descriptions \ {Failure} = SUBSET Event
  BY LogAssumption
<1> QED  BY <1>1, <1>2 DEF EventsOf

-----------------------------------------------------------------------------
(* Types                                                                   *)

\* The map keeps its type.
LEMMA RecordsTyped ==
    ASSUME NEW p \in Polls, NEW s \in Services
    PROVE  With(p, s) \in Polls /\ Without(p, s) \in Polls
BY DEF Polls, Record, With, Without

\* Every step keeps the types.
LEMMA TypeStep == TypeOK /\ [Next]_vars => TypeOK'
<1> SUFFICES ASSUME TypeOK, [Next]_vars PROVE TypeOK'
  OBVIOUS
<1> USE DEF TypeOK
<1>a. /\ MaxTime \in Nat /\ MaxEvents \in Nat /\ Failure \in Descriptions
      /\ Descriptions \ {Failure} = SUBSET Event
      /\ Nil \notin Descriptions
  BY LogAssumption, PollAssumption
<1>b. ASSUME NEW e \in Executions, Answer(e)
      PROVE  /\ newest' \in [Executions -> 0 .. MaxTime]
             /\ read' \in [Executions -> SUBSET Event]
             /\ reported' \in [Executions -> SUBSET Event]
             /\ twice' \in BOOLEAN /\ lost' \in Nat
  <2> DEFINE events == EventsOf(polls, service[e])
  <2>1. events \in SUBSET Event
    BY EventsTyped
  <2>2. Newest(events, newest[e]) \in 0 .. MaxTime
    BY <2>1, NewestBounds
  <2>3. NewEvents(events, newest[e]) \in SUBSET Event
    BY <2>1 DEF NewEvents
  <2> QED  BY <1>b, <2>1, <2>2, <2>3 DEF Answer
<1>c. LoseAnswer => /\ newest' \in [Executions -> 0 .. MaxTime]
                    /\ read' \in [Executions -> SUBSET Event]
                    /\ reported' \in [Executions -> SUBSET Event]
                    /\ twice' \in BOOLEAN /\ lost' \in Nat
  BY DEF LoseAnswer
<1>1. ASSUME NEW e \in Executions, Prepare(e) PROVE TypeOK'
  <2>1. polls' \in Polls
    BY <1>1, RecordsTyped DEF Prepare
  <2> QED  BY <1>1, <2>1 DEF Prepare
<1>2. ASSUME NEW e \in Executions, Status(e) PROVE TypeOK'
  BY <1>2, <1>b, <1>c DEF Status
<1>3. ASSUME NEW e \in Executions, Stop(e) PROVE TypeOK'
  <2>1. polls' \in Polls
    BY <1>3, RecordsTyped DEF Stop
  <2>2. /\ phase' \in [Executions -> {"new", "failed", "running", "stopped", "stopLost"}]
        /\ repeats' \in Nat
    BY <1>3 DEF Stop
  <2>3. /\ newest' \in [Executions -> 0 .. MaxTime]
        /\ read' \in [Executions -> SUBSET Event]
        /\ reported' \in [Executions -> SUBSET Event]
        /\ twice' \in BOOLEAN /\ lost' \in Nat
    BY <1>3, <1>b, <1>c DEF Stop
  <2> QED  BY <1>3, <2>1, <2>2, <2>3 DEF Stop
<1>4. ASSUME NEW S \in SUBSET Services, PollAll(S) PROVE TypeOK'
  <2>1. polls' \in Polls
    BY <1>4 DEF PollAll, Polls, Record, Polled, Registered
  <2> QED  BY <1>4, <2>1 DEF PollAll, logs
<1>5. ASSUME NEW s \in Services, EventOccurs(s) PROVE TypeOK'
  <2>1. occurred + 1 \in 1 .. MaxEvents
    BY <1>5, <1>a DEF EventOccurs
  <2>2. PICK at \in 0 .. now :
            /\ actual' = [actual EXCEPT ![s] = @ \cup {[id |-> occurred + 1, at |-> at]}]
            /\ disordered' = (disordered \/ \E v \in actual[s] : v.at >= at)
    BY <1>5 DEF EventOccurs
  <2>3. [id |-> occurred + 1, at |-> at] \in Event
    BY <1>a, <2>1 DEF Event
  <2>4. actual[s] \in SUBSET Event
    BY <1>5, <1>a DEF EventOccurs
  <2>5. actual[s] \cup {[id |-> occurred + 1, at |-> at]} \in Descriptions
    BY <1>a, <2>3, <2>4
  <2>6. actual' \in [Services -> Descriptions]
    BY <2>2, <2>5
  <2> QED  BY <1>5, <2>1, <2>2, <2>6 DEF EventOccurs, logs
<1>6. ASSUME NEW s \in Services, ServiceIsDeleted(s) PROVE TypeOK'
  BY <1>6, <1>a DEF ServiceIsDeleted, logs
<1>7. CASE Tick
  BY <1>7, <1>a DEF Tick, logs
<1>8. CASE Restart
  BY <1>8 DEF Restart, Polls, logs
<1>9. CASE UNCHANGED vars
  BY <1>9 DEF vars
<1> QED  BY <1>1, <1>2, <1>3, <1>4, <1>5, <1>6, <1>7, <1>8, <1>9 DEF Next

\* Every reachable state of the logs and the poller is well typed.
THEOREM TypeCorrect == Spec => []TypeOK
<1>1. Init => TypeOK
  <2>1. 0 \in 0 .. MaxTime /\ 0 \in 0 .. MaxEvents /\ {} \in Descriptions
    BY LogAssumption
  <2>2. Init => polls \in Polls /\ actual \in [Services -> Descriptions]
    BY <2>1 DEF Init, Polls
  <2>3. Init => /\ phase \in [Executions -> {"new", "failed", "running", "stopped", "stopLost"}]
                /\ newest \in [Executions -> 0 .. MaxTime] /\ since \in [Executions -> 0 .. MaxTime]
    BY <2>1 DEF Init
  <2>4. Init => /\ read \in [Executions -> SUBSET Event]
                /\ reported \in [Executions -> SUBSET Event]
    BY DEF Init
  <2>5. Init => /\ now \in 0 .. MaxTime /\ occurred \in 0 .. MaxEvents
                /\ lost \in Nat /\ repeats \in Nat /\ restarts \in Nat
    BY <2>1 DEF Init
  <2>6. Init => /\ asleep \subseteq Executions /\ service \in [Executions -> Services]
                /\ twice \in BOOLEAN /\ disordered \in BOOLEAN
    BY DEF Init
  <2> QED  BY <2>2, <2>3, <2>4, <2>5, <2>6 DEF TypeOK
<1> QED  BY <1>1, TypeStep, PTL DEF Spec
-----------------------------------------------------------------------------
(* Nothing is reported twice                                               *)

\* The timestamp of a log is that of its Prepare or of the newest event it has
\* reported; a log that is not prepared has reported nothing.
Logged(e) ==
    /\ since[e] <= newest[e]
    /\ \A v \in reported[e] : since[e] < v.at /\ v.at <= newest[e]
    /\ newest[e] = since[e] \/ \E v \in reported[e] : v.at = newest[e]
    /\ phase[e] = "new" => read[e] = {} /\ reported[e] = {}
LoggedInv == ~twice /\ \A e \in Executions : Logged(e)

\* An answer reports events that are newer than all those before.
LEMMA AnswerLogs ==
    ASSUME TypeOK, LoggedInv, NEW e \in Executions, Answer(e), phase[e] # "new",
           NEW f \in Executions, UNCHANGED since, phase'[f] = "new" => phase[f] = "new"
    PROVE  ~twice' /\ Logged(f)'
<1> DEFINE events == EventsOf(polls, service[e])
           new == NewEvents(events, newest[e])
           top == Newest(events, newest[e])
<1>1. events \in SUBSET Event /\ newest[e] \in 0 .. MaxTime
  BY EventsTyped DEF TypeOK
<1>2. /\ top \in 0 .. MaxTime /\ newest[e] <= top
      /\ \A v \in new : v.at <= top
      /\ top \in {newest[e]} \cup {v.at : v \in new}
  <2> HIDE DEF events
  <2> QED  BY <1>1, NewestBounds
<1>3. \A v \in new : v \in Event /\ v.at \in 0 .. MaxTime /\ newest[e] < v.at
  BY <1>1 DEF NewEvents, Event
<1>4. \A v \in reported[e] : v.at \in 0 .. MaxTime
  BY DEF TypeOK, Event
<1>5. /\ newest' = [newest EXCEPT ![e] = top]
      /\ reported' = [reported EXCEPT ![e] = @ \cup new]
      /\ twice' = (twice \/ new \cap reported[e] # {})
      /\ read' = [read EXCEPT ![e] = @ \cup events]
  BY DEF Answer
<1> HIDE DEF events, new, top
<1>6. MaxTime \in Nat /\ since[e] \in 0 .. MaxTime /\ Logged(e) /\ Logged(f) /\ ~twice
  BY LogAssumption DEF TypeOK, LoggedInv
<1>7. ~twice'
  <2>1. \A v \in new : v \notin reported[e]
    BY <1>1, <1>3, <1>4, <1>6 DEF Logged
  <2> QED  BY <1>5, <1>6, <2>1
<1>8. CASE f # e
  BY <1>5, <1>6, <1>7, <1>8 DEF Logged, TypeOK
<1>9. CASE f = e
  <2>1. newest'[e] = top /\ reported'[e] = reported[e] \cup new /\ since'[e] = since[e]
    BY <1>5 DEF TypeOK
  <2>2. since[e] <= top
    BY <1>1, <1>2, <1>6 DEF Logged
  <2>3. \A v \in reported[e] \cup new : since[e] < v.at /\ v.at <= top
    BY <1>1, <1>2, <1>3, <1>4, <1>6 DEF Logged
  <2>4. top = since[e] \/ \E v \in reported[e] \cup new : v.at = top
    BY <1>2, <1>6 DEF Logged
  <2> QED  BY <1>7, <1>9, <2>1, <2>2, <2>3, <2>4 DEF Logged
<1> QED  BY <1>8, <1>9

\* Every step keeps the timestamps of the logs.
LEMMA LoggedStep == TypeOK /\ LoggedInv /\ [Next]_vars => LoggedInv'
<1> SUFFICES ASSUME TypeOK, LoggedInv, [Next]_vars PROVE LoggedInv'
  OBVIOUS
<1>a. ASSUME UNCHANGED <<newest, since, read, reported, twice>>,
             \A f \in Executions : phase'[f] = "new" => phase[f] = "new"
      PROVE  LoggedInv'
  BY <1>a DEF LoggedInv, Logged
<1>b. ASSUME NEW e \in Executions, Answer(e), phase[e] # "new", UNCHANGED since,
             \A f \in Executions : phase'[f] = "new" => phase[f] = "new"
      PROVE  LoggedInv'
  BY <1>b, AnswerLogs DEF LoggedInv
<1>1. ASSUME NEW e \in Executions, Prepare(e) PROVE LoggedInv'
  <2>1. phase'[e] # "new" /\ reported[e] = {} /\ UNCHANGED <<read, reported, twice>>
    BY <1>1 DEF Prepare, LoggedInv, Logged, TypeOK
  <2>2. CASE UNCHANGED <<newest, since>>
    BY <1>1, <1>a, <2>1, <2>2 DEF Prepare, TypeOK
  <2>3. CASE newest' = [newest EXCEPT ![e] = now] /\ since' = [since EXCEPT ![e] = now]
    <3>1. now <= now
      BY LogAssumption DEF TypeOK
    <3>2. ASSUME NEW f \in Executions PROVE Logged(f)'
      BY <1>1, <2>1, <2>3, <3>1 DEF Prepare, LoggedInv, Logged, TypeOK
    <3> QED  BY <2>1, <3>2 DEF LoggedInv
  <2> QED  BY <1>1, <2>2, <2>3 DEF Prepare
<1>2. ASSUME NEW e \in Executions, Status(e) PROVE LoggedInv'
  BY <1>2, <1>a, <1>b DEF Status, LoseAnswer
<1>3. ASSUME NEW e \in Executions, Stop(e) PROVE LoggedInv'
  <2>1. /\ phase[e] # "new" /\ UNCHANGED since
        /\ \A f \in Executions : phase'[f] = "new" => phase[f] = "new"
    BY <1>3 DEF Stop, TypeOK
  <2> QED  BY <1>3, <1>a, <1>b, <2>1 DEF Stop, LoseAnswer
<1>4. CASE UNCHANGED logs
  BY <1>4, <1>a DEF logs
<1>5. ASSUME NEW S \in SUBSET Services, PollAll(S) PROVE UNCHANGED logs
  BY <1>5 DEF PollAll
<1>6. ASSUME NEW s \in Services, EventOccurs(s) \/ ServiceIsDeleted(s) PROVE UNCHANGED logs
  BY <1>6 DEF EventOccurs, ServiceIsDeleted
<1>7. Tick \/ Restart \/ UNCHANGED vars => UNCHANGED logs
  BY DEF Tick, Restart, vars, logs
<1> QED  BY <1>1, <1>2, <1>3, <1>4, <1>5, <1>6, <1>7 DEF Next

\* Nothing is logged at first.
LEMMA LoggedInit == Init => LoggedInv
BY DEF Init, LoggedInv, Logged

\* No event is reported twice, and none that is older than the log, whatever
\* is lost on the way from newMessages to the platform.
THEOREM NothingIsReportedTwice == Spec => []ReportedOnce
<1>1. TypeOK /\ LoggedInv => ReportedOnce
  BY DEF LoggedInv, Logged, ReportedOnce, TypeOK, Event
<1> QED  BY <1>1, LoggedInit, LoggedStep, TypeCorrect, PTL DEF Spec
-----------------------------------------------------------------------------
(* Nothing is skipped                                                      *)

\* What the poller shows of a service is the beginning of what AWS shows.
Prefix(s) ==
    actual[s] # Failure =>
        /\ EventsOf(polls, s) \subseteq actual[s]
        /\ \A w \in EventsOf(polls, s), v \in actual[s] \ EventsOf(polls, s) : w.at < v.at

\* The events of a service that a log may meet.
Within(e) ==
    EventsOf(polls, service[e])
        \cup (IF actual[service[e]] = Failure THEN {} ELSE actual[service[e]])

\* An event up to the timestamp of the log has been reported.
Ordered(e) ==
    /\ actual[service[e]] # Failure => reported[e] \subseteq actual[service[e]]
    /\ \A v \in Within(e) : since[e] < v.at /\ v.at <= newest[e] => v \in reported[e]
    /\ \A v \in read[e] : since[e] < v.at => v \in reported[e]
OrderInv ==
    ~disordered => (\A s \in Services : Prefix(s)) /\ (\A e \in Executions : Ordered(e))

\* Registering and unregistering a service hides events at most.
LEMMA EventsKept ==
    ASSUME NEW p \in Polls, NEW s \in Services, NEW t \in Services
    PROVE  /\ EventsOf(With(p, s), t) = EventsOf(p, t)
           /\ EventsOf(Without(p, s), t) \in {EventsOf(p, t), {}}
BY PollAssumption DEF Polls, Record, With, Without, LatestOf, EventsOf

\* A poll shows what AWS shows.
LEMMA EventsPolled ==
    ASSUME NEW S \in SUBSET Services, NEW a \in [Services -> Descriptions],
           NEW p \in Polls, NEW t \in Services, \A s \in S : Registered(p, s)
    PROVE  EventsOf(Polled(p, S, a), t) =
               IF t \notin S THEN EventsOf(p, t) ELSE IF a[t] = Failure THEN {} ELSE a[t]
<1>1. a[t] # Nil /\ (t \in S => p[t] \in Record)
  BY PollAssumption DEF Registered, Polls
<1>2. CASE t \in S
  <2>1. Polled(p, S, a)[t] = [count |-> p[t].count, value |-> a[t]]
    BY <1>2 DEF Polled
  <2>2. Polled(p, S, a)[t] # Nil
    BY <1>1, <1>2, <2>1, PollAssumption DEF Record
  <2>3. LatestOf(Polled(p, S, a), t) = a[t]
    BY <2>1, <2>2 DEF LatestOf
  <2> QED  BY <1>1, <1>2, <2>3 DEF EventsOf
<1>3. CASE t \notin S
  BY <1>3 DEF Polled, LatestOf, EventsOf
<1> QED  BY <1>2, <1>3

\* A step that shows no event and hides some keeps the order.
LEMMA HidingKeepsOrder ==
    ASSUME TypeOK, OrderInv, UNCHANGED <<actual, service, newest, since, read, reported, disordered>>,
           \A s \in Services :
               \/ EventsOf(polls', s) \in {EventsOf(polls, s), {}}
               \/ EventsOf(polls', s) = (IF actual[s] = Failure THEN {} ELSE actual[s])
    PROVE  OrderInv'
<1>1. SUFFICES ASSUME ~disordered PROVE (\A s \in Services : Prefix(s)') /\ (\A e \in Executions : Ordered(e)')
  BY DEF OrderInv
<1>2. ASSUME NEW s \in Services PROVE Prefix(s)'
  BY <1>1 DEF OrderInv, Prefix
<1>3. ASSUME NEW e \in Executions PROVE Ordered(e)'
  <2>1. service[e] \in Services
    BY DEF TypeOK
  <2>2. Within(e)' \subseteq Within(e)
    BY <2>1 DEF Within
  <2> QED  BY <1>1, <2>2 DEF OrderInv, Ordered
<1> QED  BY <1>2, <1>3

\* An answer reports every event between the two timestamps: those that the
\* poller does not show yet are newer than all those it shows.
LEMMA AnswerKeepsOrder ==
    ASSUME TypeOK, LoggedInv, OrderInv, NEW e \in Executions, Answer(e),
           UNCHANGED <<actual, service, since, disordered>>,
           \A s \in Services : EventsOf(polls', s) \in {EventsOf(polls, s), {}}
    PROVE  OrderInv'
<1>1. SUFFICES ASSUME ~disordered PROVE (\A s \in Services : Prefix(s)') /\ (\A f \in Executions : Ordered(f)')
  BY DEF OrderInv
<1>2. ASSUME NEW s \in Services PROVE Prefix(s)'
  BY <1>1 DEF OrderInv, Prefix
<1>a. \A f \in Executions : Within(f)' \subseteq Within(f)
  BY DEF Within, TypeOK
<1>3. ASSUME NEW f \in Executions, f # e PROVE Ordered(f)'
  <2>1. newest'[f] = newest[f] /\ reported'[f] = reported[f] /\ read'[f] = read[f]
    BY <1>3 DEF Answer, TypeOK
  <2> QED  BY <1>1, <1>a, <2>1 DEF OrderInv, Ordered
<1>4. Ordered(e)'
  <2> DEFINE events == EventsOf(polls, service[e])
             new == NewEvents(events, newest[e])
             top == Newest(events, newest[e])
  <2>1. events \in SUBSET Event /\ newest[e] \in 0 .. MaxTime /\ service[e] \in Services
    BY EventsTyped DEF TypeOK
  <2>2. /\ top \in 0 .. MaxTime /\ \A v \in new : v.at <= top
        /\ top \in {newest[e]} \cup {v.at : v \in new}
    <3> HIDE DEF events
    <3> QED  BY <2>1, NewestBounds
  <2>3. /\ newest'[e] = top /\ reported'[e] = reported[e] \cup new
        /\ read'[e] = read[e] \cup events
    BY DEF Answer, TypeOK
  <2>4. new \subseteq events /\ \A v \in events \ new : v.at <= newest[e]
    BY <2>1 DEF NewEvents, Event
  <2>5. Prefix(service[e]) /\ Ordered(e)
    BY <1>1, <2>1 DEF OrderInv
  <2>6. \A v \in Within(e) : v \in Event
    BY <2>1, LogAssumption DEF Within, TypeOK
  <2>7. \A v \in Event : v.at \in 0 .. MaxTime
    BY DEF Event
  <2> HIDE DEF new, top
  <2>8. ASSUME NEW v \in Within(e), since[e] < v.at, v.at <= top PROVE v \in reported[e] \cup new
    <3>1. CASE v \in events
      BY <2>4, <2>5, <2>8, <3>1 DEF Ordered, Within
    <3>2. CASE v \notin events
      <4>1. actual[service[e]] # Failure /\ v \in actual[service[e]] \ events
        BY <3>2 DEF Within
      <4>2. \A w \in new : ~(v.at <= w.at)
        BY <2>1, <2>4, <2>5, <2>6, <2>7, <4>1 DEF Prefix
      <4>3. top = newest[e]
        BY <2>2, <2>8, <4>2
      <4> QED  BY <2>5, <2>8, <4>3 DEF Ordered
    <3> QED  BY <3>1, <3>2
  <2>9. ASSUME NEW v \in events, since[e] < v.at PROVE v \in reported[e] \cup new
    BY <2>4, <2>5, <2>9 DEF Ordered, Within
  <2>10. actual[service[e]] # Failure => reported[e] \cup new \subseteq actual[service[e]]
    BY <2>4, <2>5 DEF Ordered, Prefix
  <2>11. Within(e)' \subseteq Within(e)
    BY <1>a
  <2>12. \A v \in read[e] : since[e] < v.at => v \in reported[e]
    BY <2>5 DEF Ordered
  <2> HIDE DEF events
  <2> QED  BY <2>3, <2>8, <2>9, <2>10, <2>11, <2>12 DEF Ordered
<1> QED  BY <1>2, <1>3, <1>4

\* A new event that is newer than all others of its service keeps the order.
LEMMA EventKeepsOrder ==
    ASSUME TypeOK, LoggedInv, OrderInv, NEW s \in Services, EventOccurs(s)
    PROVE  OrderInv'
<1>1. SUFFICES ASSUME ~disordered' PROVE (\A t \in Services : Prefix(t)') /\ (\A e \in Executions : Ordered(e)')
  BY DEF OrderInv
<1>2. PICK at \in 0 .. now :
          /\ actual' = [actual EXCEPT ![s] = @ \cup {[id |-> occurred + 1, at |-> at]}]
          /\ disordered' = (disordered \/ \E v \in actual[s] : v.at >= at)
  BY DEF EventOccurs
<1> DEFINE event == [id |-> occurred + 1, at |-> at]
<1>3. ~disordered /\ actual[s] # Failure /\ \A v \in actual[s] : ~(v.at >= at)
  BY <1>1, <1>2 DEF EventOccurs
<1>4. actual[s] \in SUBSET Event /\ \A v \in Event : v.at \in 0 .. MaxTime
  BY <1>3, LogAssumption DEF TypeOK, Event
<1>5. at \in Int /\ event.at = at
  BY LogAssumption DEF TypeOK
<1>6. \A v \in actual[s] : v.at < event.at
  BY <1>3, <1>4, <1>5
<1>7. /\ actual'[s] = actual[s] \cup {event} /\ \A t \in Services \ {s} : actual'[t] = actual[t]
      /\ polls' = polls /\ UNCHANGED logs
  BY <1>2 DEF EventOccurs, TypeOK
<1> HIDE DEF event
<1>8. ASSUME NEW t \in Services PROVE Prefix(t)'
  <2>1. Prefix(t)
    BY <1>3 DEF OrderInv
  <2>2. CASE t # s
    BY <1>7, <2>1, <2>2 DEF Prefix
  <2>3. CASE t = s
    BY <1>3, <1>6, <1>7, <2>1, <2>3 DEF Prefix
  <2> QED  BY <2>2, <2>3
<1>9. ASSUME NEW e \in Executions PROVE Ordered(e)'
  <2>1. Ordered(e) /\ Logged(e) /\ service[e] \in Services
    BY <1>3 DEF OrderInv, LoggedInv, TypeOK
  <2>2. CASE service[e] # s
    BY <1>7, <2>1, <2>2 DEF Ordered, Within, logs
  <2>3. CASE service[e] = s
    <3>1. ~(since[e] < event.at /\ event.at <= newest[e])
      <4>1. CASE newest[e] = since[e]
        BY <1>5, <4>1 DEF TypeOK
      <4>2. CASE newest[e] # since[e]
        BY <1>3, <1>4, <1>5, <1>6, <2>1, <2>3, <4>2 DEF Logged, Ordered, TypeOK
      <4> QED  BY <4>1, <4>2
    <3>2. Within(e)' \subseteq Within(e) \cup {event}
      BY <1>3, <1>7, <2>3 DEF Within, logs
    <3>3. reported[e] \subseteq actual'[s]
      BY <1>3, <1>7, <2>1, <2>3 DEF Ordered
    <3> QED  BY <1>7, <2>1, <2>3, <3>1, <3>2, <3>3 DEF Ordered, logs
  <2> QED  BY <2>2, <2>3
<1> QED  BY <1>8, <1>9
\* Every step keeps the order.
LEMMA OrderStep == TypeOK /\ LoggedInv /\ OrderInv /\ [Next]_vars => OrderInv'
<1> SUFFICES ASSUME TypeOK, LoggedInv, OrderInv, [Next]_vars PROVE OrderInv'
  OBVIOUS
<1>1. ASSUME NEW e \in Executions, Prepare(e) PROVE OrderInv'
  <2>1. SUFFICES ASSUME ~disordered
                 PROVE (\A s \in Services : Prefix(s)') /\ (\A f \in Executions : Ordered(f)')
    BY <1>1 DEF OrderInv, Prepare
  <2>2. \A s \in Services : EventsOf(polls', s) = EventsOf(polls, s)
    BY <1>1, EventsKept DEF Prepare, TypeOK
  <2>3. ASSUME NEW s \in Services PROVE Prefix(s)'
    BY <1>1, <2>1, <2>2 DEF OrderInv, Prefix, Prepare
  <2>4. ASSUME NEW f \in Executions PROVE Ordered(f)'
    <3>1. Ordered(f) /\ Within(f)' = Within(f) /\ service[f] \in Services
      BY <1>1, <2>1, <2>2 DEF OrderInv, Within, Prepare, TypeOK
    <3>2. CASE UNCHANGED <<newest[f], since[f]>>
      BY <1>1, <3>1, <3>2 DEF Ordered, Prepare
    <3>3. CASE ~UNCHANGED <<newest[f], since[f]>>
      <4>1. f = e /\ newest'[f] = now /\ since'[f] = now
        BY <1>1, <3>3 DEF Prepare, TypeOK
      <4>2. read[f] = {} /\ reported[f] = {}
        BY <1>1, <4>1 DEF LoggedInv, Logged, Prepare
      <4>3. \A v \in Within(f) : ~(now < v.at /\ v.at <= now)
        <5>1. \A v \in Within(f) : v.at \in 0 .. MaxTime
          BY <3>1, EventsTyped, LogAssumption DEF Within, TypeOK, Event
        <5> QED  BY <5>1 DEF TypeOK
      <4> QED  BY <1>1, <3>1, <4>1, <4>2, <4>3 DEF Ordered, Prepare
    <3> QED  BY <3>2, <3>3
  <2> QED  BY <2>3, <2>4
<1>2. ASSUME NEW e \in Executions, Status(e) PROVE OrderInv'
  <2>1. CASE Answer(e)
    BY <1>2, <2>1, AnswerKeepsOrder DEF Status
  <2>2. CASE LoseAnswer
    BY <1>2, <2>2, HidingKeepsOrder DEF Status, LoseAnswer
  <2> QED  BY <1>2, <2>1, <2>2 DEF Status
<1>3. ASSUME NEW e \in Executions, Stop(e) PROVE OrderInv'
  <2>1. \A s \in Services : EventsOf(polls', s) \in {EventsOf(polls, s), {}}
    BY <1>3, EventsKept DEF Stop, TypeOK
  <2>2. CASE Answer(e)
    BY <1>3, <2>1, <2>2, AnswerKeepsOrder DEF Stop
  <2>3. CASE LoseAnswer
    BY <1>3, <2>1, <2>3, HidingKeepsOrder DEF Stop, LoseAnswer
  <2> QED  BY <1>3, <2>2, <2>3 DEF Stop
<1>4. ASSUME NEW S \in SUBSET Services, PollAll(S) PROVE OrderInv'
  <2>1. \A s \in Services :
            \/ EventsOf(polls', s) = EventsOf(polls, s)
            \/ EventsOf(polls', s) = (IF actual[s] = Failure THEN {} ELSE actual[s])
    BY <1>4, EventsPolled DEF PollAll, TypeOK
  <2> QED  BY <1>4, <2>1, HidingKeepsOrder DEF PollAll, logs
<1>5. ASSUME NEW s \in Services, EventOccurs(s) PROVE OrderInv'
  BY <1>5, EventKeepsOrder
<1>6. ASSUME NEW s \in Services, ServiceIsDeleted(s) PROVE OrderInv'
  <2>1. /\ actual'[s] = Failure /\ \A t \in Services \ {s} : actual'[t] = actual[t]
        /\ UNCHANGED <<polls, logs, disordered>>
    BY <1>6 DEF ServiceIsDeleted, TypeOK
  <2>2. ASSUME NEW t \in Services, Prefix(t) PROVE Prefix(t)'
    BY <2>1, <2>2 DEF Prefix
  <2>3. ASSUME NEW e \in Executions, Ordered(e) PROVE Ordered(e)'
    <3>1. service[e] \in Services
      BY DEF TypeOK
    <3>2. Within(e)' \subseteq Within(e)
      BY <2>1, <3>1 DEF Within, logs
    <3> QED  BY <2>1, <2>3, <3>1, <3>2 DEF Ordered, logs
  <2> QED  BY <2>1, <2>2, <2>3 DEF OrderInv
<1>7. CASE Tick
  BY <1>7, HidingKeepsOrder DEF Tick, logs
<1>8. CASE Restart
  <2>1. \A s \in Services : EventsOf(polls', s) = {}
    BY <1>8 DEF Restart, EventsOf, LatestOf
  <2> QED  BY <1>8, <2>1, HidingKeepsOrder DEF Restart, logs
<1>9. CASE UNCHANGED vars
  BY <1>9, HidingKeepsOrder DEF vars
<1> QED  BY <1>1, <1>2, <1>3, <1>4, <1>5, <1>6, <1>7, <1>8, <1>9 DEF Next

\* At first AWS shows no event.
LEMMA OrderInit == Init => OrderInv
<1> SUFFICES ASSUME Init PROVE (\A s \in Services : Prefix(s)) /\ (\A e \in Executions : Ordered(e))
  BY DEF OrderInv
<1>1. \A s \in Services : EventsOf(polls, s) = {} /\ actual[s] = {}
  BY DEF Init, EventsOf, LatestOf
<1>2. \A e \in Executions : service[e] \in Services /\ read[e] = {} /\ reported[e] = {}
  BY DEF Init
<1> QED  BY <1>1, <1>2 DEF Prefix, Ordered, Within

\* As long as AWS shows the events of a service in the order of their times, a
\* request that finds an event leaves it reported, whatever replies are lost
\* and whoever takes the registration away in between.
THEOREM NothingIsSkipped == Spec => []NothingSkipped
<1>1. OrderInv => NothingSkipped
  BY DEF OrderInv, Ordered, NothingSkipped
<1> QED  BY <1>1, OrderInit, OrderStep, LoggedInit, LoggedStep, TypeCorrect, PTL DEF Spec

-----------------------------------------------------------------------------
(* The logs are clients of the poller                                      *)

\* The functions of the instance are those of this module.
LEMMA SameMap ==
    \A p \in Polls, s \in Services :
        /\ Poller!With(p, s) = With(p, s) /\ Poller!Without(p, s) = Without(p, s)
        /\ Poller!Registered(p, s) = Registered(p, s)
        /\ \A S \in SUBSET Services, a \in [Services -> Descriptions] :
             Poller!Polled(p, S, a) = Polled(p, S, a)
BY DEF Poller!With, With, Poller!Without, Without,
       Poller!Registered, Registered, Poller!Polled, Polled

\* What a log has done with its service changes with its phase alone.
LEMMA UsingChanges ==
    ASSUME TypeOK, NEW e \in Executions, NEW x, phase' = [phase EXCEPT ![e] = x]
    PROVE  Using' = [Using EXCEPT ![e] = UsingOf(x)]
BY DEF Using, TypeOK

\* Every step is a step of the poller and its clients, or leaves them alone.
LEMMA Simulation == TypeOK /\ [Next]_vars => [Poller!Next]_(Poller!vars)
<1> SUFFICES ASSUME TypeOK, [Next]_vars PROVE [Poller!Next]_(Poller!vars)
  OBVIOUS
<1> USE SameMap DEF TypeOK
<1>1. ASSUME NEW e \in Executions, Prepare(e) PROVE Poller!Register(e)
  <2>1. Using[e] = "no"
    BY <1>1 DEF Prepare, Using, UsingOf
  <2>2. Using' = [Using EXCEPT ![e] = "registered"]
    BY <1>1, UsingChanges DEF Prepare, UsingOf
  <2>3. service' = [service EXCEPT ![e] = service[e]] /\ service[e] \in Services
    BY <1>1 DEF Prepare
  <2> QED  BY <1>1, <2>1, <2>2, <2>3 DEF Prepare, Poller!Register
<1>2. ASSUME NEW e \in Executions, Status(e) PROVE UNCHANGED Poller!vars
  BY <1>2 DEF Status, Poller!vars, Using
<1>3. ASSUME NEW e \in Executions, Stop(e) PROVE Poller!Unregister(e)
  <2>1. Using' = [Using EXCEPT ![e] = "no"] /\ service[e] \in Services
    BY <1>3, UsingChanges DEF Stop, UsingOf
  <2>2. CASE phase[e] = "running"
    <3>1. Using[e] = "registered"
      BY <2>2 DEF Using, UsingOf
    <3> QED  BY <1>3, <2>1, <2>2, <3>1 DEF Stop, Poller!Unregister
  <2>3. CASE phase[e] \in {"stopped", "stopLost"}
    <3>1. Using[e] = "no" /\ Using' = Using
      BY <1>3, <2>1, <2>3 DEF Using, UsingOf
    <3> QED  BY <1>3, <2>1, <2>3, <3>1 DEF Stop, Poller!Unregister
  <2> QED  BY <1>3, <2>2, <2>3 DEF Stop
<1>4. ASSUME NEW S \in SUBSET Services, PollAll(S) PROVE Poller!PollAll(S)
  <2>1. /\ \A s \in S : Poller!Registered(polls, s)
        /\ polls' = Poller!Polled(polls, S, actual)
    BY <1>4 DEF PollAll, Poller!Registered, Registered, Poller!Polled, Polled
  <2> QED  BY <1>4, <2>1 DEF PollAll, logs, Using, Poller!PollAll
<1>5. ASSUME NEW s \in Services, EventOccurs(s) \/ ServiceIsDeleted(s)
      PROVE  Poller!ServiceChanges(s)
  <2>1. actual' \in [Services -> Descriptions]
    BY <1>5, TypeStep DEF Next
  <2>2. PICK d : actual' = [actual EXCEPT ![s] = d]
    BY <1>5 DEF EventOccurs, ServiceIsDeleted
  <2>3. d = actual'[s]
    BY <2>2
  <2>4. d \in Descriptions
    BY <2>1, <2>3
  <2> QED  BY <1>5, <2>2, <2>4 DEF EventOccurs, ServiceIsDeleted, logs, Using, Poller!ServiceChanges
<1>6. CASE Restart
  <2>1. Using' = [e \in Executions |-> IF Using[e] = "awaiting" THEN "no" ELSE Using[e]]
    BY <1>6 DEF Restart, logs, Using, UsingOf
  <2> QED  BY <1>6, <2>1 DEF Restart, logs, Poller!Restart, Poller!Next
<1>7. CASE Tick \/ UNCHANGED vars
  BY <1>7 DEF Tick, vars, logs, Poller!vars, Using
<1> QED  BY <1>1, <1>2, <1>3, <1>4, <1>5, <1>6, <1>7 DEF Next, Poller!Next

\* The logs implement clients of the poller that never await a description.
THEOREM Implementation == Spec => ImplementsPoller
<1>1. Init => Poller!Init
  <2>1. {} \in Descriptions
    BY LogAssumption
  <2> QED  BY <2>1 DEF Init, Poller!Init, Using, UsingOf
<1> QED  BY <1>1, TypeCorrect, Simulation, PTL DEF Spec, ImplementsPoller, Poller!Spec
=============================================================================
