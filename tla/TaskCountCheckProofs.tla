------------------------- MODULE TaskCountCheckProofs -------------------------
(***************************************************************************)
(* What TaskCountCheck guarantees for every number of checks and services: *)
(* the checks are clients of ServicePoller, so its counts are theirs, and  *)
(* a check that nobody disturbs passes on counts that AWS has shown.       *)
(***************************************************************************)
EXTENDS TaskCountCheck, TLAPS

PollerProofs == INSTANCE ServicePollerProofs WITH Clients <- Executions, using <- Using

-----------------------------------------------------------------------------
(* Types                                                                   *)

\* What is seen of a check are counts of AWS.
LEMMA LatestTyped ==
    ASSUME NEW p \in Polls, NEW s \in Services
    PROVE  LatestOf(p, s) \in Descriptions \cup {Nil}
BY DEF Polls, Record, LatestOf

\* Every step keeps the types.
LEMMA TypeStep == TypeOK /\ [Next]_vars => TypeOK'
<1> SUFFICES ASSUME TypeOK, [Next]_vars PROVE TypeOK'
  OBVIOUS
<1> USE CheckAssumption DEF TypeOK
<1>1. ASSUME NEW e \in Executions, Prepare(e) PROVE TypeOK'
  BY <1>1, PollerProofs!RecordsTyped
  DEF Prepare, Polls, Record, With
<1>2. ASSUME NEW e \in Executions, AwaitLatest(e) PROVE TypeOK'
  BY <1>2 DEF AwaitLatest, Counts
<1>3. ASSUME NEW e \in Executions, Status(e) PROVE TypeOK'
  BY <1>3 DEF Status
<1>4. ASSUME NEW e \in Executions, TimeoutPasses(e) PROVE TypeOK'
  BY <1>4 DEF TimeoutPasses
<1>5. ASSUME NEW e \in Executions, Stop(e) PROVE TypeOK'
  BY <1>5 DEF Stop, Polls, Record, Without
<1>6. ASSUME NEW S \in SUBSET Services, PollAll(S) PROVE TypeOK'
  BY <1>6 DEF PollAll, Polls, Record, Polled, Registered, Counts
<1>7. ASSUME NEW s \in Services, ServiceChanges(s) PROVE TypeOK'
  BY <1>7 DEF ServiceChanges, checks
<1>8. CASE Restart
  BY <1>8 DEF Restart, Polls
<1>9. CASE UNCHANGED vars
  BY <1>9 DEF vars
<1> QED  BY <1>1, <1>2, <1>3, <1>4, <1>5, <1>6, <1>7, <1>8, <1>9 DEF Next

\* Every reachable state of the checks and the poller is well typed.
THEOREM TypeCorrect == Spec => []TypeOK
<1>1. Init => TypeOK
  BY DEF Init, TypeOK, Polls
<1> QED  BY <1>1, TypeStep, PTL DEF Spec

-----------------------------------------------------------------------------
(* The checks are clients of the poller                                    *)

\* The functions of the instance are those of this module.
LEMMA SameMap ==
    \A p \in Polls, s \in Services :
        /\ Poller!With(p, s) = With(p, s) /\ Poller!Without(p, s) = Without(p, s)
        /\ Poller!Answerable(p, s) = Answerable(p, s)
        /\ Poller!Registered(p, s) = Registered(p, s)
        /\ \A S \in SUBSET Services, a \in [Services -> Descriptions] :
             Poller!Polled(p, S, a) = Polled(p, S, a)
BY DEF Poller!With, With, Poller!Without, Without, Poller!Answerable, Answerable,
       Poller!ClusterKnown, ClusterKnown, Poller!LatestOf, LatestOf,
       Poller!Registered, Registered, Poller!Polled, Polled

\* What an execution has done with its service changes with its phase alone.
LEMMA UsingChanges ==
    ASSUME TypeOK, NEW e \in Executions, NEW x, phase' = [phase EXCEPT ![e] = x]
    PROVE  Using' = [Using EXCEPT ![e] = UsingOf(x)]
BY DEF Using, TypeOK

\* Every step of a check or of the environment is a step of the poller and its
\* clients, or leaves them alone.
LEMMA Simulation == TypeOK /\ [Next]_vars => [Poller!Next]_(Poller!vars)
<1> SUFFICES ASSUME TypeOK, [Next]_vars PROVE [Poller!Next]_(Poller!vars)
  OBVIOUS
<1> USE SameMap DEF TypeOK
<1>1. ASSUME NEW e \in Executions, Prepare(e) PROVE Poller!Register(e)
  <2>1. Using[e] = "no" /\ Using' = [Using EXCEPT ![e] = "awaiting"]
    BY <1>1, UsingChanges DEF Prepare, Using, UsingOf
  <2>2. service' = [service EXCEPT ![e] = service[e]] /\ service[e] \in Services
    BY <1>1 DEF Prepare
  <2> QED  BY <1>1, <2>1, <2>2 DEF Prepare, Poller!Register
<1>2. ASSUME NEW e \in Executions, AwaitLatest(e) PROVE Poller!AwaitLatest(e)
  <2>1. Using[e] = "awaiting" /\ service[e] \in Services
    BY <1>2 DEF AwaitLatest, Using, UsingOf
  <2>2. CASE ~Answerable(polls, service[e])
    <3>1. Using' = Using
      BY <1>2, <2>2 DEF AwaitLatest, Using
    <3> QED  BY <1>2, <2>1, <2>2, <3>1 DEF AwaitLatest, Poller!AwaitLatest
  <2>3. CASE Answerable(polls, service[e])
    <3>1. Using' = [Using EXCEPT ![e] = "registered"]
      BY <1>2, <2>3, UsingChanges DEF AwaitLatest, UsingOf
    <3> QED  BY <1>2, <2>1, <2>3, <3>1 DEF AwaitLatest, Poller!AwaitLatest
  <2> QED  BY <2>2, <2>3
<1>3. ASSUME NEW e \in Executions, Status(e) \/ TimeoutPasses(e) PROVE UNCHANGED Poller!vars
  BY <1>3 DEF Status, TimeoutPasses, Poller!vars, Using
<1>4. ASSUME NEW e \in Executions, Stop(e) PROVE Poller!Unregister(e)
  <2>1. Using' = [Using EXCEPT ![e] = "no"] /\ service[e] \in Services
    BY <1>4, UsingChanges DEF Stop, UsingOf
  <2>2. CASE phase[e] = "running"
    <3>1. Using[e] = "registered"
      BY <2>2 DEF Using, UsingOf
    <3> QED  BY <1>4, <2>1, <2>2, <3>1 DEF Stop, Poller!Unregister
  <2>3. CASE phase[e] = "stopped"
    <3>1. Using[e] = "no" /\ Using' = Using
      BY <1>4, <2>3 DEF Stop, Using, UsingOf
    <3> QED  BY <1>4, <2>1, <2>3, <3>1 DEF Stop, Poller!Unregister
  <2> QED  BY <1>4, <2>2, <2>3 DEF Stop
<1>5. ASSUME NEW S \in SUBSET Services, PollAll(S) PROVE Poller!PollAll(S)
  <2>1. /\ \A s \in S : Poller!Registered(polls, s)
        /\ polls' = Poller!Polled(polls, S, actual)
    BY <1>5 DEF PollAll, Poller!Registered, Registered, Poller!Polled, Polled
  <2>2. Using' = Using
    BY <1>5 DEF PollAll, Using
  <2> QED  BY <1>5, <2>1, <2>2 DEF PollAll, Poller!PollAll
<1>6. ASSUME NEW s \in Services, ServiceChanges(s) PROVE Poller!ServiceChanges(s)
  BY <1>6 DEF ServiceChanges, checks, Poller!ServiceChanges, Using
<1>7. CASE Restart
  <2>1. Using' = [e \in Executions |-> IF Using[e] = "awaiting" THEN "no" ELSE Using[e]]
    BY <1>7 DEF Restart, Using, UsingOf
  <2> QED  BY <1>7, <2>1 DEF Restart, Poller!Restart, Poller!Next
<1>8. CASE UNCHANGED vars
  BY <1>8 DEF vars, Poller!vars, Using
<1> QED  BY <1>1, <1>2, <1>3, <1>4, <1>5, <1>6, <1>7, <1>8 DEF Next, Poller!Next

\* The checks implement clients of the poller: what holds of any clients that
\* register, await and unregister holds of Prepare, Status and Stop.
THEOREM Implementation == Spec => ImplementsPoller
<1>1. Init => Poller!Init
  BY DEF Init, Poller!Init, Using, UsingOf
<1> QED  BY <1>1, TypeCorrect, Simulation, PTL DEF Spec, ImplementsPoller, Poller!Spec

\* In particular the counts of the poller are those of the checks.
LEMMA PollerCounts == Spec => []PollerProofs!HoldersCounted
<1>1. Poller!Init => PollerProofs!Init
  BY DEF Poller!Init, PollerProofs!Init
<1>2. [Poller!Next]_(Poller!vars) => [PollerProofs!Next]_(PollerProofs!vars)
  BY DEF Poller!Next, PollerProofs!Next, Poller!vars, PollerProofs!vars,
         Poller!Register, PollerProofs!Register, Poller!AwaitLatest, PollerProofs!AwaitLatest,
         Poller!Unregister, PollerProofs!Unregister, Poller!PollAll, PollerProofs!PollAll,
         Poller!ServiceChanges, PollerProofs!ServiceChanges, Poller!Restart, PollerProofs!Restart,
         Poller!With, PollerProofs!With, Poller!Without, PollerProofs!Without,
         Poller!Answerable, PollerProofs!Answerable, Poller!ClusterKnown, PollerProofs!ClusterKnown,
         Poller!LatestOf, PollerProofs!LatestOf, Poller!Registered, PollerProofs!Registered,
         Poller!Polled, PollerProofs!Polled
<1>3. PollerProofs!PollAssumption
  BY PollAssumption
<1>4. PollerProofs!BoundsAssumption
  BY CheckAssumption DEF IsFiniteSet, PollerProofs!IsFiniteSet
<1> QED  BY <1>1, <1>2, <1>3, <1>4, Implementation, PollerProofs!HoldersAreCounted, PTL DEF ImplementsPoller, Poller!Spec, PollerProofs!Spec

-----------------------------------------------------------------------------
(* What an undisturbed check sees                                          *)

Undisturbed == repeats = 0 /\ restarts = 0

\* A running check is registered, has a description, and its counts have been
\* shown by AWS since its Prepare; no check is decided before it runs.
Follows(e) ==
    /\ phase[e] = "running" =>
         /\ Registered(polls, service[e])
         /\ LatestOf(polls, service[e]) # Nil
         /\ LatestOf(polls, service[e]) \in Counts =>
              LatestOf(polls, service[e]) \in shown[e]
    /\ phase[e] \in {"new", "awaiting"} => verdict[e] = "none"
FollowsInv == Undisturbed => \A e \in Executions : Follows(e)

\* Who runs holds a registration, so no Stop of another check takes it away.
RegisteredInv ==
    Undisturbed =>
        \A e \in Executions : phase[e] = "running" => Registered(polls, service[e])

\* Without repeats and restarts a running check is among the holders that the
\* poller counts, so its service is registered.
LEMMA RunningIsRegistered == TypeOK /\ PollerProofs!HoldersCounted => RegisteredInv
<1> SUFFICES ASSUME TypeOK, PollerProofs!HoldersCounted, Undisturbed,
                    NEW e \in Executions, phase[e] = "running"
             PROVE  Registered(polls, service[e])
  BY DEF RegisteredInv
<1>1. e \in PollerProofs!Holders(service[e])
  BY DEF PollerProofs!Holders, Using, UsingOf
<1>2. PollerProofs!Registered(polls, service[e])
  BY <1>1 DEF PollerProofs!HoldersCounted, Undisturbed, TypeOK
<1> QED  BY <1>2 DEF PollerProofs!Registered, Registered

\* What Register and Unregister leave in the map has the value it had.
LEMMA ValuesKept ==
    ASSUME NEW p \in Polls, NEW s \in Services, NEW t \in Services, Registered(p, t)
    PROVE  /\ Registered(With(p, s), t) /\ LatestOf(With(p, s), t) = LatestOf(p, t)
           /\ Registered(Without(p, s), t) => LatestOf(Without(p, s), t) = LatestOf(p, t)
BY PollAssumption DEF Polls, Record, With, Without, Registered, LatestOf

\* Every step keeps what an undisturbed check sees.
LEMMA FollowsStep ==
    TypeOK /\ TypeOK' /\ FollowsInv /\ RegisteredInv' /\ [Next]_vars => FollowsInv'
<1> SUFFICES ASSUME TypeOK, TypeOK', FollowsInv, RegisteredInv', [Next]_vars, Undisturbed',
                    NEW e \in Executions
             PROVE  Follows(e)'
  BY DEF FollowsInv
<1>0. Undisturbed => Follows(e)
  BY DEF FollowsInv
<1>1. ASSUME NEW d \in Executions, Prepare(d) PROVE Follows(e)'
  <2>1. Follows(e) /\ service[d] \in Services /\ service[e] \in Services /\ polls \in Polls
    BY <1>0, <1>1 DEF Prepare, Undisturbed, TypeOK
  <2>2. phase[e] = "running" => Registered(polls, service[e])
    BY <2>1 DEF Follows
  <2>3. phase'[e] = "running" => phase[e] = "running"
    BY <1>1 DEF Prepare, TypeOK
  <2>4. phase'[e] \in {"new", "awaiting"} => phase[e] \in {"new", "awaiting"}
    BY <1>1 DEF Prepare, TypeOK
  <2> QED  BY <1>1, <2>1, <2>2, <2>3, <2>4, ValuesKept DEF Prepare, Follows
<1>2. ASSUME NEW d \in Executions, AwaitLatest(d) PROVE Follows(e)'
  <2>1. Follows(e)
    BY <1>0, <1>2 DEF AwaitLatest, Undisturbed
  <2>2. CASE e # d \/ phase' = phase
    BY <1>2, <2>1, <2>2 DEF AwaitLatest, Follows, TypeOK
  <2>3. CASE e = d /\ phase' # phase
    BY <1>2, <2>3, PollAssumption DEF AwaitLatest, Follows, TypeOK, Counts, Registered, LatestOf
  <2> QED  BY <2>2, <2>3
<1>3. ASSUME NEW d \in Executions, Status(d) \/ TimeoutPasses(d) PROVE Follows(e)'
  <2>1. Follows(e)
    BY <1>0, <1>3 DEF Status, TimeoutPasses, Undisturbed
  <2>2. /\ UNCHANGED <<polls, phase, service, shown>>
        /\ phase[e] \in {"new", "awaiting"} => verdict'[e] = verdict[e]
    BY <1>3 DEF Status, TimeoutPasses, TypeOK
  <2> QED  BY <2>1, <2>2 DEF Follows
<1>4. ASSUME NEW d \in Executions, Stop(d) PROVE Follows(e)'
  <2>1. Follows(e) /\ service[d] \in Services /\ service[e] \in Services /\ polls \in Polls
    BY <1>0, <1>4 DEF Stop, Undisturbed, TypeOK
  <2>2. /\ phase'[e] = "running" => phase[e] = "running"
        /\ phase'[e] \in {"new", "awaiting"} => phase[e] = phase'[e]
    BY <1>4 DEF Stop, TypeOK
  <2>3. phase'[e] = "running" => Registered(polls, service[e])
    BY <2>1, <2>2 DEF Follows
  <2>4. phase'[e] = "running" => Registered(polls', service[e])
    BY <1>4 DEF Stop, RegisteredInv, Registered
  <2> QED  BY <1>4, <2>1, <2>2, <2>3, <2>4, ValuesKept DEF Stop, Follows
<1>5. ASSUME NEW S \in SUBSET Services, PollAll(S) PROVE Follows(e)'
  <2>1. Follows(e) /\ service[e] \in Services /\ actual[service[e]] \in Descriptions
    BY <1>0, <1>5 DEF PollAll, Undisturbed, TypeOK
  <2>2. polls'[service[e]] =
          IF service[e] \in S THEN [count |-> polls[service[e]].count, value |-> actual[service[e]]]
          ELSE polls[service[e]]
    BY <1>5, <2>1 DEF PollAll, Polled
  <2>3. CASE service[e] \in S
    <3>1. Registered(polls', service[e]) /\ LatestOf(polls', service[e]) = actual[service[e]]
      <4>1. polls'[service[e]] \in Record
        BY <1>5, <2>1, <2>2, <2>3 DEF PollAll, Record, Registered, Polls, TypeOK
      <4>2. polls'[service[e]] # Nil
        BY <4>1, PollAssumption DEF Record
      <4> QED  BY <2>2, <2>3, <4>2 DEF Registered, LatestOf
    <3>2. phase[e] = "running" /\ actual[service[e]] \in Counts => actual[service[e]] \in shown'[e]
      BY <1>5, <2>3 DEF PollAll
    <3> QED  BY <1>5, <2>1, <3>1, <3>2, PollAssumption DEF PollAll, Follows
  <2>4. CASE service[e] \notin S
    <3>1. shown'[e] = shown[e]
      BY <1>5, <2>4 DEF PollAll
    <3> QED  BY <1>5, <2>1, <2>2, <2>4, <3>1 DEF PollAll, Follows, Registered, LatestOf
  <2> QED  BY <2>3, <2>4
<1>6. ASSUME NEW s \in Services, ServiceChanges(s) PROVE Follows(e)'
  BY <1>0, <1>6 DEF ServiceChanges, checks, Undisturbed, Follows
<1>7. CASE Restart
  BY <1>7 DEF Restart, Undisturbed, TypeOK
<1>8. CASE UNCHANGED vars
  BY <1>0, <1>8 DEF vars, Undisturbed, Follows
<1> QED  BY <1>1, <1>2, <1>3, <1>4, <1>5, <1>6, <1>7, <1>8 DEF Next

\* At first no check runs and none is decided.
LEMMA FollowsInit == Init => FollowsInv
BY DEF Init, FollowsInv, Follows

\* Undisturbed checks follow the poller in every reachable state.
LEMMA FollowsAlways == Spec => [](TypeOK /\ RegisteredInv /\ FollowsInv)
BY TypeCorrect, PollerCounts, RunningIsRegistered, FollowsInit, FollowsStep, PTL DEF Spec

\* The description that Status reads is never missing while nobody repeats a
\* Stop and the extension does not restart.
THEOREM RunningChecksArePolled == Spec => []RunningIsPolled
<1>1. FollowsInv => RunningIsPolled
  BY DEF FollowsInv, Follows, RunningIsPolled, Undisturbed
<1> QED  BY <1>1, FollowsAlways, PTL

\* Every step of an undisturbed check keeps the reasons of the verdicts.
LEMMA VerdictStep ==
    TypeOK /\ FollowsInv /\ PassedMeansMetUndisturbed /\ [Next]_vars => PassedMeansMetUndisturbed'
<1> SUFFICES ASSUME TypeOK, FollowsInv, PassedMeansMetUndisturbed, [Next]_vars, Undisturbed',
                    NEW e \in Executions, verdict'[e] = "passed"
             PROVE  Justified(e)'
  BY DEF PassedMeansMetUndisturbed, PassedMeansMet, Undisturbed
<1>0. Undisturbed => Follows(e) /\ (verdict[e] = "passed" => Justified(e))
  BY DEF FollowsInv, PassedMeansMetUndisturbed, PassedMeansMet, Undisturbed
<1>1. ASSUME Undisturbed, verdict' = verdict, initial'[e] = initial[e], mode' = mode,
             shown[e] \subseteq shown'[e]
      PROVE  Justified(e)'
  BY <1>0, <1>1 DEF Justified
<1>2. ASSUME NEW d \in Executions, Prepare(d) \/ TimeoutPasses(d) \/ Stop(d) PROVE Justified(e)'
  BY <1>1, <1>2 DEF Prepare, TimeoutPasses, Stop, Undisturbed, TypeOK
<1>3. ASSUME NEW d \in Executions, AwaitLatest(d) PROVE Justified(e)'
  <2>1. e = d => verdict[e] = "none"
    BY <1>0, <1>3 DEF AwaitLatest, Undisturbed, Follows
  <2> QED  BY <1>1, <1>3, <2>1 DEF AwaitLatest, Undisturbed, TypeOK
<1>4. ASSUME NEW d \in Executions, Status(d) PROVE Justified(e)'
  <2>1. Follows(e) /\ UNCHANGED <<shown, mode, initial, phase>>
    BY <1>0, <1>4 DEF Status, Undisturbed
  <2>2. CASE verdict[e] = "passed"
    BY <1>0, <1>4, <2>1, <2>2 DEF Status, Undisturbed, Justified
  <2>3. CASE verdict[e] # "passed"
    <3>1. phase[e] = "running" /\ ~CheckError(e)
      BY <1>4, <2>3 DEF Status, TypeOK
    <3>2. LatestOf(polls, service[e]) \in Counts
      BY <2>1, <3>1, LatestTyped DEF Follows, CheckError, Counts, TypeOK
    <3> QED  BY <2>1, <3>1, <3>2 DEF Follows, CheckError, Justified
  <2> QED  BY <2>2, <2>3
<1>5. ASSUME NEW S \in SUBSET Services, PollAll(S) PROVE Justified(e)'
  BY <1>1, <1>5 DEF PollAll, Undisturbed, TypeOK
<1>6. ASSUME NEW s \in Services, ServiceChanges(s) PROVE Justified(e)'
  BY <1>1, <1>6 DEF ServiceChanges, checks, Undisturbed
<1>7. CASE Restart
  BY <1>7 DEF Restart, Undisturbed, TypeOK
<1>8. CASE UNCHANGED vars
  BY <1>1, <1>8 DEF vars, Undisturbed
<1> QED  BY <1>2, <1>3, <1>4, <1>5, <1>6, <1>7, <1>8 DEF Next

\* A check passes only after AWS has shown counts of its service that meet its
\* mode, whatever other checks of the service come and go, unless a Stop is
\* repeated or the extension restarts.
THEOREM UndisturbedPassIsJustified == Spec => []PassedMeansMetUndisturbed
<1>1. Init => PassedMeansMetUndisturbed
  BY DEF Init, PassedMeansMetUndisturbed, PassedMeansMet
<1> QED  BY <1>1, FollowsAlways, VerdictStep, PTL DEF Spec
=============================================================================
