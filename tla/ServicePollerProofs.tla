------------------------- MODULE ServicePollerProofs -------------------------
(***************************************************************************)
(* What ServicePoller guarantees for every number of clients, services and *)
(* clusters.  NoLostWakeup is inductive beside the types; HoldersCounted   *)
(* needs the number of holders to follow every change of a count.          *)
(***************************************************************************)
EXTENDS ServicePoller, FiniteSetTheorems, TLAPS

-----------------------------------------------------------------------------
(* The functions on the map                                                *)

\* The map keeps its type: a count that Unregister lowers was not zero.
LEMMA RecordsTyped ==
    ASSUME NEW p \in Polls, NEW s \in Services
    PROVE  With(p, s) \in Polls /\ Without(p, s) \in Polls
BY DEF Polls, Record, With, Without

\* A poll keeps the type of the map when it describes registered services only.
LEMMA PolledTyped ==
    ASSUME NEW p \in Polls, NEW S \in SUBSET Services,
           NEW a \in [Services -> Descriptions], \A s \in S : Registered(p, s)
    PROVE  Polled(p, S, a) \in Polls
BY DEF Polls, Record, Polled, Registered

\* Register answers nobody: the cluster of a sleeper is known before and after,
\* and a new record has no value.
LEMMA WithAnswersNobody ==
    ASSUME NEW p \in Polls, NEW s \in Services, NEW t \in Services,
           ~Answerable(p, t)
    PROVE  ~Answerable(With(p, s), t)
<1>1. \A u \in Services : Registered(p, u) => Registered(With(p, s), u)
  BY PollAssumption DEF Polls, Record, With, Registered
<1>2. LatestOf(With(p, s), t) = Nil
  BY PollAssumption DEF Polls, Record, With, LatestOf, Answerable
<1> QED  BY <1>1, <1>2 DEF Answerable, ClusterKnown

\* What the functions do to the records of the services.
LEMMA WithRegisters ==
    ASSUME NEW p \in Polls, NEW s \in Services
    PROVE  /\ Registered(With(p, s), s)
           /\ With(p, s)[s].count = IF Registered(p, s) THEN p[s].count + 1 ELSE 0
           /\ \A t \in Services \ {s} : With(p, s)[t] = p[t]
BY PollAssumption DEF Polls, Record, With, Registered

\* Unregister lowers the count of the service, deletes the record of the last
\* registration and leaves the other records alone.
LEMMA WithoutUnregisters ==
    ASSUME NEW p \in Polls, NEW s \in Services, Registered(p, s)
    PROVE  /\ Registered(Without(p, s), s) <=> p[s].count # 0
           /\ p[s].count # 0 => Without(p, s)[s].count = p[s].count - 1
           /\ \A t \in Services \ {s} : Without(p, s)[t] = p[t]
BY PollAssumption DEF Polls, Record, Without, Registered

\* A poll changes no count and registers nothing.
LEMMA PolledKeepsCounts ==
    ASSUME NEW p \in Polls, NEW S \in SUBSET Services,
           NEW a \in [Services -> Descriptions], \A s \in S : Registered(p, s)
    PROVE  \A s \in Services : /\ Registered(Polled(p, S, a), s) <=> Registered(p, s)
                               /\ Registered(p, s) => Polled(p, S, a)[s].count = p[s].count
BY PollAssumption DEF Polls, Record, Polled, Registered

-----------------------------------------------------------------------------
(* Types and wake-ups                                                      *)

\* Every step keeps the types.
LEMMA TypeStep == TypeOK /\ [Next]_vars => TypeOK'
<1> SUFFICES ASSUME TypeOK, [Next]_vars PROVE TypeOK'
  OBVIOUS
<1> USE BoundsAssumption DEF TypeOK
<1>1. ASSUME NEW c \in Clients, Register(c) PROVE TypeOK'
  BY <1>1, RecordsTyped DEF Register
<1>2. ASSUME NEW c \in Clients, AwaitLatest(c) PROVE TypeOK'
  BY <1>2 DEF AwaitLatest
<1>3. ASSUME NEW c \in Clients, Unregister(c) PROVE TypeOK'
  BY <1>3, RecordsTyped DEF Unregister
<1>4. ASSUME NEW S \in SUBSET Services, PollAll(S) PROVE TypeOK'
  BY <1>4, PolledTyped DEF PollAll
<1>5. ASSUME NEW s \in Services, ServiceChanges(s) PROVE TypeOK'
  BY <1>5 DEF ServiceChanges
<1>6. CASE Restart
  BY <1>6 DEF Restart, Polls
<1>7. CASE UNCHANGED vars
  BY <1>7 DEF vars
<1> QED  BY <1>1, <1>2, <1>3, <1>4, <1>5, <1>6, <1>7 DEF Next

\* Every reachable state of the poller and its clients is well typed: no record
\* has a negative count.
THEOREM TypeCorrect == Spec => []TypeOK
<1>1. Init => TypeOK
  BY DEF Init, TypeOK, Polls
<1> QED  BY <1>1, TypeStep, PTL DEF Spec

\* Every step keeps the sleepers asleep for a reason: Unregister and pollAll
\* wake everybody, Register answers nobody, the others leave the map alone.
LEMMA WakeupStep == TypeOK /\ NoLostWakeup /\ [Next]_vars => NoLostWakeup'
<1> SUFFICES ASSUME TypeOK, NoLostWakeup, [Next]_vars PROVE NoLostWakeup'
  OBVIOUS
<1> USE DEF TypeOK, NoLostWakeup
<1>1. ASSUME NEW c \in Clients, Register(c) PROVE NoLostWakeup'
  <2> SUFFICES ASSUME NEW d \in asleep
               PROVE  using'[d] = "awaiting" /\ ~Answerable(polls', service'[d])
    BY <1>1 DEF Register
  <2>1. PICK s \in Services : service' = [service EXCEPT ![c] = s] /\ polls' = With(polls, s)
    BY <1>1 DEF Register
  <2>2. d # c /\ using'[d] = using[d] /\ service'[d] = service[d] /\ service[d] \in Services
    BY <1>1, <2>1 DEF Register
  <2> QED  BY <2>1, <2>2, WithAnswersNobody
<1>2. ASSUME NEW c \in Clients, AwaitLatest(c) PROVE NoLostWakeup'
  BY <1>2 DEF AwaitLatest
<1>3. ASSUME NEW c \in Clients, Unregister(c) PROVE NoLostWakeup'
  BY <1>3 DEF Unregister
<1>4. ASSUME NEW S \in SUBSET Services, PollAll(S) PROVE NoLostWakeup'
  BY <1>4 DEF PollAll
<1>5. ASSUME NEW s \in Services, ServiceChanges(s) PROVE NoLostWakeup'
  BY <1>5 DEF ServiceChanges
<1>6. CASE Restart
  BY <1>6 DEF Restart
<1>7. CASE UNCHANGED vars
  BY <1>7 DEF vars
<1> QED  BY <1>1, <1>2, <1>3, <1>4, <1>5, <1>6, <1>7 DEF Next

\* No wake-up is lost: whoever sleeps in AwaitLatest would still have to wait if
\* he looked at the map, whatever Register, Unregister and pollAll did since.
THEOREM NoWakeupIsLost == Spec => []NoLostWakeup
<1>1. Init => NoLostWakeup
  BY DEF Init, NoLostWakeup
<1> QED  BY <1>1, TypeCorrect, WakeupStep, PTL DEF Spec

-----------------------------------------------------------------------------
(* The counts                                                              *)

\* The holders of a service can be counted.
LEMMA HoldersFinite == \A s \in Services : IsFiniteSet(Holders(s)) /\ Holders(s) \subseteq Clients
BY BoundsAssumption, FS_Subset DEF Holders

\* The part of HoldersCounted about one service.
Counted(s) ==
    IF Registered(polls, s) THEN Cardinality(Holders(s)) = polls[s].count + 1
    ELSE Holders(s) = {}

\* Every step keeps the counts, as long as no Unregister comes alone.
LEMMA CountStep == TypeOK /\ HoldersCounted /\ [Next]_vars => HoldersCounted'
<1> SUFFICES ASSUME TypeOK, HoldersCounted, [Next]_vars,
                    repeats' = 0, restarts' = 0, NEW s \in Services
             PROVE  Counted(s)'
  BY DEF HoldersCounted, Counted
<1> USE DEF TypeOK
<1>0. repeats = 0 /\ restarts = 0 => Counted(s)
  BY DEF HoldersCounted, Counted
<1>1. ASSUME NEW c \in Clients, Register(c) PROVE Counted(s)'
  <2>1. PICK t \in Services : service' = [service EXCEPT ![c] = t] /\ polls' = With(polls, t)
    BY <1>1 DEF Register
  <2>2. using[c] = "no" /\ Counted(s)
    BY <1>0, <1>1 DEF Register
  <2>3. CASE s = t
    <3>1. Holders(s)' = Holders(s) \cup {c} /\ c \notin Holders(s)
      BY <1>1, <2>1, <2>2, <2>3 DEF Register, Holders
    <3>2. Cardinality(Holders(s)') = Cardinality(Holders(s)) + 1
      BY <3>1, HoldersFinite, FS_AddElement
    <3>3. /\ Registered(polls', s)
          /\ polls'[s].count = IF Registered(polls, s) THEN polls[s].count + 1 ELSE 0
      BY <2>1, <2>3, WithRegisters
    <3>4. CASE Registered(polls, s)
      BY <2>2, <3>2, <3>3, <3>4 DEF Counted
    <3>5. CASE ~Registered(polls, s)
      <4>1. Cardinality(Holders(s)) = 0
        BY <2>2, <3>5, FS_EmptySet DEF Counted
      <4> QED
        BY <3>2, <3>3, <3>5, <4>1 DEF Counted
    <3> QED
      BY <3>4, <3>5
  <2>4. CASE s # t
    <3>1. Holders(s)' = Holders(s)
      BY <1>1, <2>1, <2>2, <2>4 DEF Register, Holders
    <3>2. polls'[s] = polls[s]
      BY <2>1, <2>4, WithRegisters
    <3> QED  BY <2>2, <3>1, <3>2 DEF Counted, Registered
  <2> QED  BY <2>3, <2>4
<1>2. ASSUME NEW c \in Clients, AwaitLatest(c) PROVE Counted(s)'
  <2>1. Holders(s)' = Holders(s)
    BY <1>2 DEF AwaitLatest, Holders
  <2> QED  BY <1>0, <1>2, <2>1 DEF AwaitLatest, Counted, Registered
<1>3. ASSUME NEW c \in Clients, Unregister(c) PROVE Counted(s)'
  <2>1. using[c] = "registered" /\ using' = [using EXCEPT ![c] = "no"] /\ repeats = 0 /\ restarts = 0
    BY <1>3 DEF Unregister
  <2>2. CASE s = service[c]
    <3>1. c \in Holders(s) /\ Holders(s)' = Holders(s) \ {c}
      BY <1>3, <2>1, <2>2 DEF Unregister, Holders
    <3>2. Cardinality(Holders(s)') = Cardinality(Holders(s)) - 1
      BY <3>1, HoldersFinite, FS_RemoveElement
    <3>3. Registered(polls, s) /\ Cardinality(Holders(s)) = polls[s].count + 1
      BY <1>0, <2>1, <3>1 DEF Counted
    <3>4. polls[s].count \in Nat /\ polls' = Without(polls, s)
      BY <1>3, <2>2, <3>3 DEF Unregister, Registered, Polls, Record
    <3>5. CASE polls[s].count = 0
      <4>1. Holders(s)' = {}
        BY <3>1, <3>2, <3>3, <3>5, HoldersFinite, FS_RemoveElement, FS_EmptySet
      <4>2. ~Registered(polls, s)'
        BY <3>3, <3>4, <3>5, WithoutUnregisters DEF Registered
      <4> QED  BY <4>1, <4>2 DEF Counted
    <3>6. CASE polls[s].count # 0
      <4>1. Registered(polls, s)' /\ polls'[s].count = polls[s].count - 1
        BY <3>3, <3>4, <3>6, WithoutUnregisters DEF Registered
      <4> QED  BY <3>2, <3>3, <3>4, <4>1 DEF Counted
    <3> QED  BY <3>5, <3>6
  <2>3. CASE s # service[c]
    <3>1. Holders(s)' = Holders(s)
      BY <1>3, <2>1, <2>3 DEF Unregister, Holders
    <3>2. polls'[s] = polls[s]
      BY <1>3, <2>3 DEF Unregister, Without, Polls
    <3> QED  BY <1>0, <2>1, <3>1, <3>2 DEF Counted, Registered
  <2> QED  BY <2>2, <2>3
<1>4. ASSUME NEW S \in SUBSET Services, PollAll(S) PROVE Counted(s)'
  <2>1. Holders(s)' = Holders(s) /\ repeats = 0 /\ restarts = 0
    BY <1>4 DEF PollAll, Holders
  <2>2. /\ Registered(polls', s) <=> Registered(polls, s)
        /\ Registered(polls, s) => polls'[s].count = polls[s].count
    BY <1>4, PolledKeepsCounts DEF PollAll
  <2> QED  BY <1>0, <2>1, <2>2 DEF Counted, Registered
<1>5. ASSUME NEW t \in Services, ServiceChanges(t) PROVE Counted(s)'
  BY <1>0, <1>5 DEF ServiceChanges, Counted, Registered, Holders
<1>6. CASE Restart
  BY <1>6 DEF Restart
<1>7. CASE UNCHANGED vars
  BY <1>0, <1>7 DEF vars, Counted, Registered, Holders
<1> QED  BY <1>1, <1>2, <1>3, <1>4, <1>5, <1>6, <1>7 DEF Next

\* Nobody holds anything at first.
LEMMA CountInit == Init => HoldersCounted
BY PollAssumption DEF Init, HoldersCounted, Holders, Registered

\* As long as every Unregister matches a Register and the extension does not
\* restart, the poller describes exactly the services that somebody holds.
THEOREM HoldersAreCounted == Spec => []HoldersCounted
BY CountInit, TypeCorrect, CountStep, PTL DEF Spec
=============================================================================
