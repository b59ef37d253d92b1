----------------------------- MODULE AccessProofs -----------------------------
(***************************************************************************)
(* The two users of the accounts map.                                      *)
(*                                                                         *)
(* What Triggers guarantees for every configuration, every number of       *)
(* executions and units, every percentage, and any number of faults,       *)
(* restarts and changes: its invariant says what was chosen, what a call   *)
(* may have hit, and how far an experiment can be in a phase.              *)
(*                                                                         *)
(* What Discovery guarantees for every set of scenarios, that is for every *)
(* kind, configuration, world and number of workers, and any number of     *)
(* failing calls, rounds and changed templates.  First the suppliers of    *)
(* the 23 kinds, as operators on what one access sees: their targets are   *)
(* sound, and complete if no call fails.  Then what the steps of workers   *)
(* have in common (WorkerStep), that every step is one, and what they keep.*)
(* Last the durations of templates: what a recursion over the actions of a *)
(* template computes, and that it is the length of the longest chain.      *)
(***************************************************************************)
EXTENDS Triggers, Discovery, FiniteSetTheorems, TLAPS

-----------------------------------------------------------------------------
(* The accounts                                                            *)

\* An entry of the accounts map is found under its own account, region and role.
LEMMA AccountsKeyed ==
    ASSUME NEW S, NEW k \in DOMAIN AccountsMap(S)
    PROVE  /\ AccountsMap(S)[k] \in S
           /\ k = <<AccountsMap(S)[k].account, AccountsMap(S)[k].region, AccountsMap(S)[k].role>>
BY DEF AccountsMap, GetMapKey

\* Roles that cannot be assumed leave no other accesses than there would be.
LEMMA FewerRolesFewerAccesses ==
    ASSUME NEW config, NEW failing
    PROVE  InitializeAwsAccess(config, failing) \subseteq InitializeAwsAccess(config, {})
BY DEF InitializeAwsAccess

\* So a restart adds no key.
LEMMA RestartedAccounts ==
    ASSUME NEW failing,
           NEW k \in DOMAIN AccountsMap(InitializeAwsAccess(Config, failing))
    PROVE  k \in Keys
BY FewerRolesFewerAccesses DEF Keys, AccountsMap

\* A key is an account, a region and a role.
LEMMA KeysAreTriples == ASSUME NEW k \in Keys PROVE k = <<k[1], k[2], k[3]>>
BY DEF Keys, AccountsMap, GetMapKey

\* The access that is looked up by the key of a target is one of that account,
\* region and role.
LEMMA AccessIsOwn ==
    ASSUME TypeOK, NEW e \in Executions, key[e] \in Keys, Access(e) # Unset
    PROVE  Used(e) = key[e]
<1>1. key[e] = <<key[e][1], key[e][2], key[e][3]>>
  BY KeysAreTriples
<1>2. key[e] \in DOMAIN accounts /\ Access(e) = accounts[key[e]]
  BY <1>1 DEF Access, GetAwsAccess, GetMapKey
<1>3. key[e] = <<accounts[key[e]].account, accounts[key[e]].region, accounts[key[e]].role>>
  BY <1>2 DEF TypeOK
<1> QED  BY <1>2, <1>3 DEF Used

-----------------------------------------------------------------------------
(* Triggers: the invariant                                                 *)

\* Nothing is chosen before Prepare; then the choice is part of what was
\* considered, not one more than the percentage needs, and except for a node
\* group it is the target.
ChoiceInv(e) ==
    phase[e] \notin {"new", "refused"} =>
        /\ key[e] \in Keys
        /\ chosen[e] \subseteq considered[e]
        /\ (Cardinality(chosen[e]) - 1) * 100 < percentage[e] * Cardinality(considered[e])
        /\ kind # "nodegroup" => after[e] # "detached" /\ \E u \in Units : chosen[e] = {u}

\* A call hits all that was chosen or nothing.
HitInv(e) ==
    /\ hit[e] = {} \/ hit[e] = chosen[e]
    /\ acted[e] \subseteq {key[e]}
    /\ phase[e] \in {"new", "refused", "prepared", "looked"} => hit[e] = {} /\ acted[e] = {}
    /\ phase[e] = "triggered" => hit[e] = chosen[e]
    /\ phase[e] = "startFailed" /\ ~lost[e] => hit[e] = {}

\* Between the look at a task and its stop the access does not change; a task
\* that was not there does not come back.
TaskInv(e) ==
    /\ kind # "nodegroup" => \A u \in Units : status[u] # "detached"
    /\ kind # "nodegroup" => looked[e] # "detached"
    /\ phase[e] = "looked" =>
        /\ kind = "task" /\ Access(e) # Unset
        /\ looked[e] = "up" \/ \A u \in chosen[e] : status[u] = "gone"
    /\ phase[e] = "triggered" /\ kind = "task" => looked[e] = "up"

\* How far the experiment is.
ExperimentInv(e) ==
    /\ phase[e] \in {"new", "refused", "prepared", "looked", "triggered"} =>
         experiment[e] = "none" /\ ~hasId[e]
    /\ phase[e] = "startFailed" /\ ~lost[e] => experiment[e] = "none"
    /\ hasId[e] => experiment[e] # "none"
    /\ phase[e] = "stopping" => hasId[e]
    /\ phase[e] = "stopped" => experiment[e] \notin Begun \cup {"none"}
    /\ phase[e] = "completed" => experiment[e] \in {"completed", "stopped"}
    /\ phase[e] = "failed" => experiment[e] = "failed"

TriggersInv ==
    TypeOK /\ \A e \in Executions : ChoiceInv(e) /\ HitInv(e) /\ TaskInv(e) /\ ExperimentInv(e)
-----------------------------------------------------------------------------
(* Triggers: sizes                                                         *)

\* The percentage rounded up is not one more than it needs.
LEMMA RoundedUp ==
    ASSUME NEW n \in Nat, NEW pct \in Nat, n * pct \in Nat
    PROVE  SampleSize(n, pct) \in Nat /\ (SampleSize(n, pct) - 1) * 100 < pct * n
<1> DEFINE x == n * pct
<1>1. x \in Nat /\ pct * n = x
  OBVIOUS
<1>2. ASSUME NEW y \in Nat PROVE (y + 99) \div 100 \in Nat /\ ((y + 99) \div 100 - 1) * 100 < y
  OBVIOUS
<1> HIDE DEF x
<1>3. (x + 99) \div 100 \in Nat /\ ((x + 99) \div 100 - 1) * 100 < x
  BY <1>1, <1>2
<1> QED  BY <1>1, <1>3 DEF SampleSize, x

\* One target is all that was considered.
LEMMA OneIsNotTooMany ==
    ASSUME NEW u
    PROVE  (Cardinality({u}) - 1) * 100 < 100 * Cardinality({u})
BY FS_Singleton

-----------------------------------------------------------------------------
(* Triggers: types                                                         *)

\* What the calls make of a unit is a status; only the owner detaches.
LEMMA CallsTyped ==
    ASSUME NEW s \in Calls(kind)
    PROVE  s \in Statuses /\ s # "detached"
BY DEF Calls, Statuses, InstanceState, RebootDBInstance, StopDBInstance, FailoverDBCluster,
       TestFailover, RebootKafkaBroker, RebootBroker, TerminateInstances

\* A flag that is set is one.
LEMMA FlagSet ==
    ASSUME NEW f \in [Executions -> BOOLEAN], NEW e \in Executions
    PROVE  [f EXCEPT ![e] = TRUE] \in [Executions -> BOOLEAN]
OBVIOUS

\* What a Start changes keeps its type, with and without an effect.
LEMMA EffectTyped ==
    ASSUME TypeOK, NEW e \in Executions, Used(e) \in Keys, CallTakesEffect(e)
    PROVE  /\ status' \in [Units -> Statuses] /\ phase' \in [Executions -> Phases]
           /\ hit' \in [Executions -> SUBSET Units] /\ acted' \in [Executions -> SUBSET Keys]
           /\ lost' \in [Executions -> BOOLEAN] /\ faults' \in Nat
<1> USE DEF TypeOK, CallTakesEffect
<1>1. after[e] \in Statuses /\ chosen[e] \in SUBSET Units
  OBVIOUS
<1>2. status' \in [Units -> Statuses]
  BY <1>1
<1>3. hit' \in [Executions -> SUBSET Units] /\ acted' \in [Executions -> SUBSET Keys]
  BY <1>1
<1>4. phase' \in [Executions -> Phases] /\ faults' \in Nat
  BY DEF Phases, MayStop, Fault
<1>5. lost' \in [Executions -> BOOLEAN]
  BY FlagSet
<1> QED  BY <1>2, <1>3, <1>4, <1>5

LEMMA FailureTyped ==
    ASSUME TypeOK, NEW e \in Executions, StartFails(e)
    PROVE  /\ status' \in [Units -> Statuses] /\ phase' \in [Executions -> Phases]
           /\ hit' \in [Executions -> SUBSET Units] /\ acted' \in [Executions -> SUBSET Keys]
           /\ lost' \in [Executions -> BOOLEAN]
BY DEF TypeOK, StartFails, Phases, MayStop

\* Every step keeps the types.
LEMMA TypeStep == TriggersInv /\ [Next]_vars => TypeOK'
<1> SUFFICES ASSUME TriggersInv, [Next]_vars PROVE TypeOK'
  OBVIOUS
<1> USE TriggersAssumption DEF TriggersInv, TypeOK, vars, aws, choice, history, bounds, Phases, MayStop, Fault
<1>1. ASSUME NEW e \in Executions, Prepare(e) PROVE TypeOK'
  BY <1>1, CallsTyped DEF Prepare, Choose
<1>2. ASSUME NEW e \in Executions, PrepareNodegroup(e) PROVE TypeOK'
  <2>1. CASE phase' = [phase EXCEPT ![e] = "refused"] /\ UNCHANGED choice
    BY <1>2, <2>1 DEF PrepareNodegroup
  <2>2. ASSUME NEW k \in Keys, NEW pct \in Percentages, NEW from \in SUBSET Units,
               NEW S \in SUBSET from, Choose(e, k, from, S, pct), UNCHANGED faults
        PROVE  TypeOK'
    BY <1>2, <2>2, CallsTyped DEF PrepareNodegroup, Choose
  <2> DEFINE inService == {u \in Units : status[u] = "up"}
  <2>3. inService \in SUBSET Units
    OBVIOUS
  <2>4. \/ phase' = [phase EXCEPT ![e] = "refused"] /\ UNCHANGED choice
        \/ \E k \in Keys, pct \in Percentages : \E S \in SUBSET inService :
             Choose(e, k, inService, S, pct) /\ UNCHANGED faults
    BY <1>2, Zenon DEF PrepareNodegroup
  <2> HIDE DEF inService
  <2> QED  BY <2>1, <2>2, <2>3, <2>4, Zenon
<1>3. ASSUME NEW e \in Executions, Start(e) PROVE TypeOK'
  <2>1. /\ status' \in [Units -> Statuses] /\ phase' \in [Executions -> Phases]
        /\ hit' \in [Executions -> SUBSET Units] /\ acted' \in [Executions -> SUBSET Keys]
        /\ lost' \in [Executions -> BOOLEAN]
    <3>1. Access(e) # Unset => Used(e) \in Keys
      BY <1>3, AccessIsOwn DEF Start, ChoiceInv
    <3>2. CASE Access(e) # Unset /\ CallTakesEffect(e)
      BY <3>1, <3>2, EffectTyped
    <3>3. CASE StartFails(e)
      BY <3>3, FailureTyped
    <3> QED  BY <1>3, <3>2, <3>3 DEF Start
  <2>2. faults' \in Nat
    BY <1>3 DEF Start, CallTakesEffect
  <2>3. UNCHANGED <<kind, accounts, experiment, choice, hasId, looked, restarts, changes>>
    BY <1>3 DEF Start
  <2> QED  BY <2>1, <2>2, <2>3
<1>4. ASSUME NEW e \in Executions, LookAtTask(e) PROVE TypeOK'
  <2>1. looked' = [looked EXCEPT ![e] = looked'[e]] /\ looked'[e] \in Statuses
    BY <1>4 DEF LookAtTask, ChoiceInv
  <2> QED  BY <1>4, <2>1 DEF LookAtTask, StartFails
<1>5. ASSUME NEW e \in Executions, StopTask(e) PROVE TypeOK'
  <2>1. /\ status' \in [Units -> Statuses] /\ phase' \in [Executions -> Phases]
        /\ hit' \in [Executions -> SUBSET Units] /\ acted' \in [Executions -> SUBSET Keys]
        /\ lost' \in [Executions -> BOOLEAN]
    <3>1. Access(e) # Unset => Used(e) \in Keys
      BY <1>5, AccessIsOwn DEF StopTask, ChoiceInv, TaskInv
    <3>2. CASE Access(e) # Unset /\ CallTakesEffect(e)
      BY <3>1, <3>2, EffectTyped
    <3>3. CASE StartFails(e)
      BY <3>3, FailureTyped
    <3> QED  BY <1>5, <3>2, <3>3 DEF StopTask, TaskInv
  <2>2. faults' \in Nat
    BY <1>5 DEF StopTask, CallTakesEffect
  <2>3. UNCHANGED <<kind, accounts, experiment, choice, hasId, looked, restarts, changes>>
    BY <1>5 DEF StopTask
  <2> QED  BY <2>1, <2>2, <2>3
<1>6. ASSUME NEW e \in Executions, StartExperiment(e) PROVE TypeOK'
  <2>1. acted' \in [Executions -> SUBSET Keys]
    <3>1. Access(e) # Unset => Used(e) \in Keys
      BY <1>6, AccessIsOwn DEF StartExperiment, ChoiceInv
    <3> QED  BY <1>6, <3>1 DEF StartExperiment
  <2>2. /\ experiment' \in [Executions -> ExperimentStatuses]
        /\ phase' \in [Executions -> Phases] /\ faults' \in Nat
    BY <1>6 DEF StartExperiment, ExperimentStatuses, Begun
  <2>3. lost' \in [Executions -> BOOLEAN] /\ hasId' \in [Executions -> BOOLEAN]
    BY <1>6, FlagSet DEF StartExperiment
  <2>4. UNCHANGED <<kind, accounts, status, choice, looked, hit, restarts, changes>>
    BY <1>6 DEF StartExperiment
  <2> QED  BY <2>1, <2>2, <2>3, <2>4
<1>7. ASSUME NEW e \in Executions, Status(e) PROVE TypeOK'
  BY <1>7 DEF Status
<1>8. ASSUME NEW e \in Executions, Stop(e) PROVE TypeOK'
  BY <1>8 DEF Stop
<1>9. ASSUME NEW e \in Executions, StopExperiment(e) PROVE TypeOK'
  <2>1. experiment' \in [Executions -> ExperimentStatuses]
    BY <1>9 DEF StopExperiment, ExperimentStatuses
  <2>2. phase' \in [Executions -> Phases]
    BY <1>9 DEF StopExperiment
  <2>3. lost' \in [Executions -> BOOLEAN]
    BY <1>9, FlagSet DEF StopExperiment
  <2>4. faults' \in Nat
    BY <1>9 DEF StopExperiment
  <2>5. UNCHANGED <<kind, accounts, status, choice, hasId, looked, hit, acted, restarts, changes>>
    BY <1>9 DEF StopExperiment
  <2> QED  BY <2>1, <2>2, <2>3, <2>4, <2>5
<1>10. ASSUME NEW e \in Executions, ExperimentMoves(e) PROVE TypeOK'
  BY <1>10 DEF ExperimentMoves, Moves, ExperimentStatuses, Begun
<1>11. ASSUME NEW e \in Executions, OwnerStops(e) PROVE TypeOK'
  BY <1>11 DEF OwnerStops, ExperimentStatuses
<1>12. ASSUME NEW failing, Restart(failing) PROVE TypeOK'
  <2>1. \A k \in DOMAIN accounts' :
          k \in Keys /\ k = <<accounts'[k].account, accounts'[k].region, accounts'[k].role>>
    BY <1>12, AccountsKeyed, RestartedAccounts DEF Restart
  <2> QED  BY <1>12, <2>1 DEF Restart
<1>13. ASSUME NEW u \in Units, OwnerChanges(u) PROVE TypeOK'
  BY <1>13 DEF OwnerChanges
<1>14. ASSUME UNCHANGED vars PROVE TypeOK'
  BY <1>14 DEF vars
<1> QED  BY <1>1, <1>2, <1>3, <1>4, <1>5, <1>6, <1>7, <1>8, <1>9, <1>10, <1>11, <1>12, <1>13, <1>14 DEF Next
-----------------------------------------------------------------------------
(* Triggers: the parts of the invariant                                    *)

\* What is chosen is chosen in Prepare and kept.
LEMMA ChoiceStep ==
    ASSUME TriggersInv, [Next]_vars, NEW d \in Executions
    PROVE  ChoiceInv(d)'
<1>0. TypeOK /\ ChoiceInv(d) /\ HitInv(d) /\ TaskInv(d) /\ ExperimentInv(d)
  BY DEF TriggersInv
<1> USE <1>0 DEF TypeOK, ChoiceInv, aws, choice, history, bounds
<1>1. ASSUME NEW e \in Executions, Prepare(e) PROVE ChoiceInv(d)'
  <2>1. CASE d = e
    <3>1. PICK k \in Keys, u \in Units : Choose(e, k, {u}, {u}, 100)
      BY <1>1 DEF Prepare
    <3>2. after'[e] # "detached"
      BY <3>1, CallsTyped DEF Choose
    <3> QED  BY <1>1, <2>1, <3>1, <3>2, OneIsNotTooMany DEF Prepare, Choose
  <2>2. CASE d # e
    BY <1>1, <2>2 DEF Prepare, Choose
  <2> QED  BY <2>1, <2>2
<1>2. ASSUME NEW e \in Executions, PrepareNodegroup(e) PROVE ChoiceInv(d)'
  <2> DEFINE inService == {u \in Units : status[u] = "up"}
  <2>1. \/ phase' = [phase EXCEPT ![e] = "refused"] /\ UNCHANGED choice
        \/ \E k \in Keys, pct \in Percentages : \E S \in SUBSET inService :
             /\ Cardinality(S) = SampleSize(Cardinality(inService), pct)
             /\ Choose(e, k, inService, S, pct)
    BY <1>2, Zenon DEF PrepareNodegroup
  <2>2. ASSUME NEW k \in Keys, NEW pct \in Percentages, NEW S \in SUBSET inService,
               Cardinality(S) = SampleSize(Cardinality(inService), pct),
               Choose(e, k, inService, S, pct)
        PROVE  ChoiceInv(d)'
    <3>1. Cardinality(inService) \in Nat /\ pct \in Nat
      BY TriggersAssumption, FS_Subset, FS_CardinalityType
    <3>2. (Cardinality(S) - 1) * 100 < pct * Cardinality(inService)
      BY <2>2, <3>1, RoundedUp
    <3> HIDE DEF inService
    <3> QED  BY <1>2, <2>2, <3>2 DEF PrepareNodegroup, Choose
  <2>3. CASE phase' = [phase EXCEPT ![e] = "refused"] /\ UNCHANGED choice
    BY <1>2, <2>3 DEF PrepareNodegroup
  <2> HIDE DEF inService
  <2> QED  BY <2>1, <2>2, <2>3, Zenon
<1>3. ASSUME NEW e \in Executions, Start(e) PROVE ChoiceInv(d)'
  BY <1>3 DEF Start, StartFails, CallTakesEffect
<1>4. ASSUME NEW e \in Executions, LookAtTask(e) PROVE ChoiceInv(d)'
  BY <1>4 DEF LookAtTask, StartFails
<1>5. ASSUME NEW e \in Executions, StopTask(e) PROVE ChoiceInv(d)'
  BY <1>5 DEF StopTask, StartFails, CallTakesEffect
<1>6. ASSUME NEW e \in Executions, StartExperiment(e) PROVE ChoiceInv(d)'
  BY <1>6 DEF StartExperiment
<1>7. ASSUME NEW e \in Executions, Status(e) PROVE ChoiceInv(d)'
  BY <1>7 DEF Status
<1>8. ASSUME NEW e \in Executions, Stop(e) PROVE ChoiceInv(d)'
  BY <1>8 DEF Stop, MayStop
<1>9. ASSUME NEW e \in Executions, StopExperiment(e) PROVE ChoiceInv(d)'
  BY <1>9 DEF StopExperiment
<1>10. ASSUME NEW e \in Executions, ExperimentMoves(e) PROVE ChoiceInv(d)'
  BY <1>10 DEF ExperimentMoves
<1>11. ASSUME NEW e \in Executions, OwnerStops(e) PROVE ChoiceInv(d)'
  BY <1>11 DEF OwnerStops
<1>12. ASSUME NEW failing, Restart(failing) PROVE ChoiceInv(d)'
  BY <1>12 DEF Restart
<1>13. ASSUME NEW u \in Units, OwnerChanges(u) PROVE ChoiceInv(d)'
  BY <1>13 DEF OwnerChanges
<1>14. ASSUME UNCHANGED vars PROVE ChoiceInv(d)'
  BY <1>14 DEF vars
<1> QED  BY <1>1, <1>2, <1>3, <1>4, <1>5, <1>6, <1>7, <1>8, <1>9, <1>10, <1>11, <1>12, <1>13, <1>14 DEF Next

\* A call hits what was chosen, by the access of the key, once.
LEMMA HitStep ==
    ASSUME TriggersInv, [Next]_vars, NEW d \in Executions
    PROVE  HitInv(d)'
<1>0. TypeOK /\ ChoiceInv(d) /\ HitInv(d) /\ TaskInv(d) /\ ExperimentInv(d)
  BY DEF TriggersInv
<1> USE <1>0 DEF TypeOK, HitInv, aws, choice, history, bounds
<1>1. ASSUME NEW e \in Executions, Prepare(e) PROVE HitInv(d)'
  BY <1>1 DEF Prepare, Choose
<1>2. ASSUME NEW e \in Executions, PrepareNodegroup(e) PROVE HitInv(d)'
  BY <1>2 DEF PrepareNodegroup, Choose
<1>3. ASSUME NEW e \in Executions, Start(e) PROVE HitInv(d)'
  <2>1. CASE d = e /\ Access(e) # Unset /\ CallTakesEffect(e)
    <3>1. Used(e) = key[e]
      BY <2>1, AccessIsOwn, <1>3 DEF Start, ChoiceInv, TriggersInv
    <3>2. hit[d] = {} /\ acted[d] = {} /\ UNCHANGED choice
      BY <1>3, <2>1 DEF Start
    <3>3. hit'[d] = chosen[d] /\ acted'[d] = {key[d]} /\ phase'[d] \in {"triggered", "startFailed"}
      BY <2>1, <3>1, <3>2 DEF CallTakesEffect
    <3>4. phase'[d] = "startFailed" => lost'[d]
      BY <2>1 DEF CallTakesEffect
    <3> QED  BY <3>2, <3>3, <3>4
  <2>2. CASE d # e \/ StartFails(e)
    BY <1>3, <2>2 DEF Start, StartFails, CallTakesEffect
  <2> QED  BY <1>3, <2>1, <2>2 DEF Start
<1>4. ASSUME NEW e \in Executions, LookAtTask(e) PROVE HitInv(d)'
  BY <1>4 DEF LookAtTask, StartFails
<1>5. ASSUME NEW e \in Executions, StopTask(e) PROVE HitInv(d)'
  <2>1. CASE d = e /\ CallTakesEffect(e)
    <3>1. Used(e) = key[e]
      BY <2>1, AccessIsOwn, <1>5 DEF StopTask, ChoiceInv, TaskInv, TriggersInv
    <3>2. hit[d] = {} /\ acted[d] = {} /\ UNCHANGED choice
      BY <1>5, <2>1 DEF StopTask
    <3>3. hit'[d] = chosen[d] /\ acted'[d] = {key[d]} /\ phase'[d] \in {"triggered", "startFailed"}
      BY <2>1, <3>1, <3>2 DEF CallTakesEffect
    <3>4. phase'[d] = "startFailed" => lost'[d]
      BY <2>1 DEF CallTakesEffect
    <3> QED  BY <3>2, <3>3, <3>4
  <2>2. CASE d # e \/ StartFails(e)
    BY <1>5, <2>2 DEF StopTask, StartFails, CallTakesEffect
  <2> QED  BY <1>5, <2>1, <2>2 DEF StopTask
<1>6. ASSUME NEW e \in Executions, StartExperiment(e) PROVE HitInv(d)'
  <2>1. Access(e) # Unset => Used(e) = key[e]
    BY <1>6, AccessIsOwn DEF StartExperiment, ChoiceInv, TriggersInv
  <2> QED  BY <1>6, <2>1 DEF StartExperiment
<1>7. ASSUME NEW e \in Executions, Status(e) PROVE HitInv(d)'
  BY <1>7 DEF Status
<1>8. ASSUME NEW e \in Executions, Stop(e) PROVE HitInv(d)'
  BY <1>8 DEF Stop, MayStop
<1>9. ASSUME NEW e \in Executions, StopExperiment(e) PROVE HitInv(d)'
  BY <1>9 DEF StopExperiment
<1>10. ASSUME NEW e \in Executions, ExperimentMoves(e) PROVE HitInv(d)'
  BY <1>10 DEF ExperimentMoves
<1>11. ASSUME NEW e \in Executions, OwnerStops(e) PROVE HitInv(d)'
  BY <1>11 DEF OwnerStops
<1>12. ASSUME NEW failing, Restart(failing) PROVE HitInv(d)'
  BY <1>12 DEF Restart
<1>13. ASSUME NEW u \in Units, OwnerChanges(u) PROVE HitInv(d)'
  BY <1>13 DEF OwnerChanges
<1>14. ASSUME UNCHANGED vars PROVE HitInv(d)'
  BY <1>14 DEF vars
<1> QED  BY <1>1, <1>2, <1>3, <1>4, <1>5, <1>6, <1>7, <1>8, <1>9, <1>10, <1>11, <1>12, <1>13, <1>14 DEF Next

\* The access of an execution follows the map and its key.
LEMMA AccessKept ==
    ASSUME NEW d, UNCHANGED accounts, key'[d] = key[d]
    PROVE  Access(d)' = Access(d)
BY DEF Access, GetAwsAccess

\* A step that leaves the task and the access alone, or ends the request, keeps
\* the part.
LEMMA OthersUndisturbed ==
    ASSUME TypeOK, NEW d \in Executions, TaskInv(d), UNCHANGED <<kind, accounts, status, looked>>,
           \/ phase'[d] \notin {"looked", "triggered"}
           \/ phase'[d] = phase[d] /\ key'[d] = key[d] /\ chosen'[d] = chosen[d]
    PROVE  TaskInv(d)'
<1>1. CASE phase'[d] \notin {"looked", "triggered"}
  BY <1>1 DEF TaskInv
<1>2. CASE phase'[d] = phase[d] /\ key'[d] = key[d] /\ chosen'[d] = chosen[d]
  BY <1>2, AccessKept DEF TaskInv
<1> QED  BY <1>1, <1>2

\* A task that was not found is not stopped, and its access stays.
LEMMA TaskStep ==
    ASSUME TriggersInv, [Next]_vars, NEW d \in Executions
    PROVE  TaskInv(d)'
<1>0. TypeOK /\ ChoiceInv(d) /\ TaskInv(d)
  BY DEF TriggersInv
<1> USE <1>0 DEF TypeOK, aws, choice, history, bounds
<1>1. ASSUME NEW e \in Executions, Prepare(e) PROVE TaskInv(d)'
  BY <1>1, OthersUndisturbed DEF Prepare, Choose
<1>2. ASSUME NEW e \in Executions, PrepareNodegroup(e) PROVE TaskInv(d)'
  BY <1>2, OthersUndisturbed DEF PrepareNodegroup, Choose
<1>3. ASSUME NEW e \in Executions, Start(e) PROVE TaskInv(d)'
  <2>1. CASE CallTakesEffect(e)
    <3>1. kind # "task" /\ phase[d] # "looked"
      BY <1>3 DEF Start, OneCall, TaskInv
    <3>2. phase'[d] # "looked"
      BY <2>1, <3>1 DEF CallTakesEffect
    <3>3. kind # "nodegroup" => \A u \in Units : status'[u] # "detached"
      BY <1>3, <2>1 DEF Start, CallTakesEffect, ChoiceInv, TaskInv, TriggersInv
    <3> QED  BY <1>3, <3>1, <3>2, <3>3 DEF Start, TaskInv
  <2>2. CASE StartFails(e)
    BY <1>3, <2>2, OthersUndisturbed DEF Start, StartFails
  <2> QED  BY <1>3, <2>1, <2>2 DEF Start
<1>4. ASSUME NEW e \in Executions, LookAtTask(e) PROVE TaskInv(d)'
  <2>1. PICK u \in Units : chosen[e] = {u}
    BY <1>4 DEF LookAtTask, ChoiceInv, TriggersInv
  <2>2. looked' = [looked EXCEPT ![e] = status[u]] /\ UNCHANGED <<kind, accounts, status, key, chosen>>
    <3>1. {status[v] : v \in chosen[e]} = {status[u]}
      BY <2>1
    <3>2. looked' = [looked EXCEPT ![e] = CHOOSE s \in {status[v] : v \in chosen[e]} : TRUE]
      BY <1>4 DEF LookAtTask
    <3>3. (CHOOSE s \in {status[u]} : TRUE) = status[u]
      OBVIOUS
    <3>4. UNCHANGED <<kind, accounts, status, key, chosen>>
      BY <1>4 DEF LookAtTask, StartFails
    <3> QED  BY <3>1, <3>2, <3>3, <3>4
  <2>3. kind = "task" /\ Access(d)' = Access(d) /\ status[u] # "detached"
    BY <1>4, <2>2, AccessKept DEF LookAtTask, TaskInv
  <2>4. CASE d = e
    <3>1. status[u] \in {"up", "down", "gone"}
      BY <2>3 DEF Statuses
    <3>2. \/ phase'[d] = "startFailed"
          \/ phase'[d] = "looked" /\ Access(d) # Unset /\ status[u] # "down"
      <4>1. looked'[e] = status[u] /\ phase[d] = "prepared"
        BY <1>4, <2>2, <2>4 DEF LookAtTask
      <4>2. \/ phase' = [phase EXCEPT ![e] = "startFailed"]
            \/ phase' = [phase EXCEPT ![e] = "looked"] /\ Access(e) # Unset /\ looked'[e] # "down"
        BY <1>4 DEF LookAtTask, StartFails
      <4> QED  BY <2>4, <4>1, <4>2
    <3>3. phase'[d] = "looked" => looked'[d] = "up" \/ \A v \in chosen'[d] : status'[v] = "gone"
      BY <2>1, <2>2, <2>4, <3>1, <3>2
    <3> QED  BY <2>2, <2>3, <2>4, <3>2, <3>3 DEF TaskInv
  <2>5. CASE d # e
    <3>1. phase'[d] = phase[d] /\ looked'[d] = looked[d]
      BY <1>4, <2>2, <2>5 DEF LookAtTask, StartFails
    <3> QED  BY <2>2, <2>3, <3>1 DEF TaskInv
  <2> QED  BY <2>4, <2>5
<1>5. ASSUME NEW e \in Executions, StopTask(e) PROVE TaskInv(d)'
  <2>1. CASE AwsMayAct(e) /\ CallTakesEffect(e)
    <3>1. PICK u \in Units : chosen[e] = {u} /\ status[u] # "gone" /\ looked[e] = "up"
      BY <1>5, <2>1 DEF StopTask, AwsMayAct, ChoiceInv, TaskInv, TriggersInv
    <3>2. status' = [v \in Units |-> IF v = u THEN after[e] ELSE status[v]] /\ after[e] # "detached"
      BY <1>5, <2>1, <3>1 DEF StopTask, CallTakesEffect, ChoiceInv, TaskInv, TriggersInv
    <3>3. UNCHANGED <<kind, accounts, key, chosen, looked>> /\ Access(d)' = Access(d)
      BY <1>5, AccessKept DEF StopTask
    <3>4. CASE d = e
      BY <2>1, <3>1, <3>2, <3>3, <3>4 DEF CallTakesEffect, TaskInv
    <3>5. CASE d # e
      <4>1. phase'[d] = phase[d] /\ \A v \in chosen[d] : status[v] = "gone" => status'[v] = "gone"
        BY <2>1, <3>1, <3>2, <3>5 DEF CallTakesEffect
      <4> QED  BY <3>2, <3>3, <4>1 DEF TaskInv
    <3> QED  BY <3>4, <3>5
  <2>2. CASE StartFails(e)
    BY <1>5, <2>2, OthersUndisturbed DEF StopTask, StartFails
  <2> QED  BY <1>5, <2>1, <2>2 DEF StopTask
<1>6. ASSUME NEW e \in Executions, StartExperiment(e) PROVE TaskInv(d)'
  BY <1>6, OthersUndisturbed DEF StartExperiment
<1>7. ASSUME NEW e \in Executions, Status(e) PROVE TaskInv(d)'
  BY <1>7, OthersUndisturbed DEF Status
<1>8. ASSUME NEW e \in Executions, Stop(e) PROVE TaskInv(d)'
  BY <1>8, OthersUndisturbed DEF Stop, MayStop
<1>9. ASSUME NEW e \in Executions, StopExperiment(e) PROVE TaskInv(d)'
  BY <1>9, OthersUndisturbed DEF StopExperiment
<1>10. ASSUME NEW e \in Executions, ExperimentMoves(e) PROVE TaskInv(d)'
  BY <1>10, OthersUndisturbed DEF ExperimentMoves
<1>11. ASSUME NEW e \in Executions, OwnerStops(e) PROVE TaskInv(d)'
  BY <1>11, OthersUndisturbed DEF OwnerStops
<1>12. ASSUME NEW failing, Restart(failing) PROVE TaskInv(d)'
  BY <1>12 DEF Restart, TaskInv
<1>13. ASSUME NEW u \in Units, OwnerChanges(u) PROVE TaskInv(d)'
  <2>1. UNCHANGED <<kind, accounts, key, chosen, looked, phase>> /\ Access(d)' = Access(d)
    BY <1>13, AccessKept DEF OwnerChanges
  <2>2. \A v \in Units : status[v] = "gone" => status'[v] = "gone"
    BY <1>13 DEF OwnerChanges
  <2>3. kind # "nodegroup" => \A v \in Units : status'[v] # "detached"
    BY <1>13 DEF OwnerChanges, TaskInv
  <2> QED  BY <2>1, <2>2, <2>3 DEF TaskInv
<1>14. ASSUME UNCHANGED vars PROVE TaskInv(d)'
  BY <1>14, OthersUndisturbed DEF vars
<1> QED  BY <1>1, <1>2, <1>3, <1>4, <1>5, <1>6, <1>7, <1>8, <1>9, <1>10, <1>11, <1>12, <1>13, <1>14 DEF Next

\* An experiment that ends or has ended does not begin again.
LEMMA ExperimentStep ==
    ASSUME TriggersInv, [Next]_vars, NEW d \in Executions
    PROVE  ExperimentInv(d)'
<1>0. TypeOK /\ ChoiceInv(d) /\ HitInv(d) /\ TaskInv(d) /\ ExperimentInv(d)
  BY DEF TriggersInv
<1> USE <1>0 DEF TypeOK, ExperimentInv, aws, choice, history, bounds
<1>1. ASSUME NEW e \in Executions, Prepare(e) PROVE ExperimentInv(d)'
  BY <1>1 DEF Prepare, Choose
<1>2. ASSUME NEW e \in Executions, PrepareNodegroup(e) PROVE ExperimentInv(d)'
  BY <1>2 DEF PrepareNodegroup, Choose
<1>3. ASSUME NEW e \in Executions, Start(e) PROVE ExperimentInv(d)'
  BY <1>3 DEF Start, StartFails, CallTakesEffect
<1>4. ASSUME NEW e \in Executions, LookAtTask(e) PROVE ExperimentInv(d)'
  BY <1>4 DEF LookAtTask, StartFails
<1>5. ASSUME NEW e \in Executions, StopTask(e) PROVE ExperimentInv(d)'
  BY <1>5 DEF StopTask, StartFails, CallTakesEffect
<1>6. ASSUME NEW e \in Executions, StartExperiment(e) PROVE ExperimentInv(d)'
  BY <1>6 DEF StartExperiment
<1>7. ASSUME NEW e \in Executions, Status(e) PROVE ExperimentInv(d)'
  BY <1>7 DEF Status, Ended
<1>8. ASSUME NEW e \in Executions, Stop(e) PROVE ExperimentInv(d)'
  BY <1>8 DEF Stop, MayStop, Stoppable, Begun
<1>9. ASSUME NEW e \in Executions, StopExperiment(e) PROVE ExperimentInv(d)'
  BY <1>9 DEF StopExperiment, Begun
<1>10. ASSUME NEW e \in Executions, ExperimentMoves(e) PROVE ExperimentInv(d)'
  BY <1>10 DEF ExperimentMoves, Moves, Begun
<1>11. ASSUME NEW e \in Executions, OwnerStops(e) PROVE ExperimentInv(d)'
  BY <1>11 DEF OwnerStops, Begun
<1>12. ASSUME NEW failing, Restart(failing) PROVE ExperimentInv(d)'
  BY <1>12 DEF Restart
<1>13. ASSUME NEW u \in Units, OwnerChanges(u) PROVE ExperimentInv(d)'
  BY <1>13 DEF OwnerChanges
<1>14. ASSUME UNCHANGED vars PROVE ExperimentInv(d)'
  BY <1>14 DEF vars
<1> QED  BY <1>1, <1>2, <1>3, <1>4, <1>5, <1>6, <1>7, <1>8, <1>9, <1>10, <1>11, <1>12, <1>13, <1>14 DEF Next

-----------------------------------------------------------------------------
(* Triggers: the theorems                                                  *)

\* The initial states satisfy the invariant, and every step keeps it.
LEMMA TriggersInvariance == Spec => []TriggersInv
<1>1. Init => TriggersInv
  <2> SUFFICES ASSUME Init PROVE TriggersInv
    OBVIOUS
  <2>1. \A k \in DOMAIN accounts :
          k \in Keys /\ k = <<accounts[k].account, accounts[k].region, accounts[k].role>>
    BY AccountsKeyed, RestartedAccounts DEF Init
  <2>2. TypeOK
    BY <2>1 DEF Init, TypeOK, Phases, MayStop, Statuses, ExperimentStatuses
  <2>3. ASSUME NEW e \in Executions
        PROVE  ChoiceInv(e) /\ HitInv(e) /\ TaskInv(e) /\ ExperimentInv(e)
    BY DEF Init, Statuses, ChoiceInv, HitInv, TaskInv, ExperimentInv
  <2> QED  BY <2>2, <2>3 DEF TriggersInv
<1>2. TriggersInv /\ [Next]_vars => TriggersInv'
  BY TypeStep, ChoiceStep, HitStep, TaskStep, ExperimentStep DEF TriggersInv
<1> QED  BY <1>1, <1>2, PTL DEF Spec

\* Every reachable state is well typed, and the accounts map has only the keys of
\* the configuration, each with an access of its own account, region and role,
\* whatever roles could be assumed at the last restart.
THEOREM TriggersTypeCorrect == Spec => []TypeOK
BY TriggersInvariance, PTL DEF TriggersInv

\* The answers of Start are true: no error means that all chosen units were hit
\* (and a task was running), an error with no lost reply that none was.
THEOREM StartAnswersTruly == Spec => []AnswersAreTrue
<1>1. TriggersInv => AnswersAreTrue
  BY DEF TriggersInv, HitInv, TaskInv, ExperimentInv, AnswersAreTrue
<1> QED  BY <1>1, TriggersInvariance, PTL

\* No execution acts beyond what it has chosen, with another access than that of
\* its target, or on one unit more than the percentage needs.
THEOREM BlastRadiusIsKept == Spec => []BlastRadius
<1>1. TriggersInv => BlastRadius
  <2> SUFFICES ASSUME TriggersInv, NEW e \in Executions
               PROVE  /\ acted[e] \subseteq {key[e]}
                      /\ hit[e] \subseteq considered[e]
                      /\ hit[e] # {} =>
                           (Cardinality(hit[e]) - 1) * 100 < percentage[e] * Cardinality(considered[e])
    BY DEF BlastRadius
  <2>1. HitInv(e) /\ ChoiceInv(e)
    BY DEF TriggersInv
  <2>2. CASE hit[e] = {}
    BY <2>1, <2>2 DEF HitInv
  <2>3. CASE hit[e] # {}
    BY <2>1, <2>3 DEF HitInv, ChoiceInv
  <2> QED  BY <2>2, <2>3
<1> QED  BY <1>1, TriggersInvariance, PTL

\* A Stop without an error leaves an experiment that ends or has ended, and what
\* was reported of its end is so.
THEOREM StopEndsTheExperiment == Spec => []StoppedMeansEnding
<1>1. TriggersInv => StoppedMeansEnding
  BY DEF TriggersInv, ExperimentInv, StoppedMeansEnding
<1> QED  BY <1>1, TriggersInvariance, PTL

-----------------------------------------------------------------------------
(* Discovery: the invariant                                                *)

\* The accounts map is empty until the roles have been assumed, some of which
\* may have failed.
Configured ==
    \/ accounts = <<>>
    \/ /\ ParseConfiguration(scenario.spec).ok
       /\ \E failing \in SUBSET {role.arn : role \in Items(ParseConfiguration(scenario.spec).roles)} :
            accounts = AccountsMap(InitializeAwsAccess(ParseConfiguration(scenario.spec), failing))

\* Every variable is a function of what its type invariant says; the cache has an
\* entry for the place of every access.
Shaped ==
    /\ scenario \in Scenarios /\ Configured
    /\ stage \in {"configuring", "caching", "serving", "fatal"}
    /\ at = [j \in Jobs |-> [k \in AccountKeys |-> at[j][k]]]
    /\ found = [j \in Jobs |-> [k \in AccountKeys |-> found[j][k]]]
    /\ answer = [j \in Jobs |-> answer[j]]
    /\ round \in [Jobs -> Nat]
    /\ running \subseteq Jobs
    /\ failures \in 0 .. MaxFailures
    /\ cache \in [{Place(accounts[k]) : k \in AccountKeys} -> SUBSET {"zone", "vpc"}]
    /\ version \in [Resources -> Nat]
    /\ reading = [k \in AccountKeys |-> reading[k]]
    /\ listed = [k \in AccountKeys |-> listed[k]]
    /\ shown = [k \in AccountKeys |-> shown[k]]
    /\ raced \in BOOLEAN

\* The steps of a worker, by job.
StepsOf(j) ==
    {"queued", "result"} \cup
    CASE j = "boot" -> {"zones", "vpcs"}
      [] j = "refresh" -> {"idle", "zones", "vpcs", "read"}
      [] j = "collect" -> {"idle", "collect", "list", "look", "get", "store"}

\* What a worker does fits the job, the kind and the stage; there are not more
\* workers than there should be, and only a result has targets.
WorkInv ==
    /\ stage = "configuring" => accounts = <<>> /\ running = {} /\ \A j \in Jobs : round[j] = 0
    /\ stage = "caching" => running \subseteq {"boot"}
    /\ \A j \in Jobs : Cardinality(Busy(j)) <= scenario.workers
    /\ \A k \in AccountKeys :
        /\ \A j \in Jobs :
            /\ at[j][k] \in StepsOf(j)
            /\ at[j][k] # "result" => found[j][k] = {}
        /\ found["boot"][k] = {}
        /\ stage = "caching" => at["refresh"][k] = "idle" /\ at["collect"][k] = "idle"
        /\ stage = "serving" => at["boot"][k] = "result"
        /\ at["collect"][k] = "collect" => scenario.kind \notin {"zone", "template"}
        /\ at["collect"][k] \in {"list", "look", "get", "store"} => scenario.kind = "template"
    /\ running \subseteq {"boot"} \cup Registered

\* The cache once a worker has been there, if no call has failed; VPC names that
\* are switched off are never in it.
CacheInv ==
    \A k \in AccountKeys :
        /\ scenario.vpcDisabled => "vpc" \notin cache[Place(accounts[k])]
        /\ failures = 0 =>
            /\ at["boot"][k] \in {"vpcs", "result"} => "zone" \in cache[Place(accounts[k])]
            /\ at["boot"][k] = "result" /\ ~scenario.vpcDisabled => "vpc" \in cache[Place(accounts[k])]

\* What SoundTargets says of a target of access k that may make some false claims.
Sound(k, claims, t) ==
    /\ t.by = [account |-> accounts[k].account, region |-> accounts[k].region, role |-> accounts[k].role]
    /\ t.of \in Here(k) /\ Selected(t.of, accounts[k].filters) /\ Discoverable(t.of)
    /\ t.shows \subseteq Promised[scenario.kind].shows \cup claims

FalseClaims == IF failures = 0 THEN {} ELSE {"noScaling", "noTargets"}

SoundInv ==
    /\ \A j \in Jobs, k \in AccountKeys : \A t \in found[j][k] : Sound(k, FalseClaims, t)
    /\ \A j \in Jobs : \A t \in answer[j] : \E k \in AccountKeys : Sound(k, FalseClaims, t)

\* A result has all the targets that are owed, and so has an answer.
CompleteInv ==
    failures = 0 /\ ~CutShort =>
        /\ \A k \in AccountKeys :
            at[ReportingJob][k] = "result" => Owed(k) \subseteq found[ReportingJob][k]
        /\ round[ReportingJob] > 0 /\ ReportingJob \notin running =>
            \A k \in AccountKeys : Owed(k) \subseteq answer[ReportingJob]

\* The list of a worker at the templates, and the one it reads.
ListInv ==
    \A k \in AccountKeys :
        /\ DOMAIN listed[k] \subseteq Resources /\ DOMAIN shown[k] \subseteq DOMAIN listed[k]
        /\ \A r \in DOMAIN listed[k] : listed[k][r] \in Nat /\ listed[k][r] <= version[r]
        /\ at["collect"][k] \in {"look", "get", "store"} => DOMAIN listed[k] = Here(k)
        /\ at["collect"][k] \in {"get", "store"} => reading[k] \in DOMAIN listed[k]
        /\ at["collect"][k] = "store" => reading[k] \in DOMAIN shown[k]

\* As long as no template has changed between its Get and the store, an entry of
\* the cache has the version that it is said to have.
FreshInv ==
    ~raced =>
        /\ \A r \in DOMAIN durationCache :
            durationCache[r].of \in Nat /\ durationCache[r].created = durationCache[r].of
        /\ \A k \in AccountKeys :
            /\ \A r \in DOMAIN shown[k] : shown[k][r].of \in Nat /\ shown[k][r].of >= listed[k][r]
            /\ at["collect"][k] = "store" => shown[k][reading[k]].of = version[reading[k]]

DiscoveryInv ==
    Shaped /\ WorkInv /\ CacheInv /\ SoundInv /\ CompleteInv /\ ListInv /\ FreshInv

-----------------------------------------------------------------------------
(* Discovery: the accounts                                                 *)

\* The kinds that are discovered.
DiscoveryKinds ==
    {"instance", "subnet", "zone", "ebs", "nat", "alb", "nlb", "stage", "asg", "eks", "nodegroup",
     "lambda", "service", "task", "template", "table", "rds", "rdscluster", "elasticache", "msk",
     "mq", "queue", "rule"}

\* They are those whose calls are known.
LEMMA KindsKnown == DOMAIN CallsOf = DiscoveryKinds
BY DEF CallsOf, DiscoveryKinds

\* Without an access there is no key.
LEMMA NoKeys == ASSUME accounts = <<>> PROVE AccountKeys = {}
BY DEF AccountKeys

\* The access of a key is one of those that the configuration asks for, it is
\* found under its own account, region and role, and it is not nil.
LEMMA KeysAreConfigured ==
    ASSUME scenario \in Scenarios, Configured, NEW k \in AccountKeys
    PROVE  /\ ParseConfiguration(scenario.spec).ok
           /\ accounts[k] \in AllAccesses(scenario.spec) /\ accounts[k] # Unset
           /\ k = <<accounts[k].account, accounts[k].region, accounts[k].role>>
<1>1. accounts # <<>>
  BY NoKeys
<1>2. ParseConfiguration(scenario.spec).ok
  BY <1>1 DEF Configured
<1>3. PICK failing :
        accounts = AccountsMap(InitializeAwsAccess(ParseConfiguration(scenario.spec), failing))
  BY <1>1 DEF Configured
<1> DEFINE all == InitializeAwsAccess(ParseConfiguration(scenario.spec), failing)
<1>4. k \in DOMAIN AccountsMap(all)
  BY <1>3 DEF AccountKeys
<1>5. /\ accounts[k] \in all
      /\ k = <<accounts[k].account, accounts[k].region, accounts[k].role>>
  BY <1>3, <1>4, AccountsKeyed
<1>6. all \subseteq AllAccesses(scenario.spec)
  BY FewerRolesFewerAccesses DEF AllAccesses
<1> QED  BY <1>2, <1>5, <1>6, ScenariosAssumption

\* The image of a finite set is finite.
LEMMA FiniteImage ==
    ASSUME NEW S, IsFiniteSet(S), NEW T, NEW f \in Surjection(S, T)
    PROVE  IsFiniteSet(T)
BY FS_Surjection

\* There are finitely many keys.
LEMMA FinitelyManyKeys ==
    ASSUME scenario \in Scenarios, Configured
    PROVE  IsFiniteSet(AccountKeys)
<1> DEFINE used == {x \in AllAccesses(scenario.spec) : \E k \in AccountKeys : accounts[k] = x}
           f == [x \in used |-> <<x.account, x.region, x.role>>]
<1>1. IsFiniteSet(used)
  BY FS_Subset, ScenariosAssumption
<1>2. f \in Surjection(used, AccountKeys)
  <2>1. ASSUME NEW x \in used PROVE f[x] \in AccountKeys
    BY KeysAreConfigured
  <2>2. ASSUME NEW k \in AccountKeys PROVE \E x \in used : f[x] = k
    <3>1. accounts[k] \in used /\ f[accounts[k]] = k
      BY KeysAreConfigured
    <3> QED  BY <3>1
  <2>3. f \in [used -> AccountKeys]
    BY <2>1
  <2> QED  BY <2>2, <2>3 DEF Surjection
<1> QED  BY <1>1, <1>2, FiniteImage

\* The places of an access's own key and of its record are the same, and the access
\* is found by what a target of it says.
LEMMA AccessOfTarget ==
    ASSUME scenario \in Scenarios, Configured, NEW k \in AccountKeys
    PROVE  GetAwsAccess(accounts[k].account, accounts[k].region, accounts[k].role) = accounts[k]
BY KeysAreConfigured DEF GetAwsAccess, GetMapKey, AccountKeys

\* A set of which any four elements are not all different is finite.
LEMMA AtMostThree ==
    ASSUME NEW S,
           \A a, b, c, d \in S : a = b \/ a = c \/ a = d \/ b = c \/ b = d \/ c = d
    PROVE  IsFiniteSet(S)
<1>1. ASSUME NEW a, NEW b, NEW c PROVE IsFiniteSet({a, b, c})
  <2>1. IsFiniteSet({a}) /\ IsFiniteSet({b}) /\ IsFiniteSet({c})
    BY FS_Singleton
  <2>2. IsFiniteSet({a} \cup {b})
    BY <2>1, FS_Union
  <2>3. IsFiniteSet(({a} \cup {b}) \cup {c})
    BY <2>1, <2>2, FS_Union
  <2>4. ({a} \cup {b}) \cup {c} = {a, b, c}
    OBVIOUS
  <2> QED  BY <2>3, <2>4
<1>2. \E a, b, c : S \subseteq {a, b, c}
  <2>1. CASE \E a, b : S \subseteq {a, b}
    <3>1. PICK a, b : S \subseteq {a, b}
      BY <2>1
    <3>2. S \subseteq {a, b, b}
      BY <3>1
    <3> QED  BY <3>2
  <2>2. CASE ~\E a, b : S \subseteq {a, b}
    <3>1. PICK a \in S : TRUE
      BY <2>2
    <3>2. PICK b \in S : b # a
      BY <2>2
    <3>3. PICK c \in S : c # a /\ c # b
      BY <2>2
    <3>4. S \subseteq {a, b, c}
      BY <3>2, <3>3
    <3> QED  BY <3>4
  <2> QED  BY <2>1, <2>2
<1> QED  BY <1>1, <1>2, FS_Subset

\* The calls of a supplier are finitely many.
LEMMA FinitelyManyCalls ==
    ASSUME scenario \in Scenarios, NEW k
    PROVE  IsFiniteSet(CallsUnder(k))
<1> DEFINE once == CallsOf[scenario.kind].once
           each == CallsOf[scenario.kind].each
<1>2. scenario.kind \in DiscoveryKinds
  BY ScenariosAssumption, KindsKnown
<1>3. \A a, b, c, d \in once : a = b \/ a = c \/ a = d \/ b = c \/ b = d \/ c = d
  BY <1>2 DEF CallsOf, DiscoveryKinds
<1>4. \A a, b, c, d \in each : a = b \/ a = c \/ a = d \/ b = c \/ b = d \/ c = d
  BY <1>2 DEF CallsOf, DiscoveryKinds
<1>5. IsFiniteSet(once) /\ IsFiniteSet(each)
  <2> HIDE DEF once, each
  <2> QED  BY <1>3, <1>4, AtMostThree
<1> HIDE DEF once, each
<1> DEFINE named == {<<c>> : c \in once}
           f == [c \in once |-> <<c>>]
<1>6. IsFiniteSet(named)
  <2>1. f \in Surjection(once, named)
    BY DEF Surjection
  <2> QED  BY <1>5, <2>1, FiniteImage
<1>7. IsFiniteSet(Here(k))
  BY ScenariosAssumption, FS_Subset DEF Here
<1>8. IsFiniteSet(each \X Here(k))
  BY <1>5, <1>7, FS_Product
<1>9. CallsUnder(k) = named \cup (each \X Here(k))
  BY DEF CallsUnder, once, each
<1>10. IsFiniteSet(named \cup (each \X Here(k)))
  <2> HIDE DEF named
  <2> QED  BY <1>6, <1>8, FS_Union
<1> QED  BY <1>9, <1>10

\* The calls that fail in one step of a supplier are counted; if none is there, none
\* fails.
LEMMA FailedCallsCounted ==
    ASSUME scenario \in Scenarios, NEW k, failures \in 0 .. MaxFailures,
           NEW down \in UNION {kSubset(n, CallsUnder(k)) : n \in 0 .. MaxFailures - failures}
    PROVE  /\ Cardinality(down) \in 0 .. MaxFailures - failures
           /\ Cardinality(down) = 0 => down = {}
<1>1. PICK n \in 0 .. MaxFailures - failures : down \in kSubset(n, CallsUnder(k))
  OBVIOUS
<1>2. down \subseteq CallsUnder(k) /\ Cardinality(down) = n
  BY <1>1 DEF kSubset
<1>3. IsFiniteSet(down)
  BY <1>2, FinitelyManyCalls, FS_Subset
<1> QED  BY <1>1, <1>2, <1>3, FS_EmptySet

-----------------------------------------------------------------------------
(* Discovery: what a supplier may report, whatever fails                   *)

\* A view has up to three pages and what the cache can have.
IsView(v) ==
    /\ v.cached \subseteq {"zone", "vpc"}
    /\ \E A, B, C : v.pages \in {<<A>>, <<A, B>>, <<A, B, C>>}

\* The resources that the filters select.
Matching(v) == {r \in Listed(v) : Matches(v, r)}

\* Targets of resources R, found by the access of the view, that show some of S.
Honest(v, R, S) == [of : R, by : {v.access}, shows : SUBSET S]

\* What is false if a call has failed.
ClaimsOf(v) == IF v.down = {} THEN {} ELSE {"noScaling", "noTargets"}

\* To take the labels off makes no target dishonest.
LEMMA ExcludesAreHonest ==
    ASSUME NEW v, NEW R, NEW S, NEW list, NEW T, T \subseteq Honest(v, R, S)
    PROVE  ApplyAttributeExcludes(v, list, T) \subseteq Honest(v, R, S)
<1>1. ASSUME NEW t \in T PROVE [t EXCEPT !.shows = @ \ {"labels"}] \in Honest(v, R, S)
  BY DEF Honest
<1> QED  BY <1>1 DEF ApplyAttributeExcludes

\* A target is one of its access.
LEMMA TargetIsHonest ==
    ASSUME NEW v, NEW R, NEW S, NEW r \in R, NEW shows \in SUBSET S
    PROVE  Target(v, r, shows) \in Honest(v, R, S)
BY DEF Target, Honest

\* Less than all pages is part of them.
LEMMA PagesAreListed ==
    ASSUME NEW v, IsView(v)
    PROVE  FirstPage(v) \subseteq Listed(v) /\ UntilEmptyPage(v) \subseteq Listed(v)
<1>1. UntilEmptyPage(v) \subseteq Listed(v)
  BY DEF UntilEmptyPage, Listed
<1>2. PICK A, B, C : v.pages \in {<<A>>, <<A, B>>, <<A, B, C>>}
  BY DEF IsView
<1>3. v.pages # <<>> /\ 1 \in DOMAIN v.pages /\ Head(v.pages) = v.pages[1]
  BY <1>2
<1> QED  BY <1>1, <1>3 DEF FirstPage, Listed

\* A resource whose tags are not known is selected by no filter.
LEMMA UnknownTagsMatchNothing ==
    ASSUME NEW v, NEW r, NEW known, MatchesWith(v, r, known)
    PROVE  Matches(v, r)
BY DEF MatchesWith, Matches, MatchesTagFilter

\* The discoveries of extec2, extelb and extapigateway.
LEMMA NetworkTargetsHonest ==
    ASSUME NEW v, IsView(v)
    PROVE  /\ AllEc2Instances(v).targets \subseteq Honest(v, Matching(v), {"labels", "zone", "vpc"})
           /\ AllSubnets(v).targets \subseteq Honest(v, Matching(v), {"labels", "vpc"})
           /\ AllAvailabilityZones(v).targets \subseteq Honest(v, Matching(v), {})
           /\ AllEbsVolumes(v).targets \subseteq Honest(v, Matching(v), {"labels", "snapshot"})
           /\ AllNatGateways(v).targets \subseteq
                Honest(v, {r \in Matching(v) : v.live[r]}, {"labels", "zone"})
           /\ AllAlbs(v).targets \subseteq
                Honest(v, {r \in Matching(v) : v.form[r] = "application"},
                       {"labels", "listeners", "zone", "vpc"})
           /\ AllNlbs(v).targets \subseteq
                Honest(v, {r \in Matching(v) : v.form[r] = "network"},
                       {"labels", "listeners", "zone", "vpc"})
           /\ AllStages(v).targets \subseteq Honest(v, Matching(v), {"labels"})
<1> USE DEF Failed, Found, Matching, IsView, GetZone, GetVpcName
<1>1. AllEc2Instances(v).targets \subseteq Honest(v, Matching(v), {"labels", "zone", "vpc"})
  <2>1. {Ec2InstanceTarget(v, r) : r \in {q \in Listed(v) : Matches(v, q)}}
            \subseteq Honest(v, Matching(v), {"labels", "zone", "vpc"})
    BY TargetIsHonest DEF Ec2InstanceTarget
  <2> QED  BY <2>1, ExcludesAreHonest DEF AllEc2Instances
<1>2. AllSubnets(v).targets \subseteq Honest(v, Matching(v), {"labels", "vpc"})
  <2>1. {SubnetTarget(v, r) : r \in {q \in Listed(v) : Matches(v, q)}}
            \subseteq Honest(v, Matching(v), {"labels", "vpc"})
    BY TargetIsHonest DEF SubnetTarget
  <2> QED  BY <2>1, ExcludesAreHonest DEF AllSubnets
<1>3. AllAvailabilityZones(v).targets \subseteq Honest(v, Matching(v), {})
  <2>1. {AvailabilityZoneTarget(v, r) : r \in {q \in Listed(v) : v.filters = {} /\ "zone" \in v.cached}}
            \subseteq Honest(v, Matching(v), {})
    BY TargetIsHonest DEF AvailabilityZoneTarget, Matches, MatchesTagFilter
  <2> QED  BY <2>1, ExcludesAreHonest DEF AllAvailabilityZones
<1>4. AllEbsVolumes(v).targets \subseteq Honest(v, Matching(v), {"labels", "snapshot"})
  <2>1. {EbsVolumeTarget(v, r) : r \in {q \in Listed(v) : Matches(v, q)}}
            \subseteq Honest(v, Matching(v), {"labels", "snapshot"})
    BY TargetIsHonest DEF EbsVolumeTarget, LatestSnapshot
  <2> QED  BY <2>1, ExcludesAreHonest DEF AllEbsVolumes
<1>5. AllNatGateways(v).targets \subseteq
        Honest(v, {r \in Matching(v) : v.live[r]}, {"labels", "zone"})
  <2>1. {NatGatewayTarget(v, r) : r \in {q \in Listed(v) : v.live[q] /\ Matches(v, q)}}
            \subseteq Honest(v, {r \in Matching(v) : v.live[r]}, {"labels", "zone"})
    <3>1. SubnetAz(v) \subseteq {"zone"}
      BY DEF SubnetAz
    <3>2. ASSUME NEW r \in Listed(v), v.live[r], Matches(v, r)
          PROVE  NatGatewayTarget(v, r) \in
                   Honest(v, {q \in Matching(v) : v.live[q]}, {"labels", "zone"})
      BY <3>1, <3>2, TargetIsHonest DEF NatGatewayTarget
    <3> QED  BY <3>2
  <2> QED  BY <2>1, ExcludesAreHonest DEF AllNatGateways
<1>6. AllAlbs(v).targets \subseteq
        Honest(v, {r \in Matching(v) : v.form[r] = "application"},
               {"labels", "listeners", "zone", "vpc"})
  <2>1. {AlbTarget(v, r) : r \in {q \in {p \in Listed(v) : v.form[p] = "application"} : Matches(v, q)}}
            \subseteq Honest(v, {r \in Matching(v) : v.form[r] = "application"},
                             {"labels", "listeners", "zone", "vpc"})
    BY TargetIsHonest DEF AlbTarget
  <2> QED  BY <2>1, ExcludesAreHonest DEF AllAlbs
<1>7. AllNlbs(v).targets \subseteq
        Honest(v, {r \in Matching(v) : v.form[r] = "network"},
               {"labels", "listeners", "zone", "vpc"})
  <2>1. {NlbTarget(v, r) : r \in {q \in {p \in Listed(v) : v.form[p] = "network"} : Matches(v, q)}}
            \subseteq Honest(v, {r \in Matching(v) : v.form[r] = "network"},
                             {"labels", "listeners", "zone", "vpc"})
    BY TargetIsHonest DEF NlbTarget
  <2> QED  BY <2>1, ExcludesAreHonest DEF AllNlbs
<1>8. AllStages(v).targets \subseteq Honest(v, Matching(v), {"labels"})
  <2>1. RestStages(v).targets \subseteq Honest(v, Matching(v), {"labels"})
    BY TargetIsHonest DEF RestStages, RestStageTarget, StagesFound
  <2>2. HttpStages(v).targets \subseteq Honest(v, Matching(v), {"labels"})
    BY TargetIsHonest DEF HttpStages, HttpStageTarget, StagesFound
  <2>3. RestStages(v).targets \cup HttpStages(v).targets \subseteq Honest(v, Matching(v), {"labels"})
    BY <2>1, <2>2
  <2> QED  BY <2>3, ExcludesAreHonest DEF AllStages
<1> QED  BY <1>1, <1>2, <1>3, <1>4, <1>5, <1>6, <1>7, <1>8

\* The discoveries of extasg, exteks, extlambda and extecs.
LEMMA ComputeTargetsHonest ==
    ASSUME NEW v, IsView(v)
    PROVE  /\ AllAsgs(v).targets \subseteq Honest(v, Matching(v), {"labels"})
           /\ AllEksClusters(v).targets \subseteq Honest(v, Matching(v), {"labels"})
           /\ AllEksNodegroups(v).targets \subseteq Honest(v, Matching(v), {"labels"})
           /\ AllLambdaFunctions(v).targets \subseteq Honest(v, Matching(v), {"labels", "vpc"})
           /\ AllEcsServices(v).targets \subseteq
                Honest(v, {r \in Matching(v) : ~IgnoreEcs(v, r)}, {"labels"})
           /\ AllEcsTasks(v).targets \subseteq
                Honest(v, {r \in Matching(v) : v.live[r] /\ ~IgnoreEcs(v, r)}, {"labels", "zone"})
<1> USE DEF Failed, Found, Matching, IsView, GetZone, GetVpcName
<1>1. AllAsgs(v).targets \subseteq Honest(v, Matching(v), {"labels"})
  BY TargetIsHonest DEF AllAsgs, AsgTarget
<1>2. AllEksClusters(v).targets \subseteq Honest(v, Matching(v), {"labels"})
  BY TargetIsHonest DEF AllEksClusters, ClusterTarget
<1>3. AllEksNodegroups(v).targets \subseteq Honest(v, Matching(v), {"labels"})
  BY TargetIsHonest DEF AllEksNodegroups, NodegroupTarget
<1>4. AllLambdaFunctions(v).targets \subseteq Honest(v, Matching(v), {"labels", "vpc"})
  <2> DEFINE found_ == {LambdaTarget(v, r) :
                          r \in {q \in UntilEmptyPage(v) : MatchesWith(v, q, ~TagsMissing(v))}}
  <2>1. \A q \in UntilEmptyPage(v) : MatchesWith(v, q, ~TagsMissing(v)) => q \in Matching(v)
    BY PagesAreListed, UnknownTagsMatchNothing
  <2>2. found_ \subseteq Honest(v, Matching(v), {"labels", "vpc"})
    BY <2>1, TargetIsHonest DEF LambdaTarget
  <2>3. ApplyAttributeExcludes(v, "Lambda", found_) \subseteq Honest(v, Matching(v), {"labels", "vpc"})
    BY <2>2, ExcludesAreHonest
  <2>4. AllLambdaFunctions(v).targets \in {{}, found_, ApplyAttributeExcludes(v, "Lambda", found_)}
    BY DEF AllLambdaFunctions
  <2> QED  BY <2>2, <2>3, <2>4
<1>5. AllEcsServices(v).targets \subseteq
        Honest(v, {r \in Matching(v) : ~IgnoreEcs(v, r)}, {"labels"})
  <2>1. {EcsServiceTarget(v, r) : r \in {q \in FirstPage(v) : ~IgnoreEcs(v, q) /\ Matches(v, q)}}
            \subseteq Honest(v, {r \in Matching(v) : ~IgnoreEcs(v, r)}, {"labels"})
    BY TargetIsHonest, PagesAreListed DEF EcsServiceTarget
  <2> QED  BY <2>1, ExcludesAreHonest DEF AllEcsServices
<1>6. AllEcsTasks(v).targets \subseteq
        Honest(v, {r \in Matching(v) : v.live[r] /\ ~IgnoreEcs(v, r)}, {"labels", "zone"})
  <2>1. {EcsTaskTarget(v, r) :
            r \in {q \in FirstPage(v) : v.live[q] /\ ~IgnoreEcs(v, q) /\ Matches(v, q)}}
            \subseteq Honest(v, {r \in Matching(v) : v.live[r] /\ ~IgnoreEcs(v, r)}, {"labels", "zone"})
    BY TargetIsHonest, PagesAreListed DEF EcsTaskTarget
  <2> QED  BY <2>1, ExcludesAreHonest DEF AllEcsTasks
<1> QED  BY <1>1, <1>2, <1>3, <1>4, <1>5, <1>6

\* The discoveries of extdynamodb, extrds, extelasticache, extmsk, extmq, extsqs,
\* exteventbridge and extfis; what is shown of scaling and targets is true if no
\* call fails.
LEMMA DataTargetsHonest ==
    ASSUME NEW v, IsView(v)
    PROVE  /\ AllTables(v).targets \subseteq
                Honest(v, Matching(v), {"labels", "backups", "scaling"} \cup ClaimsOf(v))
           /\ AllRdsInstances(v).targets \subseteq Honest(v, Matching(v), {"labels", "zone", "vpc"})
           /\ AllRdsClusters(v).targets \subseteq Honest(v, Matching(v), {"labels"})
           /\ AllElasticacheReplicationGroups(v).targets \subseteq Honest(v, Matching(v), {"labels"})
           /\ AllMskClusters(v).targets \subseteq
                Honest(v, {r \in Matching(v) : v.live[r]}, {"labels"})
           /\ AllBrokers(v).targets \subseteq Honest(v, Matching(v), {"labels"})
           /\ AllQueues(v).targets \subseteq Honest(v, Matching(v), {"labels"})
           /\ AllRules(v).targets \subseteq
                Honest(v, Matching(v), {"labels", "targets"} \cup ClaimsOf(v))
           /\ FisTemplatesOf(v).targets \subseteq Honest(v, Matching(v), {"labels"})
<1> USE DEF Failed, Found, Matching, IsView, GetZone, GetVpcName
<1>1. AllTables(v).targets \subseteq
        Honest(v, Matching(v), {"labels", "backups", "scaling"} \cup ClaimsOf(v))
  <2>1. ASSUME NEW r \in Listed(v), MatchesWith(v, r, TableTagsKnown(v, r))
        PROVE  TableTarget(v, r) \in
                 Honest(v, Matching(v), {"labels", "backups", "scaling"} \cup ClaimsOf(v))
    <3>1. r \in Matching(v)
      BY <2>1, UnknownTagsMatchNothing
    <3>2. Autoscaling(v) \subseteq {"scaling"} \cup ClaimsOf(v)
      BY DEF Autoscaling, ScalableTargets, ClaimsOf, Fine
    <3> QED  BY <3>1, <3>2, TargetIsHonest DEF TableTarget, Backups
  <2>2. {TableTarget(v, r) : r \in {q \in Listed(v) : FineFor(v, "DescribeTable", q)
                                        /\ MatchesWith(v, q, TableTagsKnown(v, q))}}
            \subseteq Honest(v, Matching(v), {"labels", "backups", "scaling"} \cup ClaimsOf(v))
    BY <2>1
  <2> QED  BY <2>2, ExcludesAreHonest DEF AllTables
<1>2. AllRdsInstances(v).targets \subseteq Honest(v, Matching(v), {"labels", "zone", "vpc"})
  <2>1. {RdsInstanceTarget(v, r) : r \in {q \in Listed(v) : Matches(v, q)}}
            \subseteq Honest(v, Matching(v), {"labels", "zone", "vpc"})
    BY TargetIsHonest DEF RdsInstanceTarget
  <2> QED  BY <2>1, ExcludesAreHonest DEF AllRdsInstances
<1>3. AllRdsClusters(v).targets \subseteq Honest(v, Matching(v), {"labels"})
  BY TargetIsHonest DEF AllRdsClusters, RdsClusterTarget
<1>4. AllElasticacheReplicationGroups(v).targets \subseteq Honest(v, Matching(v), {"labels"})
  <2>1. \A q \in UntilEmptyPage(v) : MatchesWith(v, q, TagsKnown(v)) => q \in Matching(v)
    BY PagesAreListed, UnknownTagsMatchNothing
  <2> QED  BY <2>1, TargetIsHonest DEF AllElasticacheReplicationGroups, NodeGroupTarget
<1>5. AllMskClusters(v).targets \subseteq Honest(v, {r \in Matching(v) : v.live[r]}, {"labels"})
  <2>1. \A q \in Listed(v) : MatchesWith(v, q, TagsKnown(v)) => q \in Matching(v)
    BY UnknownTagsMatchNothing
  <2> QED  BY <2>1, TargetIsHonest DEF AllMskClusters, BrokerNodeTarget
<1>6. AllBrokers(v).targets \subseteq Honest(v, Matching(v), {"labels"})
  <2>1. {BrokerTarget(v, r) :
            r \in {q \in Listed(v) : FineFor(v, "DescribeBroker", q) /\ Matches(v, q)}}
            \subseteq Honest(v, Matching(v), {"labels"})
    BY TargetIsHonest DEF BrokerTarget
  <2> QED  BY <2>1, ExcludesAreHonest DEF AllBrokers
<1>7. AllQueues(v).targets \subseteq Honest(v, Matching(v), {"labels"})
  <2>1. \A q \in Listed(v) : MatchesWith(v, q, QueueTagsKnown(v, q)) => q \in Matching(v)
    BY UnknownTagsMatchNothing
  <2>2. {QueueTarget(v, r) : r \in {q \in Listed(v) : FineFor(v, "GetQueueAttributes", q)
                                        /\ MatchesWith(v, q, QueueTagsKnown(v, q))}}
            \subseteq Honest(v, Matching(v), {"labels"})
    BY <2>1, TargetIsHonest DEF QueueTarget
  <2> QED  BY <2>2, ExcludesAreHonest DEF AllQueues
<1>8. AllRules(v).targets \subseteq Honest(v, Matching(v), {"labels", "targets"} \cup ClaimsOf(v))
  <2>1. ASSUME NEW r \in Listed(v), MatchesWith(v, r, RuleTagsKnown(v, r))
        PROVE  RuleTarget(v, r) \in Honest(v, Matching(v), {"labels", "targets"} \cup ClaimsOf(v))
    <3>1. r \in Matching(v)
      BY <2>1, UnknownTagsMatchNothing
    <3>2. RuleTargets(v, r) \subseteq {"targets"} \cup ClaimsOf(v)
      BY DEF RuleTargets, ClaimsOf, FineFor
    <3> QED  BY <3>1, <3>2, TargetIsHonest DEF RuleTarget
  <2>2. {RuleTarget(v, r) : r \in {q \in Listed(v) : FineFor(v, "ListRules", q)
                                       /\ MatchesWith(v, q, RuleTagsKnown(v, q))}}
            \subseteq Honest(v, Matching(v), {"labels", "targets"} \cup ClaimsOf(v))
    BY <2>1
  <2> QED  BY <2>2, ExcludesAreHonest DEF AllRules
<1>9. FisTemplatesOf(v).targets \subseteq Honest(v, Matching(v), {"labels"})
  <2>1. {FisTemplateTarget(v, r) : r \in {q \in Listed(v) : Matches(v, q)}}
            \subseteq Honest(v, Matching(v), {"labels"})
    BY TargetIsHonest DEF FisTemplateTarget
  <2> QED  BY <2>1, ExcludesAreHonest DEF FisTemplatesOf
<1> QED  BY <1>1, <1>2, <1>3, <1>4, <1>5, <1>6, <1>7, <1>8, <1>9

-----------------------------------------------------------------------------
(* Discovery: what a supplier reports if no call fails                     *)

\* What is left of a target if a list of attribute excludes names the labels.
Less(v, list, S) == IF list \in v.excluded THEN S \ {"labels"} ELSE S

\* Every call succeeds.
Undisturbed(v) == IsView(v) /\ v.down = {}

\* Lists that are not cut.
OnePage(v) == \E S : v.pages = <<S>>

\* A target stays, with or without labels.
LEMMA ExcludesKeep ==
    ASSUME NEW v, NEW list, NEW T, NEW r, NEW S, Target(v, r, S) \in T
    PROVE  Target(v, r, Less(v, list, S)) \in ApplyAttributeExcludes(v, list, T)
<1>1. CASE list \in v.excluded
  <2>1. [Target(v, r, S) EXCEPT !.shows = @ \ {"labels"}] \in ApplyAttributeExcludes(v, list, T)
    BY <1>1 DEF ApplyAttributeExcludes
  <2>2. [Target(v, r, S) EXCEPT !.shows = @ \ {"labels"}] = Target(v, r, S \ {"labels"})
    BY DEF Target
  <2> QED  BY <1>1, <2>1, <2>2 DEF Less
<1>2. CASE list \notin v.excluded
  BY <1>2 DEF ApplyAttributeExcludes, Less
<1> QED  BY <1>1, <1>2

\* The only page is all that is listed, empty or not.
LEMMA OnlyPage ==
    ASSUME NEW v, OnePage(v)
    PROVE  /\ FirstPage(v) = Listed(v) /\ UntilEmptyPage(v) = Listed(v)
           /\ {} \in {v.pages[i] : i \in DOMAIN v.pages} => Listed(v) = {}
<1>1. PICK S : v.pages = <<S>>
  BY DEF OnePage
<1>2. DOMAIN v.pages = {1} /\ v.pages[1] = S /\ v.pages # <<>> /\ Head(v.pages) = S
  BY <1>1
<1>3. Listed(v) = S /\ FirstPage(v) = S
  BY <1>2 DEF Listed, FirstPage
<1>4. 1 .. 1 = {1}
  OBVIOUS
<1>5. UntilEmptyPage(v) = S
  <2>1. CASE S = {}
    BY <1>2, <1>3, <2>1 DEF UntilEmptyPage, Listed
  <2>2. CASE S # {}
    <3>1. {j \in DOMAIN v.pages : \A k \in 1 .. j : v.pages[k] # {}} = {1}
      BY <1>2, <1>4, <2>2
    <3> QED  BY <1>2, <3>1 DEF UntilEmptyPage
  <2> QED  BY <2>1, <2>2
<1> QED  BY <1>2, <1>3, <1>5

\* With its tags a resource matches if it does.
LEMMA KnownTagsMatch ==
    ASSUME NEW v, NEW r, NEW known, known, Matches(v, r)
    PROVE  MatchesWith(v, r, known)
BY DEF MatchesWith, Matches, MatchesTagFilter

\* The discoveries of extec2 and extelb.
LEMMA NetworkTargetsComplete ==
    ASSUME NEW v, Undisturbed(v)
    PROVE  /\ \A r \in Matching(v) :
                Target(v, r, Less(v, "Ec2", {"labels"} \cup GetZone(v) \cup GetVpcName(v))) \in AllEc2Instances(v).targets
           /\ \A r \in Matching(v) :
                Target(v, r, Less(v, "Subnet", {"labels"} \cup GetVpcName(v))) \in AllSubnets(v).targets
           /\ \A r \in Matching(v) :
                Target(v, r, Less(v, "Ebs", {"labels", "snapshot"})) \in AllEbsVolumes(v).targets
           /\ \A r \in {q \in Matching(v) : v.live[q]} :
                Target(v, r, Less(v, "NatGateway", {"labels"} \cup SubnetAz(v))) \in AllNatGateways(v).targets
           /\ \A r \in {q \in Matching(v) : v.form[q] = "application"} :
                Target(v, r, Less(v, "Ecs", {"labels", "listeners"} \cup GetZone(v) \cup GetVpcName(v))) \in AllAlbs(v).targets
           /\ \A r \in {q \in Matching(v) : v.form[q] = "network"} :
                Target(v, r, Less(v, "Elb", {"labels", "listeners"} \cup GetZone(v) \cup GetVpcName(v))) \in AllNlbs(v).targets
<1> USE DEF Undisturbed, Failed, Found, Matching
<1>1. ASSUME NEW r \in Matching(v)
      PROVE  Target(v, r, Less(v, "Ec2", {"labels"} \cup GetZone(v) \cup GetVpcName(v))) \in AllEc2Instances(v).targets
  <2>1. Target(v, r, {"labels"} \cup GetZone(v) \cup GetVpcName(v)) = Ec2InstanceTarget(v, r)
    BY DEF Fine, Ec2InstanceTarget
  <2> QED  BY <2>1, ExcludesKeep DEF AllEc2Instances, Fine
<1>2. ASSUME NEW r \in Matching(v)
      PROVE  Target(v, r, Less(v, "Subnet", {"labels"} \cup GetVpcName(v))) \in AllSubnets(v).targets
  <2>1. Target(v, r, {"labels"} \cup GetVpcName(v)) = SubnetTarget(v, r)
    BY DEF Fine, SubnetTarget
  <2> QED  BY <2>1, ExcludesKeep DEF AllSubnets, Fine
<1>3. ASSUME NEW r \in Matching(v)
      PROVE  Target(v, r, Less(v, "Ebs", {"labels", "snapshot"})) \in AllEbsVolumes(v).targets
  <2>1. Target(v, r, {"labels", "snapshot"}) = EbsVolumeTarget(v, r)
    BY DEF Fine, LatestSnapshot, EbsVolumeTarget
  <2> QED  BY <2>1, ExcludesKeep DEF AllEbsVolumes, Fine, LatestSnapshot
<1>4. ASSUME NEW r \in {q \in Matching(v) : v.live[q]}
      PROVE  Target(v, r, Less(v, "NatGateway", {"labels"} \cup SubnetAz(v))) \in AllNatGateways(v).targets
  <2>1. Target(v, r, {"labels"} \cup SubnetAz(v)) = NatGatewayTarget(v, r)
    BY DEF Fine, NatGatewayTarget
  <2> QED  BY <2>1, ExcludesKeep DEF AllNatGateways, Fine
<1>5. ASSUME NEW r \in {q \in Matching(v) : v.form[q] = "application"}
      PROVE  Target(v, r, Less(v, "Ecs", {"labels", "listeners"} \cup GetZone(v) \cup GetVpcName(v))) \in AllAlbs(v).targets
  <2>1. Target(v, r, {"labels", "listeners"} \cup GetZone(v) \cup GetVpcName(v)) = AlbTarget(v, r)
    BY DEF Fine, FineFor, AlbTarget
  <2> QED  BY <2>1, ExcludesKeep DEF AllAlbs, Fine, FineFor
<1>6. ASSUME NEW r \in {q \in Matching(v) : v.form[q] = "network"}
      PROVE  Target(v, r, Less(v, "Elb", {"labels", "listeners"} \cup GetZone(v) \cup GetVpcName(v))) \in AllNlbs(v).targets
  <2>1. Target(v, r, {"labels", "listeners"} \cup GetZone(v) \cup GetVpcName(v)) = NlbTarget(v, r)
    BY DEF Fine, FineFor, NlbTarget
  <2> QED  BY <2>1, ExcludesKeep DEF AllNlbs, Fine, FineFor
<1> QED  BY <1>1, <1>2, <1>3, <1>4, <1>5, <1>6

\* The discoveries of extasg and exteks.
LEMMA ComputeTargetsComplete ==
    ASSUME NEW v, Undisturbed(v)
    PROVE  /\ \A r \in Matching(v) :
                Target(v, r, {"labels"}) \in AllAsgs(v).targets
           /\ \A r \in Matching(v) :
                Target(v, r, {"labels"}) \in AllEksClusters(v).targets
           /\ \A r \in Matching(v) :
                Target(v, r, {"labels"}) \in AllEksNodegroups(v).targets
<1> USE DEF Undisturbed, Failed, Found, Matching
<1>1. ASSUME NEW r \in Matching(v)
      PROVE  Target(v, r, {"labels"}) \in AllAsgs(v).targets
  <2>1. Target(v, r, {"labels"}) = AsgTarget(v, r)
    BY DEF Fine, AsgTarget
  <2> QED  BY <2>1 DEF AllAsgs, Fine
<1>2. ASSUME NEW r \in Matching(v)
      PROVE  Target(v, r, {"labels"}) \in AllEksClusters(v).targets
  <2>1. Target(v, r, {"labels"}) = ClusterTarget(v, r)
    BY DEF Fine, FineFor, ClusterTarget
  <2> QED  BY <2>1 DEF AllEksClusters, Fine, FineFor
<1>3. ASSUME NEW r \in Matching(v)
      PROVE  Target(v, r, {"labels"}) \in AllEksNodegroups(v).targets
  <2>1. Target(v, r, {"labels"}) = NodegroupTarget(v, r)
    BY DEF Fine, FineFor, NodegroupTarget
  <2> QED  BY <2>1 DEF AllEksNodegroups, Fine, FineFor
<1> QED  BY <1>1, <1>2, <1>3

\* The discoveries of extdynamodb, extrds, extmsk, extmq, extsqs, exteventbridge and
\* extfis.
LEMMA DataTargetsComplete ==
    ASSUME NEW v, Undisturbed(v)
    PROVE  /\ \A r \in Matching(v) :
                Target(v, r, Less(v, "Dynamodb", {"labels", "backups", "scaling"})) \in AllTables(v).targets
           /\ \A r \in Matching(v) :
                Target(v, r, Less(v, "Rds", {"labels"} \cup GetZone(v) \cup GetVpcName(v))) \in AllRdsInstances(v).targets
           /\ \A r \in Matching(v) :
                Target(v, r, {"labels"}) \in AllRdsClusters(v).targets
           /\ \A r \in {q \in Matching(v) : v.live[q]} :
                Target(v, r, {"labels"}) \in AllMskClusters(v).targets
           /\ \A r \in Matching(v) :
                Target(v, r, Less(v, "Mq", {"labels"})) \in AllBrokers(v).targets
           /\ \A r \in Matching(v) :
                Target(v, r, Less(v, "Sqs", {"labels"})) \in AllQueues(v).targets
           /\ \A r \in Matching(v) :
                Target(v, r, Less(v, "Eventbridge", {"labels", "targets"})) \in AllRules(v).targets
           /\ \A r \in Matching(v) :
                Target(v, r, Less(v, "Fis", {"labels"})) \in FisTemplatesOf(v).targets
<1> USE DEF Undisturbed, Failed, Found, Matching
<1>1. ASSUME NEW r \in Matching(v)
      PROVE  Target(v, r, Less(v, "Dynamodb", {"labels", "backups", "scaling"})) \in AllTables(v).targets
  <2>1. Target(v, r, {"labels", "backups", "scaling"}) = TableTarget(v, r)
    BY DEF Fine, FineFor, TableTagsKnown, Backups, Autoscaling, ScalableTargets, TableTarget
  <2>2. MatchesWith(v, r, TableTagsKnown(v, r))
    BY KnownTagsMatch DEF Fine, FineFor, TableTagsKnown, Backups, Autoscaling, ScalableTargets
  <2> QED  BY <2>1, <2>2, ExcludesKeep DEF AllTables, Fine, FineFor, TableTagsKnown, Backups,
           Autoscaling, ScalableTargets
<1>2. ASSUME NEW r \in Matching(v)
      PROVE  Target(v, r, Less(v, "Rds", {"labels"} \cup GetZone(v) \cup GetVpcName(v))) \in AllRdsInstances(v).targets
  <2>1. Target(v, r, {"labels"} \cup GetZone(v) \cup GetVpcName(v)) = RdsInstanceTarget(v, r)
    BY DEF Fine, RdsInstanceTarget
  <2> QED  BY <2>1, ExcludesKeep DEF AllRdsInstances, Fine
<1>3. ASSUME NEW r \in Matching(v)
      PROVE  Target(v, r, {"labels"}) \in AllRdsClusters(v).targets
  <2>1. Target(v, r, {"labels"}) = RdsClusterTarget(v, r)
    BY DEF Fine, RdsClusterTarget
  <2> QED  BY <2>1 DEF AllRdsClusters, Fine
<1>4. ASSUME NEW r \in {q \in Matching(v) : v.live[q]}
      PROVE  Target(v, r, {"labels"}) \in AllMskClusters(v).targets
  <2>1. Target(v, r, {"labels"}) = BrokerNodeTarget(v, r)
    BY DEF Fine, FineFor, TagsKnown, BrokerNodeTarget
  <2>2. MatchesWith(v, r, TagsKnown(v))
    BY KnownTagsMatch DEF Fine, FineFor, TagsKnown
  <2> QED  BY <2>1, <2>2 DEF AllMskClusters, Fine, FineFor, TagsKnown
<1>5. ASSUME NEW r \in Matching(v)
      PROVE  Target(v, r, Less(v, "Mq", {"labels"})) \in AllBrokers(v).targets
  <2>1. Target(v, r, {"labels"}) = BrokerTarget(v, r)
    BY DEF Fine, FineFor, BrokerTarget
  <2> QED  BY <2>1, ExcludesKeep DEF AllBrokers, Fine, FineFor
<1>6. ASSUME NEW r \in Matching(v)
      PROVE  Target(v, r, Less(v, "Sqs", {"labels"})) \in AllQueues(v).targets
  <2>1. Target(v, r, {"labels"}) = QueueTarget(v, r)
    BY DEF Fine, FineFor, QueueTagsKnown, QueueTarget
  <2>2. MatchesWith(v, r, QueueTagsKnown(v, r))
    BY KnownTagsMatch DEF Fine, FineFor, QueueTagsKnown
  <2> QED  BY <2>1, <2>2, ExcludesKeep DEF AllQueues, Fine, FineFor, QueueTagsKnown
<1>7. ASSUME NEW r \in Matching(v)
      PROVE  Target(v, r, Less(v, "Eventbridge", {"labels", "targets"})) \in AllRules(v).targets
  <2>1. Target(v, r, {"labels", "targets"}) = RuleTarget(v, r)
    BY DEF Fine, FineFor, RuleTagsKnown, RuleTargets, RuleTarget
  <2>2. MatchesWith(v, r, RuleTagsKnown(v, r))
    BY KnownTagsMatch DEF Fine, FineFor, RuleTagsKnown, RuleTargets
  <2> QED  BY <2>1, <2>2, ExcludesKeep DEF AllRules, Fine, FineFor, RuleTagsKnown, RuleTargets
<1>8. ASSUME NEW r \in Matching(v)
      PROVE  Target(v, r, Less(v, "Fis", {"labels"})) \in FisTemplatesOf(v).targets
  <2>1. Target(v, r, {"labels"}) = FisTemplateTarget(v, r)
    BY DEF FisTemplateTarget
  <2> QED  BY <2>1, ExcludesKeep DEF FisTemplatesOf
<1> QED  BY <1>1, <1>2, <1>3, <1>4, <1>5, <1>6, <1>7, <1>8

\* A stage of an API is reported, be it a REST or an HTTP API.
LEMMA StagesComplete ==
    ASSUME NEW v, Undisturbed(v), NEW r \in Matching(v), v.form[r] \in {"rest", "http"}
    PROVE  Target(v, r, Less(v, "Apigateway", {"labels"})) \in AllStages(v).targets
<1> USE DEF Undisturbed, Failed, Found, Matching, Fine, FineFor, StagesFound
<1>1. RestStages(v).ok
  BY DEF RestStages
<1>2. Target(v, r, {"labels"}) \in RestStages(v).targets \cup HttpStages(v).targets
  <2>1. CASE v.form[r] = "rest"
    <3>1. RestStageTarget(v, r) \in RestStages(v).targets
      BY <2>1 DEF RestStages
    <3> QED  BY <3>1 DEF RestStageTarget
  <2>2. CASE v.form[r] = "http"
    <3>1. HttpStageTarget(v, r) \in HttpStages(v).targets
      BY <2>2 DEF HttpStages
    <3> QED  BY <3>1 DEF HttpStageTarget
  <2> QED  BY <2>1, <2>2
<1> QED  BY <1>1, <1>2, ExcludesKeep DEF AllStages

\* Availability zones, if the cache has them and there is no filter.
LEMMA ZonesComplete ==
    ASSUME NEW v, NEW r \in Listed(v), v.filters = {}, "zone" \in v.cached
    PROVE  Target(v, r, {}) \in AllAvailabilityZones(v).targets
<1>1. Target(v, r, {}) \in {AvailabilityZoneTarget(v, q) :
                             q \in {p \in Listed(v) : v.filters = {} /\ "zone" \in v.cached}}
  BY DEF AvailabilityZoneTarget
<1>2. Less(v, "Zone", {}) = {}
  BY DEF Less
<1> QED  BY <1>1, <1>2, ExcludesKeep DEF AllAvailabilityZones, Found

\* The discoveries that do not read on: functions, services, tasks, caches.
LEMMA OnePageComplete ==
    ASSUME NEW v, Undisturbed(v), OnePage(v)
    PROVE  /\ \A r \in Matching(v) :
                Target(v, r, Less(v, "Lambda", {"labels"} \cup GetVpcName(v)))
                    \in AllLambdaFunctions(v).targets
           /\ \A r \in {q \in Matching(v) : ~IgnoreEcs(v, q)} :
                Target(v, r, Less(v, "Ecs", {"labels"})) \in AllEcsServices(v).targets
           /\ \A r \in {q \in Matching(v) : v.live[q] /\ ~IgnoreEcs(v, q)} :
                Target(v, r, Less(v, "Ecs", {"labels"} \cup GetZone(v))) \in AllEcsTasks(v).targets
           /\ \A r \in Matching(v) :
                Target(v, r, {"labels"}) \in AllElasticacheReplicationGroups(v).targets
<1> USE OnlyPage DEF Undisturbed, Failed, Found, Matching, Fine, FineFor
<1>1. ASSUME NEW r \in Matching(v)
      PROVE  Target(v, r, Less(v, "Lambda", {"labels"} \cup GetVpcName(v)))
                 \in AllLambdaFunctions(v).targets
  <2> DEFINE all == {LambdaTarget(v, q) :
                        q \in {p \in UntilEmptyPage(v) : MatchesWith(v, p, ~TagsMissing(v))}}
  <2>1. Target(v, r, {"labels"} \cup GetVpcName(v)) = LambdaTarget(v, r)
    BY DEF LambdaTarget, TagsMissing
  <2>2. MatchesWith(v, r, ~TagsMissing(v))
    BY KnownTagsMatch DEF TagsMissing
  <2>3. LambdaTarget(v, r) \in all
    BY <2>2
  <2>4. Target(v, r, Less(v, "Lambda", {"labels"} \cup GetVpcName(v)))
            \in ApplyAttributeExcludes(v, "Lambda", all)
    BY <2>1, <2>3, ExcludesKeep
  <2>5. AllLambdaFunctions(v).targets = ApplyAttributeExcludes(v, "Lambda", all)
    BY DEF AllLambdaFunctions, TagsMissing
  <2> QED  BY <2>4, <2>5
<1>2. ASSUME NEW r \in {q \in Matching(v) : ~IgnoreEcs(v, q)}
      PROVE  Target(v, r, Less(v, "Ecs", {"labels"})) \in AllEcsServices(v).targets
  <2>1. Target(v, r, {"labels"}) \in
            {EcsServiceTarget(v, q) : q \in {p \in FirstPage(v) : ~IgnoreEcs(v, p) /\ Matches(v, p)}}
    BY DEF EcsServiceTarget
  <2> QED  BY <2>1, ExcludesKeep DEF AllEcsServices
<1>3. ASSUME NEW r \in {q \in Matching(v) : v.live[q] /\ ~IgnoreEcs(v, q)}
      PROVE  Target(v, r, Less(v, "Ecs", {"labels"} \cup GetZone(v))) \in AllEcsTasks(v).targets
  <2>1. Target(v, r, {"labels"} \cup GetZone(v)) \in
            {EcsTaskTarget(v, q) :
                q \in {p \in FirstPage(v) : v.live[p] /\ ~IgnoreEcs(v, p) /\ Matches(v, p)}}
    BY DEF EcsTaskTarget
  <2> QED  BY <2>1, ExcludesKeep DEF AllEcsTasks
<1>4. ASSUME NEW r \in Matching(v)
      PROVE  Target(v, r, {"labels"}) \in AllElasticacheReplicationGroups(v).targets
  <2>1. Target(v, r, {"labels"}) = NodeGroupTarget(v, r)
    BY DEF NodeGroupTarget, TagsKnown
  <2>2. MatchesWith(v, r, TagsKnown(v))
    BY KnownTagsMatch DEF TagsKnown
  <2> QED  BY <2>1, <2>2 DEF AllElasticacheReplicationGroups, TagsKnown
<1> QED  BY <1>1, <1>2, <1>3, <1>4

-----------------------------------------------------------------------------
(* Discovery: every kind                                                   *)

\* The pages are a way to cut what there is.
LEMMA PagesCut ==
    ASSUME NEW S, NEW pages \in Pages(S)
    PROVE  /\ \E A, B, C : pages \in {<<A>>, <<A, B>>, <<A, B, C>>}
           /\ UNION {pages[i] : i \in DOMAIN pages} = S
           /\ ~scenario.paged => pages = <<S>>
<1>1. CASE pages = <<S>>
  BY <1>1
<1>2. CASE \E A \in SUBSET S : pages = <<A, S \ A>>
  <2>1. PICK A \in SUBSET S : pages = <<A, S \ A>>
    BY <1>2
  <2>2. DOMAIN pages = {1, 2} /\ pages[1] = A /\ pages[2] = S \ A
    BY <2>1
  <2>3. UNION {pages[i] : i \in DOMAIN pages} = S
    BY <2>2
  <2>4. scenario.paged \/ pages = <<S>>
    BY DEF Pages
  <2> QED  BY <2>1, <2>3, <2>4
<1>3. CASE \E A \in SUBSET S : pages = <<A, {}, S \ A>>
  <2>1. PICK A \in SUBSET S : pages = <<A, {}, S \ A>>
    BY <1>3
  <2>2. DOMAIN pages = {1, 2, 3} /\ pages[1] = A /\ pages[2] = {} /\ pages[3] = S \ A
    BY <2>1
  <2>3. UNION {pages[i] : i \in DOMAIN pages} = S
    BY <2>2
  <2>4. scenario.paged \/ pages = <<S>>
    BY DEF Pages
  <2> QED  BY <2>1, <2>3, <2>4
<1> QED  BY <1>1, <1>2, <1>3 DEF Pages

\* The view of a supplier has all that is at the place of its access.
LEMMA ViewIsView ==
    ASSUME Shaped, NEW k \in AccountKeys, NEW pages \in Pages(Here(k)), NEW down
    PROVE  IsView(View(k, pages, down)) /\ Listed(View(k, pages, down)) = Here(k)
<1>1. cache[Place(accounts[k])] \subseteq {"zone", "vpc"}
  BY DEF Shaped
<1> DEFINE v == View(k, pages, down)
<1>2. v.pages = pages /\ v.cached = cache[Place(accounts[k])]
  BY DEF View
<1>3. (\E A, B, C : pages \in {<<A>>, <<A, B>>, <<A, B, C>>}) /\ Listed(v) = Here(k)
  <2> HIDE DEF v
  <2> QED  BY <1>2, PagesCut DEF Listed
<1>4. IsView(v)
  <2> HIDE DEF v
  <2> QED  BY <1>1, <1>2, <1>3 DEF IsView
<1> QED  BY <1>3, <1>4

\* The filters of the code, of AWS and of the property say the same.
LEMMA MatchesIsSelected ==
    ASSUME scenario \in Scenarios, NEW k, NEW pages, NEW down, NEW r \in Resources
    PROVE  Matches(View(k, pages, down), r) <=> Selected(r, accounts[k].filters)
<1>1. \A t \in scenario.tags[r] : t = [key |-> t.key, value |-> t.value]
  BY ScenariosAssumption
<1>2. ASSUME NEW f
      PROVE  (\E t \in scenario.tags[r] : t.key = f.key /\ t.value \in f.values)
                 <=> \E value \in f.values : [key |-> f.key, value |-> value] \in scenario.tags[r]
  <2>1. ASSUME NEW t \in scenario.tags[r], t.key = f.key, t.value \in f.values
        PROVE  \E value \in f.values : [key |-> f.key, value |-> value] \in scenario.tags[r]
    <3>1. [key |-> f.key, value |-> t.value] \in scenario.tags[r]
      BY <1>1, <2>1
    <3> QED  BY <2>1, <3>1
  <2>2. ASSUME NEW value \in f.values, [key |-> f.key, value |-> value] \in scenario.tags[r]
        PROVE  \E t \in scenario.tags[r] : t.key = f.key /\ t.value \in f.values
    BY <2>2
  <2> QED  BY <2>1, <2>2
<1> DEFINE v == View(k, pages, down)
<1>3. v.tags = scenario.tags /\ v.filters = accounts[k].filters
  BY DEF View
<1>4. Matches(v, r) <=> Selected(r, accounts[k].filters)
  <2> HIDE DEF v
  <2> QED  BY <1>2, <1>3 DEF Matches, MatchesTagFilter, Selected
<1> QED  BY <1>4

\* Honest targets of discoverable resources are sound.
LEMMA HonestIsSound ==
    ASSUME Shaped, NEW k \in AccountKeys, NEW pages \in Pages(Here(k)), NEW down,
           NEW R, R \subseteq Matching(View(k, pages, down)), \A r \in R : Discoverable(r),
           NEW S, S \subseteq Promised[scenario.kind].shows \cup ClaimsOf(View(k, pages, down)),
           NEW t \in Honest(View(k, pages, down), R, S)
    PROVE  Sound(k, ClaimsOf(View(k, pages, down)), t)
<1> DEFINE v == View(k, pages, down)
<1>1. t.of \in R /\ t.by = v.access /\ t.shows \subseteq S
  BY DEF Honest
<1>2. t.of \in Here(k) /\ Matches(v, t.of)
  BY <1>1, ViewIsView DEF Matching
<1>3. Selected(t.of, accounts[k].filters)
  BY <1>2, MatchesIsSelected DEF Here, Shaped
<1> HIDE DEF v
<1>4. v.access = [account |-> accounts[k].account, region |-> accounts[k].region, role |-> accounts[k].role]
  BY DEF v, View
<1> QED  BY <1>1, <1>2, <1>3, <1>4 DEF Sound, v

\* Whatever fails, a supplier reports sound targets of its access.
LEMMA SuppliersAreSound ==
    ASSUME Shaped, scenario.kind \notin {"zone", "template"},
           NEW k \in AccountKeys, NEW pages \in Pages(Here(k)), NEW down,
           NEW t \in AllTargets(View(k, pages, down)).targets
    PROVE  Sound(k, ClaimsOf(View(k, pages, down)), t)
<1> DEFINE v == View(k, pages, down)
<1>v. IsView(v)
  BY ViewIsView
<1>w. v.all = scenario.all /\ v.tags = scenario.tags /\ v.form = scenario.form /\ v.live = scenario.live
  BY DEF View
<1>1. CASE scenario.kind = "instance"
  <2>1. AllTargets(v) = AllEc2Instances(v)
    BY <1>1 DEF AllTargets
  <2>2. {"labels", "zone", "vpc"} \subseteq Promised[scenario.kind].shows \cup ClaimsOf(v)
    BY <1>1 DEF Promised
  <2>3. \A r \in Matching(v) : Discoverable(r)
    <3> HIDE DEF v
    <3> QED  BY <1>1, <1>w DEF Discoverable, IgnoreEcs, DiscoveryDisabled, Matching
  <2>4. t \in Honest(v, Matching(v), {"labels", "zone", "vpc"})
    BY <2>1, <1>v, NetworkTargetsHonest
  <2> QED  BY <2>2, <2>3, <2>4, HonestIsSound
<1>2. CASE scenario.kind = "subnet"
  <2>1. AllTargets(v) = AllSubnets(v)
    BY <1>2 DEF AllTargets
  <2>2. {"labels", "vpc"} \subseteq Promised[scenario.kind].shows \cup ClaimsOf(v)
    BY <1>2 DEF Promised
  <2>3. \A r \in Matching(v) : Discoverable(r)
    <3> HIDE DEF v
    <3> QED  BY <1>2, <1>w DEF Discoverable, IgnoreEcs, DiscoveryDisabled, Matching
  <2>4. t \in Honest(v, Matching(v), {"labels", "vpc"})
    BY <2>1, <1>v, NetworkTargetsHonest
  <2> QED  BY <2>2, <2>3, <2>4, HonestIsSound
<1>3. CASE scenario.kind = "ebs"
  <2>1. AllTargets(v) = AllEbsVolumes(v)
    BY <1>3 DEF AllTargets
  <2>2. {"labels", "snapshot"} \subseteq Promised[scenario.kind].shows \cup ClaimsOf(v)
    BY <1>3 DEF Promised
  <2>3. \A r \in Matching(v) : Discoverable(r)
    <3> HIDE DEF v
    <3> QED  BY <1>3, <1>w DEF Discoverable, IgnoreEcs, DiscoveryDisabled, Matching
  <2>4. t \in Honest(v, Matching(v), {"labels", "snapshot"})
    BY <2>1, <1>v, NetworkTargetsHonest
  <2> QED  BY <2>2, <2>3, <2>4, HonestIsSound
<1>4. CASE scenario.kind = "nat"
  <2>1. AllTargets(v) = AllNatGateways(v)
    BY <1>4 DEF AllTargets
  <2>2. {"labels", "zone"} \subseteq Promised[scenario.kind].shows \cup ClaimsOf(v)
    BY <1>4 DEF Promised
  <2>3. \A r \in {r \in Matching(v) : v.live[r]} : Discoverable(r)
    <3> HIDE DEF v
    <3> QED  BY <1>4, <1>w DEF Discoverable, IgnoreEcs, DiscoveryDisabled, Matching
  <2>4. t \in Honest(v, {r \in Matching(v) : v.live[r]}, {"labels", "zone"})
    BY <2>1, <1>v, NetworkTargetsHonest
  <2> QED  BY <2>2, <2>3, <2>4, HonestIsSound
<1>5. CASE scenario.kind = "alb"
  <2>1. AllTargets(v) = AllAlbs(v)
    BY <1>5 DEF AllTargets
  <2>2. {"labels", "listeners", "zone", "vpc"} \subseteq Promised[scenario.kind].shows \cup ClaimsOf(v)
    BY <1>5 DEF Promised
  <2>3. \A r \in {r \in Matching(v) : v.form[r] = "application"} : Discoverable(r)
    <3> HIDE DEF v
    <3> QED  BY <1>5, <1>w DEF Discoverable, IgnoreEcs, DiscoveryDisabled, Matching
  <2>4. t \in Honest(v, {r \in Matching(v) : v.form[r] = "application"}, {"labels", "listeners", "zone", "vpc"})
    BY <2>1, <1>v, NetworkTargetsHonest
  <2> QED  BY <2>2, <2>3, <2>4, HonestIsSound
<1>6. CASE scenario.kind = "nlb"
  <2>1. AllTargets(v) = AllNlbs(v)
    BY <1>6 DEF AllTargets
  <2>2. {"labels", "listeners", "zone", "vpc"} \subseteq Promised[scenario.kind].shows \cup ClaimsOf(v)
    BY <1>6 DEF Promised
  <2>3. \A r \in {r \in Matching(v) : v.form[r] = "network"} : Discoverable(r)
    <3> HIDE DEF v
    <3> QED  BY <1>6, <1>w DEF Discoverable, IgnoreEcs, DiscoveryDisabled, Matching
  <2>4. t \in Honest(v, {r \in Matching(v) : v.form[r] = "network"}, {"labels", "listeners", "zone", "vpc"})
    BY <2>1, <1>v, NetworkTargetsHonest
  <2> QED  BY <2>2, <2>3, <2>4, HonestIsSound
<1>7. CASE scenario.kind = "stage"
  <2>1. AllTargets(v) = AllStages(v)
    BY <1>7 DEF AllTargets
  <2>2. {"labels"} \subseteq Promised[scenario.kind].shows \cup ClaimsOf(v)
    BY <1>7 DEF Promised
  <2>3. \A r \in Matching(v) : Discoverable(r)
    <3> HIDE DEF v
    <3> QED  BY <1>7, <1>w DEF Discoverable, IgnoreEcs, DiscoveryDisabled, Matching
  <2>4. t \in Honest(v, Matching(v), {"labels"})
    BY <2>1, <1>v, NetworkTargetsHonest
  <2> QED  BY <2>2, <2>3, <2>4, HonestIsSound
<1>8. CASE scenario.kind = "asg"
  <2>1. AllTargets(v) = AllAsgs(v)
    BY <1>8 DEF AllTargets
  <2>2. {"labels"} \subseteq Promised[scenario.kind].shows \cup ClaimsOf(v)
    BY <1>8 DEF Promised
  <2>3. \A r \in Matching(v) : Discoverable(r)
    <3> HIDE DEF v
    <3> QED  BY <1>8, <1>w DEF Discoverable, IgnoreEcs, DiscoveryDisabled, Matching
  <2>4. t \in Honest(v, Matching(v), {"labels"})
    BY <2>1, <1>v, ComputeTargetsHonest
  <2> QED  BY <2>2, <2>3, <2>4, HonestIsSound
<1>9. CASE scenario.kind = "eks"
  <2>1. AllTargets(v) = AllEksClusters(v)
    BY <1>9 DEF AllTargets
  <2>2. {"labels"} \subseteq Promised[scenario.kind].shows \cup ClaimsOf(v)
    BY <1>9 DEF Promised
  <2>3. \A r \in Matching(v) : Discoverable(r)
    <3> HIDE DEF v
    <3> QED  BY <1>9, <1>w DEF Discoverable, IgnoreEcs, DiscoveryDisabled, Matching
  <2>4. t \in Honest(v, Matching(v), {"labels"})
    BY <2>1, <1>v, ComputeTargetsHonest
  <2> QED  BY <2>2, <2>3, <2>4, HonestIsSound
<1>10. CASE scenario.kind = "nodegroup"
  <2>1. AllTargets(v) = AllEksNodegroups(v)
    BY <1>10 DEF AllTargets
  <2>2. {"labels"} \subseteq Promised[scenario.kind].shows \cup ClaimsOf(v)
    BY <1>10 DEF Promised
  <2>3. \A r \in Matching(v) : Discoverable(r)
    <3> HIDE DEF v
    <3> QED  BY <1>10, <1>w DEF Discoverable, IgnoreEcs, DiscoveryDisabled, Matching
  <2>4. t \in Honest(v, Matching(v), {"labels"})
    BY <2>1, <1>v, ComputeTargetsHonest
  <2> QED  BY <2>2, <2>3, <2>4, HonestIsSound
<1>11. CASE scenario.kind = "lambda"
  <2>1. AllTargets(v) = AllLambdaFunctions(v)
    BY <1>11 DEF AllTargets
  <2>2. {"labels", "vpc"} \subseteq Promised[scenario.kind].shows \cup ClaimsOf(v)
    BY <1>11 DEF Promised
  <2>3. \A r \in Matching(v) : Discoverable(r)
    <3> HIDE DEF v
    <3> QED  BY <1>11, <1>w DEF Discoverable, IgnoreEcs, DiscoveryDisabled, Matching
  <2>4. t \in Honest(v, Matching(v), {"labels", "vpc"})
    BY <2>1, <1>v, ComputeTargetsHonest
  <2> QED  BY <2>2, <2>3, <2>4, HonestIsSound
<1>12. CASE scenario.kind = "service"
  <2>1. AllTargets(v) = AllEcsServices(v)
    BY <1>12 DEF AllTargets
  <2>2. {"labels"} \subseteq Promised[scenario.kind].shows \cup ClaimsOf(v)
    BY <1>12 DEF Promised
  <2>3. \A r \in {r \in Matching(v) : ~IgnoreEcs(v, r)} : Discoverable(r)
    <3> HIDE DEF v
    <3> QED  BY <1>12, <1>w DEF Discoverable, IgnoreEcs, DiscoveryDisabled, Matching
  <2>4. t \in Honest(v, {r \in Matching(v) : ~IgnoreEcs(v, r)}, {"labels"})
    BY <2>1, <1>v, ComputeTargetsHonest
  <2> QED  BY <2>2, <2>3, <2>4, HonestIsSound
<1>13. CASE scenario.kind = "task"
  <2>1. AllTargets(v) = AllEcsTasks(v)
    BY <1>13 DEF AllTargets
  <2>2. {"labels", "zone"} \subseteq Promised[scenario.kind].shows \cup ClaimsOf(v)
    BY <1>13 DEF Promised
  <2>3. \A r \in {r \in Matching(v) : v.live[r] /\ ~IgnoreEcs(v, r)} : Discoverable(r)
    <3> HIDE DEF v
    <3> QED  BY <1>13, <1>w DEF Discoverable, IgnoreEcs, DiscoveryDisabled, Matching
  <2>4. t \in Honest(v, {r \in Matching(v) : v.live[r] /\ ~IgnoreEcs(v, r)}, {"labels", "zone"})
    BY <2>1, <1>v, ComputeTargetsHonest
  <2> QED  BY <2>2, <2>3, <2>4, HonestIsSound
<1>14. CASE scenario.kind = "table"
  <2>1. AllTargets(v) = AllTables(v)
    BY <1>14 DEF AllTargets
  <2>2. {"labels", "backups", "scaling"} \cup ClaimsOf(v) \subseteq Promised[scenario.kind].shows \cup ClaimsOf(v)
    BY <1>14 DEF Promised
  <2>3. \A r \in Matching(v) : Discoverable(r)
    <3> HIDE DEF v
    <3> QED  BY <1>14, <1>w DEF Discoverable, IgnoreEcs, DiscoveryDisabled, Matching
  <2>4. t \in Honest(v, Matching(v), {"labels", "backups", "scaling"} \cup ClaimsOf(v))
    BY <2>1, <1>v, DataTargetsHonest
  <2> QED  BY <2>2, <2>3, <2>4, HonestIsSound
<1>15. CASE scenario.kind = "rds"
  <2>1. AllTargets(v) = AllRdsInstances(v)
    BY <1>15 DEF AllTargets
  <2>2. {"labels", "zone", "vpc"} \subseteq Promised[scenario.kind].shows \cup ClaimsOf(v)
    BY <1>15 DEF Promised
  <2>3. \A r \in Matching(v) : Discoverable(r)
    <3> HIDE DEF v
    <3> QED  BY <1>15, <1>w DEF Discoverable, IgnoreEcs, DiscoveryDisabled, Matching
  <2>4. t \in Honest(v, Matching(v), {"labels", "zone", "vpc"})
    BY <2>1, <1>v, DataTargetsHonest
  <2> QED  BY <2>2, <2>3, <2>4, HonestIsSound
<1>16. CASE scenario.kind = "rdscluster"
  <2>1. AllTargets(v) = AllRdsClusters(v)
    BY <1>16 DEF AllTargets
  <2>2. {"labels"} \subseteq Promised[scenario.kind].shows \cup ClaimsOf(v)
    BY <1>16 DEF Promised
  <2>3. \A r \in Matching(v) : Discoverable(r)
    <3> HIDE DEF v
    <3> QED  BY <1>16, <1>w DEF Discoverable, IgnoreEcs, DiscoveryDisabled, Matching
  <2>4. t \in Honest(v, Matching(v), {"labels"})
    BY <2>1, <1>v, DataTargetsHonest
  <2> QED  BY <2>2, <2>3, <2>4, HonestIsSound
<1>17. CASE scenario.kind = "elasticache"
  <2>1. AllTargets(v) = AllElasticacheReplicationGroups(v)
    BY <1>17 DEF AllTargets
  <2>2. {"labels"} \subseteq Promised[scenario.kind].shows \cup ClaimsOf(v)
    BY <1>17 DEF Promised
  <2>3. \A r \in Matching(v) : Discoverable(r)
    <3> HIDE DEF v
    <3> QED  BY <1>17, <1>w DEF Discoverable, IgnoreEcs, DiscoveryDisabled, Matching
  <2>4. t \in Honest(v, Matching(v), {"labels"})
    BY <2>1, <1>v, DataTargetsHonest
  <2> QED  BY <2>2, <2>3, <2>4, HonestIsSound
<1>18. CASE scenario.kind = "msk"
  <2>1. AllTargets(v) = AllMskClusters(v)
    BY <1>18 DEF AllTargets
  <2>2. {"labels"} \subseteq Promised[scenario.kind].shows \cup ClaimsOf(v)
    BY <1>18 DEF Promised
  <2>3. \A r \in {r \in Matching(v) : v.live[r]} : Discoverable(r)
    <3> HIDE DEF v
    <3> QED  BY <1>18, <1>w DEF Discoverable, IgnoreEcs, DiscoveryDisabled, Matching
  <2>4. t \in Honest(v, {r \in Matching(v) : v.live[r]}, {"labels"})
    BY <2>1, <1>v, DataTargetsHonest
  <2> QED  BY <2>2, <2>3, <2>4, HonestIsSound
<1>19. CASE scenario.kind = "mq"
  <2>1. AllTargets(v) = AllBrokers(v)
    BY <1>19 DEF AllTargets
  <2>2. {"labels"} \subseteq Promised[scenario.kind].shows \cup ClaimsOf(v)
    BY <1>19 DEF Promised
  <2>3. \A r \in Matching(v) : Discoverable(r)
    <3> HIDE DEF v
    <3> QED  BY <1>19, <1>w DEF Discoverable, IgnoreEcs, DiscoveryDisabled, Matching
  <2>4. t \in Honest(v, Matching(v), {"labels"})
    BY <2>1, <1>v, DataTargetsHonest
  <2> QED  BY <2>2, <2>3, <2>4, HonestIsSound
<1>20. CASE scenario.kind = "queue"
  <2>1. AllTargets(v) = AllQueues(v)
    BY <1>20 DEF AllTargets
  <2>2. {"labels"} \subseteq Promised[scenario.kind].shows \cup ClaimsOf(v)
    BY <1>20 DEF Promised
  <2>3. \A r \in Matching(v) : Discoverable(r)
    <3> HIDE DEF v
    <3> QED  BY <1>20, <1>w DEF Discoverable, IgnoreEcs, DiscoveryDisabled, Matching
  <2>4. t \in Honest(v, Matching(v), {"labels"})
    BY <2>1, <1>v, DataTargetsHonest
  <2> QED  BY <2>2, <2>3, <2>4, HonestIsSound
<1>21. CASE scenario.kind = "rule"
  <2>1. AllTargets(v) = AllRules(v)
    BY <1>21 DEF AllTargets
  <2>2. {"labels", "targets"} \cup ClaimsOf(v) \subseteq Promised[scenario.kind].shows \cup ClaimsOf(v)
    BY <1>21 DEF Promised
  <2>3. \A r \in Matching(v) : Discoverable(r)
    <3> HIDE DEF v
    <3> QED  BY <1>21, <1>w DEF Discoverable, IgnoreEcs, DiscoveryDisabled, Matching
  <2>4. t \in Honest(v, Matching(v), {"labels", "targets"} \cup ClaimsOf(v))
    BY <2>1, <1>v, DataTargetsHonest
  <2> QED  BY <2>2, <2>3, <2>4, HonestIsSound
<1> QED  BY <1>1, <1>2, <1>3, <1>4, <1>5, <1>6, <1>7, <1>8, <1>9, <1>10, <1>11, <1>12, <1>13, <1>14,
         <1>15, <1>16, <1>17, <1>18, <1>19, <1>20, <1>21,
            KindsKnown, ScenariosAssumption DEF DiscoveryKinds, Shaped

\* So do the suppliers of zones and of templates, which make their calls apart.
LEMMA OthersAreSound ==
    ASSUME Shaped, NEW k \in AccountKeys
    PROVE  /\ scenario.kind = "zone" =>
                \A t \in AllAvailabilityZones(View(k, <<Here(k)>>, {})).targets : Sound(k, {}, t)
           /\ scenario.kind = "template" =>
                \A t \in FisTemplatesOf(View(k, <<Here(k)>>, {})).targets : Sound(k, {}, t)
<1> DEFINE v == View(k, <<Here(k)>>, {})
<1>1. <<Here(k)>> \in Pages(Here(k))
  BY DEF Pages
<1>2. IsView(v) /\ ClaimsOf(v) = {}
  <2>0. v.down = {}
    BY DEF View
  <2>1. IsView(v) /\ v.down = {}
    BY <1>1, <2>0, ViewIsView
  <2> HIDE DEF v
  <2> QED  BY <2>1 DEF ClaimsOf
<1>3. ASSUME scenario.kind = "zone", NEW t \in AllAvailabilityZones(v).targets
      PROVE  Sound(k, {}, t)
  <2>1. \A r \in Matching(v) : Discoverable(r)
    BY <1>3 DEF Discoverable
  <2>2. t \in Honest(v, Matching(v), {})
    BY <1>2, <1>3, NetworkTargetsHonest
  <2> HIDE DEF v
  <2> QED  BY <1>1, <1>2, <2>1, <2>2, HonestIsSound DEF v
<1>4. ASSUME scenario.kind = "template", NEW t \in FisTemplatesOf(v).targets
      PROVE  Sound(k, {}, t)
  <2>1. \A r \in Matching(v) : Discoverable(r)
    BY <1>4 DEF Discoverable
  <2>2. t \in Honest(v, Matching(v), {"labels"})
    BY <1>2, <1>4, DataTargetsHonest
  <2>3. {"labels"} \subseteq Promised[scenario.kind].shows \cup ClaimsOf(v)
    BY <1>4 DEF Promised
  <2> HIDE DEF v
  <2> QED  BY <1>1, <1>2, <2>1, <2>2, <2>3, HonestIsSound DEF v
<1> QED  BY <1>3, <1>4

\* A target that is owed is one of its access, of a resource that is selected.
LEMMA OwedIsTarget ==
    ASSUME Shaped, NEW k \in AccountKeys, NEW pages \in Pages(Here(k)), NEW down,
           NEW R, \A q \in Matching(View(k, pages, down)) : Discoverable(q) => q \in R,
           NEW T, \A r \in R : Target(View(k, pages, down), r, ShownBy(k)) \in T
    PROVE  Owed(k) \subseteq T
<1> DEFINE v == View(k, pages, down)
<1>1. ASSUME NEW r \in Here(k), Discoverable(r), Selected(r, accounts[k].filters)
      PROVE  [of |-> r, shows |-> ShownBy(k),
              by |-> [account |-> k[1], region |-> k[2], role |-> k[3]]] \in T
  <2>1. r \in Resources /\ r \in Listed(v)
    BY ViewIsView DEF Here
  <2>2. r \in Matching(v)
    BY <1>1, <2>1, MatchesIsSelected DEF Matching, Shaped
  <2>3. Target(v, r, ShownBy(k)) \in T
    BY <1>1, <2>2
  <2>4. v.access = [account |-> accounts[k].account, region |-> accounts[k].region,
                    role |-> accounts[k].role]
    BY DEF View
  <2>5. k = <<accounts[k].account, accounts[k].region, accounts[k].role>>
    BY KeysAreConfigured DEF Shaped
  <2>6. k[1] = accounts[k].account /\ k[2] = accounts[k].region /\ k[3] = accounts[k].role
    BY <2>5
  <2> HIDE DEF v
  <2>7. Target(v, r, ShownBy(k)) = [of |-> r, shows |-> ShownBy(k),
                                    by |-> [account |-> k[1], region |-> k[2], role |-> k[3]]]
    BY <2>4, <2>6 DEF Target
  <2> QED  BY <2>3, <2>7
<1> QED  BY <1>1 DEF Owed

\* If no call fails and the cache is filled, a supplier reports all that is owed.
LEMMA SuppliersAreComplete ==
    ASSUME Shaped, scenario.kind \notin {"zone", "template"}, ~CutShort,
           NEW k \in AccountKeys, NEW pages \in Pages(Here(k)),
           "zone" \in cache[Place(accounts[k])],
           scenario.vpcDisabled => "vpc" \notin cache[Place(accounts[k])],
           ~scenario.vpcDisabled => "vpc" \in cache[Place(accounts[k])]
    PROVE  Owed(k) \subseteq AllTargets(View(k, pages, {})).targets
<1> DEFINE v == View(k, pages, {})
<1>v. IsView(v) /\ Listed(v) = Here(k)
  BY ViewIsView
<1>w. /\ v.all = scenario.all /\ v.tags = scenario.tags /\ v.form = scenario.form
      /\ v.live = scenario.live /\ v.excluded = scenario.excluded /\ v.homeless = scenario.homeless
      /\ v.down = {} /\ v.pages = pages /\ v.cached = cache[Place(accounts[k])]
  BY DEF View
<1>u. Undisturbed(v)
  BY <1>v, <1>w DEF Undisturbed
<1>c. /\ GetZone(v) = {"zone"}
      /\ GetVpcName(v) = {"vpc"} \ (IF scenario.vpcDisabled THEN {"vpc"} ELSE {})
  <2> HIDE DEF v
  <2> QED  BY <1>w DEF GetZone, GetVpcName
<1>p. scenario.kind \in {"lambda", "elasticache", "service", "task"} => OnePage(v)
  <2>1. scenario.kind \in {"lambda", "elasticache", "service", "task"} => pages = <<Here(k)>>
    BY PagesCut DEF CutShort
  <2> HIDE DEF v
  <2> QED  BY <1>w, <2>1 DEF OnePage
<1> DEFINE vpc == IF scenario.vpcDisabled THEN {"vpc"} ELSE {}
<1>1. CASE scenario.kind = "instance"
  <2>1. AllTargets(v) = AllEc2Instances(v)
    BY <1>1 DEF AllTargets
  <2>2. LabelsExcluded <=> "Ec2" \in scenario.excluded
    BY <1>1 DEF LabelsExcluded, Promised, ExcludesNotApplied
  <2> HIDE DEF v
  <2>4. ShownBy(k) = Less(v, "Ec2", {"labels"} \cup GetZone(v) \cup GetVpcName(v))
    BY <1>1, <1>w, <1>c, <2>2 DEF ShownBy, Promised, Less
  <2>5. \A q \in Matching(v) : Discoverable(q) => q \in Matching(v)
    BY <1>1, <1>w DEF Discoverable, IgnoreEcs, DiscoveryDisabled
  <2>6. \A q \in Matching(v) : Target(v, q, ShownBy(k)) \in AllEc2Instances(v).targets
    BY <1>u, <2>4, NetworkTargetsComplete
  <2> QED  BY <2>1, <2>5, <2>6, OwedIsTarget DEF v
<1>2. CASE scenario.kind = "subnet"
  <2>1. AllTargets(v) = AllSubnets(v)
    BY <1>2 DEF AllTargets
  <2>2. LabelsExcluded <=> "Subnet" \in scenario.excluded
    BY <1>2 DEF LabelsExcluded, Promised, ExcludesNotApplied
  <2> HIDE DEF v
  <2>4. ShownBy(k) = Less(v, "Subnet", {"labels"} \cup GetVpcName(v))
    BY <1>2, <1>w, <1>c, <2>2 DEF ShownBy, Promised, Less
  <2>5. \A q \in Matching(v) : Discoverable(q) => q \in Matching(v)
    BY <1>2, <1>w DEF Discoverable, IgnoreEcs, DiscoveryDisabled
  <2>6. \A q \in Matching(v) : Target(v, q, ShownBy(k)) \in AllSubnets(v).targets
    BY <1>u, <2>4, NetworkTargetsComplete
  <2> QED  BY <2>1, <2>5, <2>6, OwedIsTarget DEF v
<1>3. CASE scenario.kind = "ebs"
  <2>1. AllTargets(v) = AllEbsVolumes(v)
    BY <1>3 DEF AllTargets
  <2>2. LabelsExcluded <=> "Ebs" \in scenario.excluded
    BY <1>3 DEF LabelsExcluded, Promised, ExcludesNotApplied
  <2> HIDE DEF v
  <2>4. ShownBy(k) = Less(v, "Ebs", {"labels", "snapshot"})
    BY <1>3, <1>w, <1>c, <2>2 DEF ShownBy, Promised, Less
  <2>5. \A q \in Matching(v) : Discoverable(q) => q \in Matching(v)
    BY <1>3, <1>w DEF Discoverable, IgnoreEcs, DiscoveryDisabled
  <2>6. \A q \in Matching(v) : Target(v, q, ShownBy(k)) \in AllEbsVolumes(v).targets
    BY <1>u, <2>4, NetworkTargetsComplete
  <2> QED  BY <2>1, <2>5, <2>6, OwedIsTarget DEF v
<1>4. CASE scenario.kind = "nat"
  <2>1. AllTargets(v) = AllNatGateways(v)
    BY <1>4 DEF AllTargets
  <2>2. LabelsExcluded <=> "NatGateway" \in scenario.excluded
    BY <1>4 DEF LabelsExcluded, Promised, ExcludesNotApplied
  <2> HIDE DEF v
  <2>3. SubnetAz(v) = {"zone"} \ (IF Here(k) \cap scenario.homeless # {} THEN {"zone"} ELSE {})
    BY <1>v, <1>w DEF SubnetAz, Fine
  <2>4. ShownBy(k) = Less(v, "NatGateway", {"labels"} \cup SubnetAz(v))
    BY <1>4, <1>w, <1>c, <2>2, <2>3 DEF ShownBy, Promised, Less
  <2>5. \A q \in Matching(v) : Discoverable(q) => q \in {p \in Matching(v) : v.live[p]}
    BY <1>4, <1>w DEF Discoverable, IgnoreEcs, DiscoveryDisabled
  <2>6. \A q \in {p \in Matching(v) : v.live[p]} : Target(v, q, ShownBy(k)) \in AllNatGateways(v).targets
    BY <1>u, <2>4, NetworkTargetsComplete
  <2> QED  BY <2>1, <2>5, <2>6, OwedIsTarget DEF v
<1>5. CASE scenario.kind = "alb"
  <2>1. AllTargets(v) = AllAlbs(v)
    BY <1>5 DEF AllTargets
  <2>2. LabelsExcluded <=> "Ecs" \in scenario.excluded
    BY <1>5 DEF LabelsExcluded, Promised, ExcludesNotApplied
  <2> HIDE DEF v
  <2>4. ShownBy(k) = Less(v, "Ecs", {"labels", "listeners"} \cup GetZone(v) \cup GetVpcName(v))
    BY <1>5, <1>w, <1>c, <2>2 DEF ShownBy, Promised, Less
  <2>5. \A q \in Matching(v) : Discoverable(q) => q \in {p \in Matching(v) : v.form[p] = "application"}
    BY <1>5, <1>w DEF Discoverable, IgnoreEcs, DiscoveryDisabled
  <2>6. \A q \in {p \in Matching(v) : v.form[p] = "application"} : Target(v, q, ShownBy(k)) \in AllAlbs(v).targets
    BY <1>u, <2>4, NetworkTargetsComplete
  <2> QED  BY <2>1, <2>5, <2>6, OwedIsTarget DEF v
<1>6. CASE scenario.kind = "nlb"
  <2>1. AllTargets(v) = AllNlbs(v)
    BY <1>6 DEF AllTargets
  <2>2. LabelsExcluded <=> "Elb" \in scenario.excluded
    BY <1>6 DEF LabelsExcluded, Promised, ExcludesNotApplied
  <2> HIDE DEF v
  <2>4. ShownBy(k) = Less(v, "Elb", {"labels", "listeners"} \cup GetZone(v) \cup GetVpcName(v))
    BY <1>6, <1>w, <1>c, <2>2 DEF ShownBy, Promised, Less
  <2>5. \A q \in Matching(v) : Discoverable(q) => q \in {p \in Matching(v) : v.form[p] = "network"}
    BY <1>6, <1>w DEF Discoverable, IgnoreEcs, DiscoveryDisabled
  <2>6. \A q \in {p \in Matching(v) : v.form[p] = "network"} : Target(v, q, ShownBy(k)) \in AllNlbs(v).targets
    BY <1>u, <2>4, NetworkTargetsComplete
  <2> QED  BY <2>1, <2>5, <2>6, OwedIsTarget DEF v
<1>7. CASE scenario.kind = "stage"
  <2>1. AllTargets(v) = AllStages(v)
    BY <1>7 DEF AllTargets
  <2>2. LabelsExcluded <=> "Apigateway" \in scenario.excluded
    BY <1>7 DEF LabelsExcluded, Promised, ExcludesNotApplied
  <2> HIDE DEF v
  <2>4. ShownBy(k) = Less(v, "Apigateway", {"labels"})
    BY <1>7, <1>w, <1>c, <2>2 DEF ShownBy, Promised, Less
  <2>5. \A q \in Matching(v) : Discoverable(q) => q \in Matching(v)
    BY <1>7, <1>w DEF Discoverable, IgnoreEcs, DiscoveryDisabled
  <2>6. \A q \in Matching(v) : Target(v, q, ShownBy(k)) \in AllStages(v).targets
    <3>1. \A q \in Matching(v) : v.form[q] \in {"rest", "http"}
      BY <1>7, <1>v, <1>w, ScenariosAssumption DEF Matching, Here, Shaped
    <3> QED  BY <1>u, <2>4, <3>1, StagesComplete
  <2> QED  BY <2>1, <2>5, <2>6, OwedIsTarget DEF v
<1>8. CASE scenario.kind = "asg"
  <2>1. AllTargets(v) = AllAsgs(v)
    BY <1>8 DEF AllTargets
  <2>2. LabelsExcluded <=> FALSE
    BY <1>8 DEF LabelsExcluded, Promised, ExcludesNotApplied
  <2> HIDE DEF v
  <2>4. ShownBy(k) = {"labels"}
    BY <1>8, <1>w, <1>c, <2>2 DEF ShownBy, Promised, Less
  <2>5. \A q \in Matching(v) : Discoverable(q) => q \in Matching(v)
    BY <1>8, <1>w DEF Discoverable, IgnoreEcs, DiscoveryDisabled
  <2>6. \A q \in Matching(v) : Target(v, q, ShownBy(k)) \in AllAsgs(v).targets
    BY <1>u, <2>4, ComputeTargetsComplete
  <2> QED  BY <2>1, <2>5, <2>6, OwedIsTarget DEF v
<1>9. CASE scenario.kind = "eks"
  <2>1. AllTargets(v) = AllEksClusters(v)
    BY <1>9 DEF AllTargets
  <2>2. LabelsExcluded <=> FALSE
    BY <1>9 DEF LabelsExcluded, Promised, ExcludesNotApplied
  <2> HIDE DEF v
  <2>4. ShownBy(k) = {"labels"}
    BY <1>9, <1>w, <1>c, <2>2 DEF ShownBy, Promised, Less
  <2>5. \A q \in Matching(v) : Discoverable(q) => q \in Matching(v)
    BY <1>9, <1>w DEF Discoverable, IgnoreEcs, DiscoveryDisabled
  <2>6. \A q \in Matching(v) : Target(v, q, ShownBy(k)) \in AllEksClusters(v).targets
    BY <1>u, <2>4, ComputeTargetsComplete
  <2> QED  BY <2>1, <2>5, <2>6, OwedIsTarget DEF v
<1>10. CASE scenario.kind = "nodegroup"
  <2>1. AllTargets(v) = AllEksNodegroups(v)
    BY <1>10 DEF AllTargets
  <2>2. LabelsExcluded <=> FALSE
    BY <1>10 DEF LabelsExcluded, Promised, ExcludesNotApplied
  <2> HIDE DEF v
  <2>4. ShownBy(k) = {"labels"}
    BY <1>10, <1>w, <1>c, <2>2 DEF ShownBy, Promised, Less
  <2>5. \A q \in Matching(v) : Discoverable(q) => q \in Matching(v)
    BY <1>10, <1>w DEF Discoverable, IgnoreEcs, DiscoveryDisabled
  <2>6. \A q \in Matching(v) : Target(v, q, ShownBy(k)) \in AllEksNodegroups(v).targets
    BY <1>u, <2>4, ComputeTargetsComplete
  <2> QED  BY <2>1, <2>5, <2>6, OwedIsTarget DEF v
<1>11. CASE scenario.kind = "lambda"
  <2>1. AllTargets(v) = AllLambdaFunctions(v)
    BY <1>11 DEF AllTargets
  <2>2. LabelsExcluded <=> "Lambda" \in scenario.excluded
    BY <1>11 DEF LabelsExcluded, Promised, ExcludesNotApplied
  <2> HIDE DEF v
  <2>4. ShownBy(k) = Less(v, "Lambda", {"labels"} \cup GetVpcName(v))
    BY <1>11, <1>w, <1>c, <2>2 DEF ShownBy, Promised, Less
  <2>5. \A q \in Matching(v) : Discoverable(q) => q \in Matching(v)
    BY <1>11, <1>w DEF Discoverable, IgnoreEcs, DiscoveryDisabled
  <2>6. \A q \in Matching(v) : Target(v, q, ShownBy(k)) \in AllLambdaFunctions(v).targets
    BY <1>u, <2>4, OnePageComplete, <1>p, <1>11
  <2> QED  BY <2>1, <2>5, <2>6, OwedIsTarget DEF v
<1>12. CASE scenario.kind = "service"
  <2>1. AllTargets(v) = AllEcsServices(v)
    BY <1>12 DEF AllTargets
  <2>2. LabelsExcluded <=> "Ecs" \in scenario.excluded
    BY <1>12 DEF LabelsExcluded, Promised, ExcludesNotApplied
  <2> HIDE DEF v
  <2>4. ShownBy(k) = Less(v, "Ecs", {"labels"})
    BY <1>12, <1>w, <1>c, <2>2 DEF ShownBy, Promised, Less
  <2>5. \A q \in Matching(v) : Discoverable(q) => q \in {p \in Matching(v) : ~IgnoreEcs(v, p)}
    BY <1>12, <1>w DEF Discoverable, IgnoreEcs, DiscoveryDisabled
  <2>6. \A q \in {p \in Matching(v) : ~IgnoreEcs(v, p)} : Target(v, q, ShownBy(k)) \in AllEcsServices(v).targets
    BY <1>u, <2>4, OnePageComplete, <1>p, <1>12
  <2> QED  BY <2>1, <2>5, <2>6, OwedIsTarget DEF v
<1>13. CASE scenario.kind = "task"
  <2>1. AllTargets(v) = AllEcsTasks(v)
    BY <1>13 DEF AllTargets
  <2>2. LabelsExcluded <=> "Ecs" \in scenario.excluded
    BY <1>13 DEF LabelsExcluded, Promised, ExcludesNotApplied
  <2> HIDE DEF v
  <2>4. ShownBy(k) = Less(v, "Ecs", {"labels"} \cup GetZone(v))
    BY <1>13, <1>w, <1>c, <2>2 DEF ShownBy, Promised, Less
  <2>5. \A q \in Matching(v) : Discoverable(q) => q \in {p \in Matching(v) : v.live[p] /\ ~IgnoreEcs(v, p)}
    BY <1>13, <1>w DEF Discoverable, IgnoreEcs, DiscoveryDisabled
  <2>6. \A q \in {p \in Matching(v) : v.live[p] /\ ~IgnoreEcs(v, p)} : Target(v, q, ShownBy(k)) \in AllEcsTasks(v).targets
    BY <1>u, <2>4, OnePageComplete, <1>p, <1>13
  <2> QED  BY <2>1, <2>5, <2>6, OwedIsTarget DEF v
<1>14. CASE scenario.kind = "table"
  <2>1. AllTargets(v) = AllTables(v)
    BY <1>14 DEF AllTargets
  <2>2. LabelsExcluded <=> "Dynamodb" \in scenario.excluded
    BY <1>14 DEF LabelsExcluded, Promised, ExcludesNotApplied
  <2> HIDE DEF v
  <2>4. ShownBy(k) = Less(v, "Dynamodb", {"labels", "backups", "scaling"})
    BY <1>14, <1>w, <1>c, <2>2 DEF ShownBy, Promised, Less
  <2>5. \A q \in Matching(v) : Discoverable(q) => q \in Matching(v)
    BY <1>14, <1>w DEF Discoverable, IgnoreEcs, DiscoveryDisabled
  <2>6. \A q \in Matching(v) : Target(v, q, ShownBy(k)) \in AllTables(v).targets
    BY <1>u, <2>4, DataTargetsComplete
  <2> QED  BY <2>1, <2>5, <2>6, OwedIsTarget DEF v
<1>15. CASE scenario.kind = "rds"
  <2>1. AllTargets(v) = AllRdsInstances(v)
    BY <1>15 DEF AllTargets
  <2>2. LabelsExcluded <=> "Rds" \in scenario.excluded
    BY <1>15 DEF LabelsExcluded, Promised, ExcludesNotApplied
  <2> HIDE DEF v
  <2>4. ShownBy(k) = Less(v, "Rds", {"labels"} \cup GetZone(v) \cup GetVpcName(v))
    BY <1>15, <1>w, <1>c, <2>2 DEF ShownBy, Promised, Less
  <2>5. \A q \in Matching(v) : Discoverable(q) => q \in Matching(v)
    BY <1>15, <1>w DEF Discoverable, IgnoreEcs, DiscoveryDisabled
  <2>6. \A q \in Matching(v) : Target(v, q, ShownBy(k)) \in AllRdsInstances(v).targets
    BY <1>u, <2>4, DataTargetsComplete
  <2> QED  BY <2>1, <2>5, <2>6, OwedIsTarget DEF v
<1>16. CASE scenario.kind = "rdscluster"
  <2>1. AllTargets(v) = AllRdsClusters(v)
    BY <1>16 DEF AllTargets
  <2>2. LabelsExcluded <=> FALSE
    BY <1>16 DEF LabelsExcluded, Promised, ExcludesNotApplied
  <2> HIDE DEF v
  <2>4. ShownBy(k) = {"labels"}
    BY <1>16, <1>w, <1>c, <2>2 DEF ShownBy, Promised, Less
  <2>5. \A q \in Matching(v) : Discoverable(q) => q \in Matching(v)
    BY <1>16, <1>w DEF Discoverable, IgnoreEcs, DiscoveryDisabled
  <2>6. \A q \in Matching(v) : Target(v, q, ShownBy(k)) \in AllRdsClusters(v).targets
    BY <1>u, <2>4, DataTargetsComplete
  <2> QED  BY <2>1, <2>5, <2>6, OwedIsTarget DEF v
<1>17. CASE scenario.kind = "elasticache"
  <2>1. AllTargets(v) = AllElasticacheReplicationGroups(v)
    BY <1>17 DEF AllTargets
  <2>2. LabelsExcluded <=> FALSE
    BY <1>17 DEF LabelsExcluded, Promised, ExcludesNotApplied
  <2> HIDE DEF v
  <2>4. ShownBy(k) = {"labels"}
    BY <1>17, <1>w, <1>c, <2>2 DEF ShownBy, Promised, Less
  <2>5. \A q \in Matching(v) : Discoverable(q) => q \in Matching(v)
    BY <1>17, <1>w DEF Discoverable, IgnoreEcs, DiscoveryDisabled
  <2>6. \A q \in Matching(v) : Target(v, q, ShownBy(k)) \in AllElasticacheReplicationGroups(v).targets
    BY <1>u, <2>4, OnePageComplete, <1>p, <1>17
  <2> QED  BY <2>1, <2>5, <2>6, OwedIsTarget DEF v
<1>18. CASE scenario.kind = "msk"
  <2>1. AllTargets(v) = AllMskClusters(v)
    BY <1>18 DEF AllTargets
  <2>2. LabelsExcluded <=> FALSE
    BY <1>18 DEF LabelsExcluded, Promised, ExcludesNotApplied
  <2> HIDE DEF v
  <2>4. ShownBy(k) = {"labels"}
    BY <1>18, <1>w, <1>c, <2>2 DEF ShownBy, Promised, Less
  <2>5. \A q \in Matching(v) : Discoverable(q) => q \in {p \in Matching(v) : v.live[p]}
    BY <1>18, <1>w DEF Discoverable, IgnoreEcs, DiscoveryDisabled
  <2>6. \A q \in {p \in Matching(v) : v.live[p]} : Target(v, q, ShownBy(k)) \in AllMskClusters(v).targets
    BY <1>u, <2>4, DataTargetsComplete
  <2> QED  BY <2>1, <2>5, <2>6, OwedIsTarget DEF v
<1>19. CASE scenario.kind = "mq"
  <2>1. AllTargets(v) = AllBrokers(v)
    BY <1>19 DEF AllTargets
  <2>2. LabelsExcluded <=> "Mq" \in scenario.excluded
    BY <1>19 DEF LabelsExcluded, Promised, ExcludesNotApplied
  <2> HIDE DEF v
  <2>4. ShownBy(k) = Less(v, "Mq", {"labels"})
    BY <1>19, <1>w, <1>c, <2>2 DEF ShownBy, Promised, Less
  <2>5. \A q \in Matching(v) : Discoverable(q) => q \in Matching(v)
    BY <1>19, <1>w DEF Discoverable, IgnoreEcs, DiscoveryDisabled
  <2>6. \A q \in Matching(v) : Target(v, q, ShownBy(k)) \in AllBrokers(v).targets
    BY <1>u, <2>4, DataTargetsComplete
  <2> QED  BY <2>1, <2>5, <2>6, OwedIsTarget DEF v
<1>20. CASE scenario.kind = "queue"
  <2>1. AllTargets(v) = AllQueues(v)
    BY <1>20 DEF AllTargets
  <2>2. LabelsExcluded <=> "Sqs" \in scenario.excluded
    BY <1>20 DEF LabelsExcluded, Promised, ExcludesNotApplied
  <2> HIDE DEF v
  <2>4. ShownBy(k) = Less(v, "Sqs", {"labels"})
    BY <1>20, <1>w, <1>c, <2>2 DEF ShownBy, Promised, Less
  <2>5. \A q \in Matching(v) : Discoverable(q) => q \in Matching(v)
    BY <1>20, <1>w DEF Discoverable, IgnoreEcs, DiscoveryDisabled
  <2>6. \A q \in Matching(v) : Target(v, q, ShownBy(k)) \in AllQueues(v).targets
    BY <1>u, <2>4, DataTargetsComplete
  <2> QED  BY <2>1, <2>5, <2>6, OwedIsTarget DEF v
<1>21. CASE scenario.kind = "rule"
  <2>1. AllTargets(v) = AllRules(v)
    BY <1>21 DEF AllTargets
  <2>2. LabelsExcluded <=> "Eventbridge" \in scenario.excluded
    BY <1>21 DEF LabelsExcluded, Promised, ExcludesNotApplied
  <2> HIDE DEF v
  <2>4. ShownBy(k) = Less(v, "Eventbridge", {"labels", "targets"})
    BY <1>21, <1>w, <1>c, <2>2 DEF ShownBy, Promised, Less
  <2>5. \A q \in Matching(v) : Discoverable(q) => q \in Matching(v)
    BY <1>21, <1>w DEF Discoverable, IgnoreEcs, DiscoveryDisabled
  <2>6. \A q \in Matching(v) : Target(v, q, ShownBy(k)) \in AllRules(v).targets
    BY <1>u, <2>4, DataTargetsComplete
  <2> QED  BY <2>1, <2>5, <2>6, OwedIsTarget DEF v
<1> QED  BY <1>1, <1>2, <1>3, <1>4, <1>5, <1>6, <1>7, <1>8, <1>9, <1>10, <1>11, <1>12, <1>13, <1>14,
         <1>15, <1>16, <1>17, <1>18, <1>19, <1>20, <1>21,
            KindsKnown, ScenariosAssumption DEF DiscoveryKinds, Shaped

\* So do the suppliers of zones and of templates.
LEMMA OthersAreComplete ==
    ASSUME Shaped, NEW k \in AccountKeys, "zone" \in cache[Place(accounts[k])]
    PROVE  /\ scenario.kind = "zone" =>
                Owed(k) \subseteq AllAvailabilityZones(View(k, <<Here(k)>>, {})).targets
           /\ scenario.kind = "template" =>
                Owed(k) \subseteq FisTemplatesOf(View(k, <<Here(k)>>, {})).targets
<1> DEFINE v == View(k, <<Here(k)>>, {})
<1>1. <<Here(k)>> \in Pages(Here(k))
  BY DEF Pages
<1>2. IsView(v) /\ Listed(v) = Here(k)
  BY <1>1, ViewIsView
<1>3. /\ v.filters = accounts[k].filters /\ v.excluded = scenario.excluded
      /\ v.down = {} /\ v.cached = cache[Place(accounts[k])]
  BY DEF View
<1>4. ASSUME scenario.kind = "zone"
      PROVE  Owed(k) \subseteq AllAvailabilityZones(v).targets
  <2>1. ShownBy(k) = {}
    BY <1>4 DEF ShownBy, Promised
  <2>2. CASE accounts[k].filters = {}
    <3> HIDE DEF v
    <3>1. \A q \in Listed(v) : Target(v, q, ShownBy(k)) \in AllAvailabilityZones(v).targets
      BY <1>3, <2>1, <2>2, ZonesComplete
    <3> QED  BY <1>1, <3>1, OwedIsTarget DEF v, Matching
  <2>3. CASE accounts[k].filters # {}
    BY <1>4, <2>3 DEF Owed
  <2> QED  BY <2>2, <2>3
<1>5. ASSUME scenario.kind = "template"
      PROVE  Owed(k) \subseteq FisTemplatesOf(v).targets
  <2> HIDE DEF v
  <2>1. LabelsExcluded <=> "Fis" \in scenario.excluded
    BY <1>5 DEF LabelsExcluded, Promised, ExcludesNotApplied
  <2>2. ShownBy(k) = Less(v, "Fis", {"labels"})
    BY <1>3, <1>5, <2>1 DEF ShownBy, Promised, Less
  <2>3. \A q \in Matching(v) : Target(v, q, ShownBy(k)) \in FisTemplatesOf(v).targets
    BY <1>2, <1>3, <2>2, DataTargetsComplete DEF Undisturbed
  <2> QED  BY <1>1, <2>3, OwedIsTarget DEF v
<1> QED  BY <1>4, <1>5

-----------------------------------------------------------------------------
(* Discovery: a step of a worker                                           *)

\* A function of job and access.
Table(f, keys) == f = [j \in Jobs |-> [k \in keys |-> f[j][k]]]

\* The worker of job j at access k goes on to s.
Advances(j, k, s) ==
    /\ Table(at', AccountKeys)
    /\ \A i \in Jobs, l \in AccountKeys : at'[i][l] = IF i = j /\ l = k THEN s ELSE at[i][l]

\* It has found T.
Finds(j, k, T) ==
    /\ Table(found', AccountKeys)
    /\ \A i \in Jobs, l \in AccountKeys : found'[i][l] = IF i = j /\ l = k THEN T ELSE found[i][l]

\* What all steps of workers have in common: the step fits the job and the kind,
\* and a result is sound, and complete if no call has failed.
WorkerStep(j, k, s, T) ==
    /\ UNCHANGED <<scenario, stage, accounts, answer, round, running>>
    /\ failures' \in failures .. MaxFailures
    /\ Advances(j, k, s) /\ Finds(j, k, T)
    /\ at[j][k] \notin {"idle", "result"} /\ s \in StepsOf(j) \ {"idle", "queued"}
    /\ at[j][k] = "queued" => j \in running /\ Cardinality(Busy(j)) < scenario.workers
    /\ s # "result" \/ j = "boot" => T = {}
    /\ s = "collect" => scenario.kind \notin {"zone", "template"}
    /\ s \in {"list", "look", "get", "store"} => scenario.kind = "template"
    /\ \A t \in T : Sound(k, FalseClaims', t)
    /\ failures' = 0 /\ ~CutShort /\ j = ReportingJob /\ s = "result" => Owed(k) \subseteq T

\* One worker goes on.
LEMMA OneAdvances ==
    ASSUME Shaped, NEW j \in Jobs, NEW k \in AccountKeys, NEW x, at' = [at EXCEPT ![j][k] = x]
    PROVE  Advances(j, k, x)
<1>1. DOMAIN at = Jobs /\ \A i \in Jobs : DOMAIN at[i] = AccountKeys
  BY DEF Shaped
<1>2. \A i \in Jobs, l \in AccountKeys : at'[i][l] = IF i = j /\ l = k THEN x ELSE at[i][l]
  BY <1>1
<1>3. at' = [i \in Jobs |-> at'[i]]
  BY <1>1
<1>4. ASSUME NEW i \in Jobs PROVE at'[i] = [l \in AccountKeys |-> at'[i][l]]
  <2>1. at[i] = [l \in AccountKeys |-> at[i][l]]
    BY DEF Shaped
  <2>2. CASE i = j
    <3>1. at'[i] = [at[j] EXCEPT ![k] = x]
      BY <1>1, <2>2
    <3> QED  BY <2>1, <2>2, <3>1
  <2>3. CASE i # j
    <3>1. at'[i] = at[i]
      BY <1>1, <2>3
    <3> QED  BY <2>1, <3>1
  <2> QED  BY <2>2, <2>3
<1>5. Table(at', AccountKeys)
  BY <1>3, <1>4 DEF Table
<1> QED  BY <1>2, <1>5 DEF Advances

\* One worker has a result.
LEMMA OneFinds ==
    ASSUME Shaped, NEW j \in Jobs, NEW k \in AccountKeys, NEW x, found' = [found EXCEPT ![j][k] = x]
    PROVE  Finds(j, k, x)
<1>1. DOMAIN found = Jobs /\ \A i \in Jobs : DOMAIN found[i] = AccountKeys
  BY DEF Shaped
<1>2. \A i \in Jobs, l \in AccountKeys : found'[i][l] = IF i = j /\ l = k THEN x ELSE found[i][l]
  BY <1>1
<1>3. found' = [i \in Jobs |-> found'[i]]
  BY <1>1
<1>4. ASSUME NEW i \in Jobs PROVE found'[i] = [l \in AccountKeys |-> found'[i][l]]
  <2>1. found[i] = [l \in AccountKeys |-> found[i][l]]
    BY DEF Shaped
  <2>2. CASE i = j
    <3>1. found'[i] = [found[j] EXCEPT ![k] = x]
      BY <1>1, <2>2
    <3> QED  BY <2>1, <2>2, <3>1
  <2>3. CASE i # j
    <3>1. found'[i] = found[i]
      BY <1>1, <2>3
    <3> QED  BY <2>1, <3>1
  <2> QED  BY <2>2, <2>3
<1>5. Table(found', AccountKeys)
  BY <1>3, <1>4 DEF Table
<1> QED  BY <1>2, <1>5 DEF Finds

\* A worker that only goes on, and one that supplies a result.
LEMMA AdvanceOnly ==
    ASSUME Shaped, NEW j \in Jobs, NEW k \in AccountKeys, NEW s
    PROVE  /\ at' = [at EXCEPT ![j][k] = s] => Advances(j, k, s)
           /\ at' = at /\ at[j][k] = s => Advances(j, k, s)
           /\ found' = found /\ found[j][k] = {} => Finds(j, k, {})
           /\ \A T : Supply(j, k, T) => Advances(j, k, "result") /\ Finds(j, k, T)
<1>1. Table(at, AccountKeys) /\ Table(found, AccountKeys)
  BY DEF Shaped, Table
<1>2. at' = at /\ at[j][k] = s => Advances(j, k, s)
  BY <1>1 DEF Advances
<1>3. found' = found /\ found[j][k] = {} => Finds(j, k, {})
  BY <1>1 DEF Finds
<1>4. ASSUME NEW T, Supply(j, k, T) PROVE Advances(j, k, "result") /\ Finds(j, k, T)
  BY <1>4, OneAdvances, OneFinds DEF Supply
<1> QED  BY <1>2, <1>3, <1>4, OneAdvances

\* A call fails or not.
LEMMA OutcomeCounts ==
    ASSUME failures \in 0 .. MaxFailures, NEW ok \in BOOLEAN, Outcome(ok)
    PROVE  failures' \in failures .. MaxFailures /\ (failures' = 0 => ok /\ failures = 0)
BY ScenariosAssumption DEF Outcome

\* More failures, more claims.
LEMMA ClaimsGrow ==
    ASSUME failures \in 0 .. MaxFailures, failures' \in failures .. MaxFailures,
           NEW k, NEW t, Sound(k, FalseClaims, t)
    PROVE  Sound(k, FalseClaims', t)
<1>1. FalseClaims \subseteq FalseClaims'
  BY ScenariosAssumption DEF FalseClaims
<1> HIDE DEF FalseClaims
<1> QED  BY <1>1 DEF Sound

\* A worker that is not done has found nothing.
LEMMA NothingYet ==
    ASSUME WorkInv, NEW j \in Jobs, NEW k \in AccountKeys, at[j][k] # "result"
    PROVE  found[j][k] = {}
BY DEF WorkInv

\* A worker of the discovery of zones or of the kind works when the cache has
\* been filled.
LEMMA CacheFilled ==
    ASSUME WorkInv, CacheInv, Alive, failures = 0, NEW k \in AccountKeys,
           at["refresh"][k] # "idle" \/ at["collect"][k] # "idle"
    PROVE  /\ "zone" \in cache[Place(accounts[k])]
           /\ scenario.vpcDisabled => "vpc" \notin cache[Place(accounts[k])]
           /\ ~scenario.vpcDisabled => "vpc" \in cache[Place(accounts[k])]
<1>1. at["boot"][k] = "result"
  BY DEF WorkInv, Alive
<1> QED  BY <1>1 DEF CacheInv

\* The steps, one by one.
LEMMA TakeIsWork ==
    ASSUME DiscoveryInv, NEW j \in Jobs, NEW k \in AccountKeys, Take(j, k)
    PROVE  WorkerStep(j, k, FirstStep(j), {})
<1> USE DEF DiscoveryInv
<1>1. FirstStep(j) \in StepsOf(j) \ {"idle", "queued", "result"}
  <2>1. CASE j = "boot"
    BY <2>1 DEF FirstStep, StepsOf
  <2>2. CASE j = "refresh"
    BY <2>2 DEF FirstStep, StepsOf
  <2>3. CASE j = "collect"
    <3>1. StepsOf(j) = {"queued", "result", "idle", "collect", "list", "look", "get", "store"}
      BY <2>3 DEF StepsOf
    <3>2. FirstStep(j) \in {"list", "collect"}
      BY <2>3 DEF FirstStep
    <3> QED  BY <3>1, <3>2
  <2> QED  BY <2>1, <2>2, <2>3 DEF Jobs
<1>2. scenario.kind = "zone" => j # "collect"
  BY DEF Take, WorkInv, Registered
<1>3. /\ FirstStep(j) = "collect" => scenario.kind \notin {"zone", "template"}
      /\ FirstStep(j) \in {"list", "look", "get", "store"} => scenario.kind = "template"
  BY <1>2 DEF FirstStep, Jobs
<1>4. Advances(j, k, FirstStep(j)) /\ Finds(j, k, {})
  <2>1. at[j][k] = "queued" /\ at' = [at EXCEPT ![j][k] = FirstStep(j)] /\ found' = found
    BY DEF Take
  <2> QED  BY <2>1, AdvanceOnly, NothingYet
<1>5. failures' \in failures .. MaxFailures
  BY ScenariosAssumption DEF Take, Shaped
<1> QED  BY <1>1, <1>3, <1>4, <1>5 DEF Take, WorkerStep

\* The renewal of the zones.
LEMMA ZonesIsWork ==
    ASSUME DiscoveryInv, NEW j \in Jobs, NEW k \in AccountKeys, NEW ok \in BOOLEAN,
           InitZonesCache(j, k, ok)
    PROVE  WorkerStep(j, k, "vpcs", {})
<1> USE DEF DiscoveryInv
<1>1. j \in {"boot", "refresh"}
  BY DEF InitZonesCache, WorkInv, StepsOf, Jobs
<1>2. Advances(j, k, "vpcs") /\ Finds(j, k, {})
  <2>1. at[j][k] = "zones" /\ at' = [at EXCEPT ![j][k] = "vpcs"] /\ found' = found
    BY DEF InitZonesCache
  <2> QED  BY <2>1, AdvanceOnly, NothingYet
<1>3. failures' \in failures .. MaxFailures
  BY OutcomeCounts DEF InitZonesCache, Shaped
<1>4. "vpcs" \in StepsOf(j)
  BY <1>1 DEF StepsOf
<1> QED  BY <1>2, <1>3, <1>4 DEF InitZonesCache, WorkerStep

\* The renewal of the VPC names.
LEMMA VpcsIsWork ==
    ASSUME DiscoveryInv, NEW j \in Jobs, NEW k \in AccountKeys, NEW ok \in BOOLEAN,
           InitVpcCache(j, k, ok)
    PROVE  WorkerStep(j, k, IF j = "boot" THEN "result" ELSE "read", {})
<1> USE DEF DiscoveryInv
<1>1. j \in {"boot", "refresh"}
  BY DEF InitVpcCache, WorkInv, StepsOf, Jobs
<1> DEFINE s == IF j = "boot" THEN "result" ELSE "read"
<1>2. Advances(j, k, s) /\ Finds(j, k, {})
  <2>1. at[j][k] = "vpcs" /\ at' = [at EXCEPT ![j][k] = s] /\ found' = found
    BY DEF InitVpcCache
  <2> HIDE DEF s
  <2> QED  BY <2>1, AdvanceOnly, NothingYet
<1>3. failures' \in failures .. MaxFailures
  <2>1. CASE scenario.vpcDisabled
    BY <2>1, ScenariosAssumption DEF InitVpcCache, Shaped
  <2>2. CASE ~scenario.vpcDisabled
    BY <2>2, OutcomeCounts DEF InitVpcCache, Shaped
  <2> QED  BY <2>1, <2>2
<1>4. s \in StepsOf(j)
  BY <1>1 DEF StepsOf
<1>5. j # ReportingJob \/ s # "result"
  BY <1>1 DEF ReportingJob
<1> QED  BY <1>2, <1>3, <1>4, <1>5 DEF InitVpcCache, WorkerStep

\* The discovery of zones reads the cache.
LEMMA ReadZonesIsWork ==
    ASSUME DiscoveryInv, Alive, NEW k \in AccountKeys, ReadZones(k)
    PROVE  \E T : WorkerStep("refresh", k, "result", T)
<1> USE DEF DiscoveryInv
<1> DEFINE T == IF scenario.kind = "zone"
                THEN AllAvailabilityZones(View(k, <<Here(k)>>, {})).targets ELSE {}
<1>1. Advances("refresh", k, "result") /\ Finds("refresh", k, T)
  <2>1. Supply("refresh", k, T)
    BY DEF ReadZones
  <2> HIDE DEF T
  <2> QED  BY <2>1, AdvanceOnly DEF Jobs
<1>2. failures' \in failures .. MaxFailures
  BY ScenariosAssumption DEF ReadZones, Shaped
<1>3. ASSUME NEW t \in T PROVE Sound(k, FalseClaims', t)
  <2>1. Sound(k, {}, t)
    BY <1>3, OthersAreSound
  <2> QED  BY <2>1 DEF Sound
<1>4. failures' = 0 /\ "refresh" = ReportingJob => Owed(k) \subseteq T
  <2>1. SUFFICES ASSUME failures' = 0, scenario.kind = "zone" PROVE Owed(k) \subseteq T
    BY DEF ReportingJob
  <2>2. "zone" \in cache[Place(accounts[k])]
    BY <2>1, CacheFilled DEF ReadZones
  <2> QED  BY <2>1, <2>2, OthersAreComplete
<1>5. "result" \in StepsOf("refresh") /\ "refresh" # "boot"
  BY DEF StepsOf
<1>6. at["refresh"][k] = "read" /\ UNCHANGED <<scenario, stage, accounts, answer, round, running>>
  BY DEF ReadZones
<1> HIDE DEF T
<1> QED  BY <1>1, <1>2, <1>3, <1>4, <1>5, <1>6 DEF WorkerStep

\* The supplier of the scenario's kind.
LEMMA CollectIsWork ==
    ASSUME DiscoveryInv, Alive, NEW k \in AccountKeys, Collect(k)
    PROVE  \E T : WorkerStep("collect", k, "result", T)
<1> USE DEF DiscoveryInv
<1>1. PICK pages \in Pages(Here(k)),
           down \in UNION {kSubset(n, CallsUnder(k)) : n \in 0 .. MaxFailures - failures} :
        /\ failures' = failures + Cardinality(down)
        /\ Supply("collect", k, AllTargets(View(k, pages, down)).targets)
  BY DEF Collect
<1> DEFINE T == AllTargets(View(k, pages, down)).targets
<1>2. scenario.kind \notin {"zone", "template"}
  BY DEF Collect, WorkInv
<1>3. Advances("collect", k, "result") /\ Finds("collect", k, T)
  <2>1. Supply("collect", k, T)
    BY <1>1
  <2> HIDE DEF T
  <2> QED  BY <2>1, AdvanceOnly DEF Jobs
<1>4. /\ failures' \in failures .. MaxFailures
      /\ failures' = 0 => failures = 0 /\ down = {}
  <2>1. Cardinality(down) \in 0 .. MaxFailures - failures /\ (Cardinality(down) = 0 => down = {})
    BY FailedCallsCounted DEF Shaped
  <2> QED  BY <1>1, <2>1, ScenariosAssumption DEF Shaped
<1>5. ASSUME NEW t \in T PROVE Sound(k, FalseClaims', t)
  <2>1. Sound(k, ClaimsOf(View(k, pages, down)), t)
    BY <1>2, SuppliersAreSound
  <2>2. View(k, pages, down).down = down
    BY DEF View
  <2>3. ClaimsOf(View(k, pages, down)) \subseteq FalseClaims'
    BY <1>4, <2>2 DEF ClaimsOf, FalseClaims
  <2> QED  BY <2>1, <2>3 DEF Sound
<1>6. failures' = 0 /\ ~CutShort => Owed(k) \subseteq T
  <2>1. SUFFICES ASSUME failures' = 0, ~CutShort PROVE Owed(k) \subseteq T
    OBVIOUS
  <2>2. failures = 0 /\ down = {}
    BY <1>4, <2>1
  <2>3. at["collect"][k] = "collect"
    BY DEF Collect
  <2> QED  BY <1>2, <2>1, <2>2, <2>3, CacheFilled, SuppliersAreComplete
<1>7. "result" \in StepsOf("collect") /\ "collect" # "boot"
  BY DEF StepsOf
<1>8. at["collect"][k] = "collect" /\ UNCHANGED <<scenario, stage, accounts, answer, round, running>>
  BY DEF Collect
<1> HIDE DEF T
<1> QED  BY <1>3, <1>4, <1>5, <1>6, <1>7, <1>8 DEF WorkerStep

\* The steps of the collecting worker.
LEMMA StepsOfCollect ==
    StepsOf("collect") = {"queued", "result", "idle", "collect", "list", "look", "get", "store"}
BY DEF StepsOf

\* The list of the templates.
LEMMA ListTemplatesIsWork ==
    ASSUME DiscoveryInv, NEW k \in AccountKeys, NEW ok \in BOOLEAN, ListTemplates(k, ok)
    PROVE  WorkerStep("collect", k, IF ok THEN "look" ELSE "result", {})
<1> USE DEF DiscoveryInv
<1>1. at["collect"][k] = "list" /\ scenario.kind = "template"
  BY DEF ListTemplates, WorkInv
<1>2. failures' \in failures .. MaxFailures /\ (failures' = 0 => ok)
  BY OutcomeCounts DEF ListTemplates, Shaped
<1>3. CASE ok
  <2>1. Advances("collect", k, "look") /\ Finds("collect", k, {})
    BY <1>1, <1>3, AdvanceOnly, NothingYet DEF ListTemplates, Jobs
  <2> QED  BY <1>1, <1>2, <1>3, <2>1, StepsOfCollect DEF ListTemplates, WorkerStep
<1>4. CASE ~ok
  <2>1. Supply("collect", k, {})
    BY <1>4 DEF ListTemplates
  <2>2. Advances("collect", k, "result") /\ Finds("collect", k, {})
    BY <2>1, AdvanceOnly DEF Jobs
  <2> QED  BY <1>1, <1>2, <1>4, <2>2, StepsOfCollect DEF ListTemplates, WorkerStep
<1> QED  BY <1>3, <1>4

\* The look into the cache of durations.
LEMMA LookUpIsWork ==
    ASSUME DiscoveryInv, NEW k \in AccountKeys, LookUp(k)
    PROVE  \E s \in {"look", "get"} : WorkerStep("collect", k, s, {})
<1> USE DEF DiscoveryInv
<1>1. at["collect"][k] = "look" /\ scenario.kind = "template"
  BY DEF LookUp, WorkInv
<1>2. Advances("collect", k, "look") \/ Advances("collect", k, "get")
  <2>1. at' = at \/ at' = [at EXCEPT !["collect"][k] = "get"]
    BY DEF LookUp
  <2> QED  BY <1>1, <2>1, AdvanceOnly DEF Jobs
<1>3. Finds("collect", k, {})
  BY <1>1, AdvanceOnly, NothingYet DEF LookUp, Jobs
<1>4. failures' \in failures .. MaxFailures
  BY ScenariosAssumption DEF LookUp, Shaped
<1>5. ASSUME NEW s \in {"look", "get"}, Advances("collect", k, s) PROVE WorkerStep("collect", k, s, {})
  BY <1>1, <1>3, <1>4, <1>5, StepsOfCollect DEF LookUp, WorkerStep
<1> QED  BY <1>2, <1>5

\* The reading of a template.
LEMMA GetTemplateIsWork ==
    ASSUME DiscoveryInv, NEW k \in AccountKeys, NEW ok \in BOOLEAN, GetTemplate(k, ok)
    PROVE  WorkerStep("collect", k, IF ok THEN "store" ELSE "result", {})
<1> USE DEF DiscoveryInv
<1>1. at["collect"][k] = "get" /\ scenario.kind = "template"
  BY DEF GetTemplate, WorkInv
<1>2. failures' \in failures .. MaxFailures /\ (failures' = 0 => ok)
  BY OutcomeCounts DEF GetTemplate, Shaped
<1>3. CASE ok
  <2>1. Advances("collect", k, "store") /\ Finds("collect", k, {})
    BY <1>1, <1>3, AdvanceOnly, NothingYet DEF GetTemplate, Jobs
  <2> QED  BY <1>1, <1>2, <1>3, <2>1, StepsOfCollect DEF GetTemplate, WorkerStep
<1>4. CASE ~ok
  <2>1. Supply("collect", k, {})
    BY <1>4 DEF GetTemplate
  <2>2. Advances("collect", k, "result") /\ Finds("collect", k, {})
    BY <2>1, AdvanceOnly DEF Jobs
  <2> QED  BY <1>1, <1>2, <1>4, <2>2, StepsOfCollect DEF GetTemplate, WorkerStep
<1> QED  BY <1>3, <1>4

\* The storing of a duration.
LEMMA StoreDurationIsWork ==
    ASSUME DiscoveryInv, NEW k \in AccountKeys, StoreDuration(k)
    PROVE  WorkerStep("collect", k, "look", {})
<1> USE DEF DiscoveryInv
<1>1. at["collect"][k] = "store" /\ scenario.kind = "template"
  BY DEF StoreDuration, WorkInv
<1>2. Advances("collect", k, "look") /\ Finds("collect", k, {})
  BY <1>1, AdvanceOnly, NothingYet DEF StoreDuration, Jobs
<1>3. failures' \in failures .. MaxFailures
  BY ScenariosAssumption DEF StoreDuration, Shaped
<1> QED  BY <1>1, <1>2, <1>3, StepsOfCollect DEF StoreDuration, WorkerStep

\* The templates of the list have been seen.
LEMMA FinishTemplatesIsWork ==
    ASSUME DiscoveryInv, Alive, NEW k \in AccountKeys, FinishTemplates(k)
    PROVE  \E T : WorkerStep("collect", k, "result", T)
<1> USE DEF DiscoveryInv
<1> DEFINE T == FisTemplatesOf(View(k, <<Here(k)>>, {})).targets
<1>1. at["collect"][k] = "look" /\ scenario.kind = "template"
  BY DEF FinishTemplates, WorkInv
<1>2. Advances("collect", k, "result") /\ Finds("collect", k, T)
  <2>1. Supply("collect", k, T)
    BY <1>1 DEF FinishTemplates, ListInv
  <2> HIDE DEF T
  <2> QED  BY <2>1, AdvanceOnly DEF Jobs
<1>3. failures' \in failures .. MaxFailures
  BY ScenariosAssumption DEF FinishTemplates, Shaped
<1>4. ASSUME NEW t \in T PROVE Sound(k, FalseClaims', t)
  <2>1. Sound(k, {}, t)
    BY <1>1, <1>4, OthersAreSound
  <2> QED  BY <2>1 DEF Sound
<1>5. failures' = 0 => Owed(k) \subseteq T
  <2>1. SUFFICES ASSUME failures = 0 PROVE Owed(k) \subseteq T
    BY DEF FinishTemplates
  <2>2. "zone" \in cache[Place(accounts[k])]
    BY <1>1, <2>1, CacheFilled
  <2> QED  BY <1>1, <2>2, OthersAreComplete
<1>6. UNCHANGED <<scenario, stage, accounts, answer, round, running>>
  BY DEF FinishTemplates
<1> HIDE DEF T
<1> QED  BY <1>1, <1>2, <1>3, <1>4, <1>5, <1>6, StepsOfCollect DEF WorkerStep

-----------------------------------------------------------------------------
(* Discovery: what a step keeps                                            *)

\* A step that leaves the scenario and the accesses alone leaves all alone that
\* is said in their terms.
LEMMA SameWorld ==
    ASSUME UNCHANGED <<scenario, accounts>>
    PROVE  /\ AccountKeys' = AccountKeys /\ (Configured' <=> Configured)
           /\ ReportingJob' = ReportingJob /\ Registered' = Registered
           /\ \A k : Here(k)' = Here(k)
           /\ \A k : Owed(k)' = Owed(k)
           /\ (CutShort' <=> CutShort)
           /\ \A k, t : Sound(k, FalseClaims, t)' <=> Sound(k, FalseClaims', t)
<1>1. AccountKeys' = AccountKeys
  BY DEF AccountKeys
<1>2. Configured' <=> Configured
  BY DEF Configured
<1>3. ReportingJob' = ReportingJob
  BY DEF ReportingJob
<1>4. Registered' = Registered
  BY DEF Registered
<1>5. \A k : Here(k)' = Here(k)
  BY DEF Here
<1>6. \A k : Owed(k)' = Owed(k)
  BY <1>5 DEF Owed, ShownBy, LabelsExcluded, Discoverable, Selected
<1>7. CutShort' <=> CutShort
  BY DEF CutShort
<1>8. \A k, t : Sound(k, FalseClaims, t)' <=> Sound(k, FalseClaims', t)
  BY <1>5 DEF Sound, Discoverable, Selected
<1> QED  BY <1>1, <1>2, <1>3, <1>4, <1>5, <1>6, <1>7, <1>8

\* A step of a worker does not make the workers more than there are.
LEMMA WorkersBound ==
    ASSUME DiscoveryInv, NEW j \in Jobs, NEW k \in AccountKeys, NEW s, NEW T, WorkerStep(j, k, s, T),
           NEW i \in Jobs
    PROVE  Cardinality(Busy(i)') <= scenario.workers
<1>1. scenario.workers \in Nat
  BY ScenariosAssumption DEF DiscoveryInv, Shaped
<1>2. AccountKeys' = AccountKeys
  BY SameWorld DEF WorkerStep
<1>3. IsFiniteSet(Busy(i)) /\ Cardinality(Busy(i)) \in Nat /\ Cardinality(Busy(i)) <= scenario.workers
  <2>1. IsFiniteSet(AccountKeys) /\ Busy(i) \subseteq AccountKeys
    BY FinitelyManyKeys DEF DiscoveryInv, Shaped, Busy
  <2> QED  BY <2>1, FS_Subset, FS_CardinalityType DEF DiscoveryInv, WorkInv
<1>4. CASE i # j \/ at[j][k] # "queued"
  <2>1. Busy(i)' \subseteq Busy(i)
    BY <1>2, <1>4 DEF Busy, WorkerStep, Advances
  <2>2. Cardinality(Busy(i)') \in Nat /\ Cardinality(Busy(i)') <= Cardinality(Busy(i))
    BY <1>3, <2>1, FS_Subset, FS_CardinalityType
  <2> QED  BY <1>1, <1>3, <2>2
<1>5. CASE i = j /\ at[j][k] = "queued"
  <2>1. Busy(i)' \subseteq Busy(i) \cup {k}
    BY <1>2, <1>5 DEF Busy, WorkerStep, Advances
  <2>2. /\ IsFiniteSet(Busy(i) \cup {k})
        /\ Cardinality(Busy(i) \cup {k}) \in Nat
        /\ Cardinality(Busy(i) \cup {k}) <= Cardinality(Busy(i)) + 1
    <3>1. /\ IsFiniteSet(Busy(i) \cup {k})
          /\ \/ Cardinality(Busy(i) \cup {k}) = Cardinality(Busy(i))
             \/ Cardinality(Busy(i) \cup {k}) = Cardinality(Busy(i)) + 1
      BY <1>3, FS_AddElement
    <3> HIDE DEF Busy
    <3> QED  BY <1>3, <3>1
  <2>3. Cardinality(Busy(i)') \in Nat /\ Cardinality(Busy(i)') <= Cardinality(Busy(i) \cup {k})
    BY <2>1, <2>2, FS_Subset, FS_CardinalityType
  <2>4. Cardinality(Busy(i)) < scenario.workers
    BY <1>5 DEF WorkerStep
  <2> QED  BY <1>1, <1>3, <2>2, <2>3, <2>4
<1> QED  BY <1>4, <1>5

\* The workers' invariant.
LEMMA WorkKeepsWorkInv ==
    ASSUME DiscoveryInv, NEW j \in Jobs, NEW k \in AccountKeys, NEW s, NEW T, WorkerStep(j, k, s, T)
    PROVE  WorkInv'
<1>1. AccountKeys' = AccountKeys /\ Registered' = Registered
  BY SameWorld DEF WorkerStep
<1>2. UNCHANGED <<scenario, stage, accounts, running, round>>
  BY DEF WorkerStep
<1>3. \A i \in Jobs : Cardinality(Busy(i)') <= scenario'.workers
  BY <1>2, WorkersBound
<1>4. \A i \in Jobs, l \in AccountKeys :
        /\ at'[i][l] = IF i = j /\ l = k THEN s ELSE at[i][l]
        /\ found'[i][l] = IF i = j /\ l = k THEN T ELSE found[i][l]
  BY DEF WorkerStep, Advances, Finds
<1>5. ASSUME NEW l \in AccountKeys
      PROVE  /\ \A i \in Jobs :
                  /\ at'[i][l] \in StepsOf(i)
                  /\ at'[i][l] # "result" => found'[i][l] = {}
             /\ found'["boot"][l] = {}
             /\ stage' = "caching" => at'["refresh"][l] = "idle" /\ at'["collect"][l] = "idle"
             /\ stage' = "serving" => at'["boot"][l] = "result"
             /\ at'["collect"][l] = "collect" => scenario'.kind \notin {"zone", "template"}
             /\ at'["collect"][l] \in {"list", "look", "get", "store"} => scenario'.kind = "template"
  <2>1. \A i \in Jobs : at'[i][l] \in StepsOf(i) /\ (at'[i][l] # "result" => found'[i][l] = {})
    BY <1>4 DEF DiscoveryInv, WorkInv, WorkerStep
  <2>2. found'["boot"][l] = {}
    BY <1>4 DEF DiscoveryInv, WorkInv, WorkerStep, Jobs
  <2>3. stage' = "caching" => at'["refresh"][l] = "idle" /\ at'["collect"][l] = "idle"
    BY <1>2, <1>4 DEF DiscoveryInv, WorkInv, WorkerStep, Jobs
  <2>4. stage' = "serving" => at'["boot"][l] = "result"
    BY <1>2, <1>4 DEF DiscoveryInv, WorkInv, WorkerStep, Jobs
  <2>5. /\ at'["collect"][l] = "collect" => scenario'.kind \notin {"zone", "template"}
        /\ at'["collect"][l] \in {"list", "look", "get", "store"} => scenario'.kind = "template"
    BY <1>2, <1>4 DEF DiscoveryInv, WorkInv, WorkerStep, Jobs
  <2> QED  BY <2>1, <2>2, <2>3, <2>4, <2>5
<1>6. /\ stage' = "configuring" => accounts' = <<>> /\ running' = {} /\ \A i \in Jobs : round'[i] = 0
      /\ stage' = "caching" => running' \subseteq {"boot"}
      /\ running' \subseteq {"boot"} \cup Registered'
  BY <1>1, <1>2 DEF DiscoveryInv, WorkInv
<1> QED  BY <1>1, <1>3, <1>5, <1>6 DEF WorkInv

\* The targets stay sound.
LEMMA WorkKeepsSoundInv ==
    ASSUME DiscoveryInv, NEW j \in Jobs, NEW k \in AccountKeys, NEW s, NEW T, WorkerStep(j, k, s, T)
    PROVE  SoundInv'
<1>1. /\ AccountKeys' = AccountKeys
      /\ \A l, t : Sound(l, FalseClaims, t)' <=> Sound(l, FalseClaims', t)
  BY SameWorld DEF WorkerStep
<1>2. failures \in 0 .. MaxFailures /\ failures' \in failures .. MaxFailures /\ answer' = answer
  BY DEF DiscoveryInv, Shaped, WorkerStep
<1>3. ASSUME NEW i \in Jobs, NEW l \in AccountKeys, NEW t \in found'[i][l]
      PROVE  Sound(l, FalseClaims', t)
  <2>1. CASE i = j /\ l = k
    BY <1>3, <2>1 DEF WorkerStep, Finds
  <2>2. CASE ~(i = j /\ l = k)
    <3>1. t \in found[i][l]
      BY <1>3, <2>2 DEF WorkerStep, Finds
    <3> QED  BY <1>2, <3>1, ClaimsGrow DEF DiscoveryInv, SoundInv
  <2> QED  BY <2>1, <2>2
<1>4. ASSUME NEW i \in Jobs, NEW t \in answer'[i]
      PROVE  \E l \in AccountKeys : Sound(l, FalseClaims', t)
  BY <1>2, <1>4, ClaimsGrow DEF DiscoveryInv, SoundInv
<1> QED  BY <1>1, <1>3, <1>4 DEF SoundInv

\* The results stay complete.
LEMMA WorkKeepsCompleteInv ==
    ASSUME DiscoveryInv, NEW j \in Jobs, NEW k \in AccountKeys, NEW s, NEW T, WorkerStep(j, k, s, T)
    PROVE  CompleteInv'
<1>1. /\ AccountKeys' = AccountKeys /\ ReportingJob' = ReportingJob /\ (CutShort' <=> CutShort)
      /\ \A l : Owed(l)' = Owed(l)
  BY SameWorld DEF WorkerStep
<1>2. UNCHANGED <<answer, round, running>> /\ (failures' = 0 => failures = 0)
  BY ScenariosAssumption DEF DiscoveryInv, Shaped, WorkerStep
<1>3. ReportingJob \in Jobs
  BY DEF ReportingJob, Jobs
<1>4. ASSUME failures' = 0, ~CutShort, NEW l \in AccountKeys, at'[ReportingJob][l] = "result"
      PROVE  Owed(l) \subseteq found'[ReportingJob][l]
  <2>1. CASE ReportingJob = j /\ l = k
    BY <1>3, <1>4, <2>1 DEF WorkerStep, Advances, Finds
  <2>2. CASE ~(ReportingJob = j /\ l = k)
    BY <1>2, <1>3, <1>4, <2>2 DEF WorkerStep, Advances, Finds, DiscoveryInv, CompleteInv
  <2> QED  BY <2>1, <2>2
<1> QED  BY <1>1, <1>2, <1>4 DEF CompleteInv, DiscoveryInv

\* The shape, if what the workers do not share keeps its own.
LEMMA WorkKeepsShaped ==
    ASSUME DiscoveryInv, NEW j \in Jobs, NEW k \in AccountKeys, NEW s, NEW T, WorkerStep(j, k, s, T),
           cache' \in [{Place(accounts[l]) : l \in AccountKeys} -> SUBSET {"zone", "vpc"}],
           version' \in [Resources -> Nat], raced' \in BOOLEAN,
           reading' = [l \in AccountKeys |-> reading'[l]],
           listed' = [l \in AccountKeys |-> listed'[l]],
           shown' = [l \in AccountKeys |-> shown'[l]]
    PROVE  Shaped'
<1>1. AccountKeys' = AccountKeys /\ (Configured' <=> Configured)
  BY SameWorld DEF WorkerStep
<1>2. UNCHANGED <<scenario, stage, accounts, answer, round, running>>
  BY DEF WorkerStep
<1>3. {Place(accounts'[l]) : l \in AccountKeys'} = {Place(accounts[l]) : l \in AccountKeys}
  BY <1>1, <1>2
<1>4. /\ at' = [i \in Jobs |-> [l \in AccountKeys |-> at'[i][l]]]
      /\ found' = [i \in Jobs |-> [l \in AccountKeys |-> found'[i][l]]]
  BY DEF WorkerStep, Advances, Finds, Table
<1>5. failures' \in 0 .. MaxFailures
  BY ScenariosAssumption DEF DiscoveryInv, Shaped, WorkerStep
<1>6. /\ scenario' \in Scenarios /\ Configured'
      /\ stage' \in {"configuring", "caching", "serving", "fatal"}
      /\ answer' = [i \in Jobs |-> answer'[i]]
      /\ round' \in [Jobs -> Nat] /\ running' \subseteq Jobs
  BY <1>1, <1>2 DEF DiscoveryInv, Shaped
<1> QED  BY <1>1, <1>3, <1>4, <1>5, <1>6 DEF Shaped

\* The cache, if the step does not touch it.
LEMMA WorkKeepsCacheInv ==
    ASSUME DiscoveryInv, NEW j \in Jobs, NEW k \in AccountKeys, NEW s, NEW T, WorkerStep(j, k, s, T),
           cache' = cache, j # "boot" \/ s = "zones"
    PROVE  CacheInv'
<1>1. AccountKeys' = AccountKeys /\ UNCHANGED <<scenario, accounts>>
  BY SameWorld DEF WorkerStep
<1>2. failures' = 0 => failures = 0
  BY ScenariosAssumption DEF DiscoveryInv, Shaped, WorkerStep
<1>3. \A l \in AccountKeys : at'["boot"][l] = at["boot"][l] \/ at'["boot"][l] = "zones"
  BY DEF WorkerStep, Advances, Jobs
<1> QED  BY <1>1, <1>2, <1>3 DEF DiscoveryInv, CacheInv

\* A step that touches nothing that the workers share.
LEMMA QuietWork ==
    ASSUME DiscoveryInv, NEW j \in Jobs, NEW k \in AccountKeys, NEW s, NEW T, WorkerStep(j, k, s, T),
           UNCHANGED <<cache, fis>>, j # "boot" \/ s = "zones",
           j # "collect" \/ s \notin {"look", "get", "store"}
    PROVE  DiscoveryInv'
<1>1. UNCHANGED <<version, durationCache, reading, listed, shown, raced>>
  BY DEF fis
<1>2. Shaped'
  BY <1>1, WorkKeepsShaped DEF DiscoveryInv, Shaped
<1>3. AccountKeys' = AccountKeys /\ \A l : Here(l)' = Here(l)
  BY SameWorld DEF WorkerStep
<1>4. \A l \in AccountKeys : at'["collect"][l] \in {"look", "get", "store"} => at'["collect"][l] = at["collect"][l]
  BY DEF WorkerStep, Advances, Jobs
<1>5. ListInv'
  BY <1>1, <1>3, <1>4 DEF DiscoveryInv, ListInv
<1>6. FreshInv'
  BY <1>1, <1>3, <1>4 DEF DiscoveryInv, FreshInv
<1> QED  BY <1>2, <1>5, <1>6, WorkKeepsWorkInv, WorkKeepsSoundInv, WorkKeepsCompleteInv, WorkKeepsCacheInv
         DEF DiscoveryInv

\* The renewal of the cache.
LEMMA ZonesKeep ==
    ASSUME DiscoveryInv, NEW j \in Jobs, NEW k \in AccountKeys, NEW ok \in BOOLEAN,
           InitZonesCache(j, k, ok)
    PROVE  DiscoveryInv'
<1>1. WorkerStep(j, k, "vpcs", {})
  BY ZonesIsWork
<1>2. UNCHANGED <<version, durationCache, reading, listed, shown, raced>>
  BY DEF InitZonesCache, fis
<1> DEFINE places == {Place(accounts[l]) : l \in AccountKeys}
<1>3. /\ DOMAIN cache = places
      /\ \A p \in places :
           \/ cache'[p] = cache[p]
           \/ /\ p = Place(accounts[k])
              /\ cache'[p] = IF ok THEN cache[p] \cup {"zone"} ELSE cache[p] \ {"zone"}
      /\ "zone" \in cache'[Place(accounts[k])] \/ ~ok
  BY DEF InitZonesCache, Known, DiscoveryInv, Shaped
<1>4. cache' \in [places -> SUBSET {"zone", "vpc"}]
  BY DEF InitZonesCache, Known, DiscoveryInv, Shaped
<1>5. Shaped'
  BY <1>1, <1>2, <1>4, WorkKeepsShaped DEF DiscoveryInv, Shaped
<1>6. AccountKeys' = AccountKeys /\ (\A l : Here(l)' = Here(l)) /\ UNCHANGED <<scenario, accounts>>
  BY <1>1, SameWorld DEF WorkerStep
<1>7. CacheInv'
  <2>1. failures' = 0 => ok /\ failures = 0
    BY OutcomeCounts DEF InitZonesCache, DiscoveryInv, Shaped
  <2>2. ASSUME NEW l \in AccountKeys
        PROVE  /\ scenario.vpcDisabled => "vpc" \notin cache'[Place(accounts[l])]
               /\ ok => cache[Place(accounts[l])] \subseteq cache'[Place(accounts[l])]
    <3>1. Place(accounts[l]) \in places
      OBVIOUS
    <3>2. \/ cache'[Place(accounts[l])] = cache[Place(accounts[l])]
          \/ ok /\ cache'[Place(accounts[l])] = cache[Place(accounts[l])] \cup {"zone"}
          \/ ~ok /\ cache'[Place(accounts[l])] = cache[Place(accounts[l])] \ {"zone"}
      BY <1>3, <3>1
    <3>3. scenario.vpcDisabled => "vpc" \notin cache[Place(accounts[l])]
      BY DEF DiscoveryInv, CacheInv
    <3> HIDE DEF places
    <3>4. ok => cache[Place(accounts[l])] \subseteq cache'[Place(accounts[l])]
      BY <3>2
    <3>5. scenario.vpcDisabled => "vpc" \notin cache'[Place(accounts[l])]
      BY <3>2, <3>3
    <3> QED  BY <3>4, <3>5
  <2>3. ASSUME NEW l \in AccountKeys
        PROVE  \/ at'["boot"][l] = at["boot"][l]
               \/ l = k /\ at'["boot"][l] = "vpcs"
    BY <1>1 DEF WorkerStep, Advances, Jobs
  <2> HIDE DEF places
  <2>4. ASSUME NEW l \in AccountKeys, failures' = 0
        PROVE  /\ at'["boot"][l] \in {"vpcs", "result"} => "zone" \in cache'[Place(accounts[l])]
               /\ at'["boot"][l] = "result" /\ ~scenario.vpcDisabled => "vpc" \in cache'[Place(accounts[l])]
    BY <1>3, <2>1, <2>2, <2>3, <2>4 DEF DiscoveryInv, CacheInv
  <2> QED  BY <1>6, <2>2, <2>4 DEF CacheInv
<1>8. \A l \in AccountKeys : at'["collect"][l] \in {"look", "get", "store"} => at'["collect"][l] = at["collect"][l]
  BY <1>1 DEF WorkerStep, Advances, Jobs
<1>9. ListInv' /\ FreshInv'
  <2>1. ListInv'
    BY <1>2, <1>6, <1>8 DEF DiscoveryInv, ListInv
  <2>2. FreshInv'
    BY <1>2, <1>6, <1>8 DEF DiscoveryInv, FreshInv
  <2> QED  BY <2>1, <2>2
<1> QED  BY <1>1, <1>5, <1>7, <1>9, WorkKeepsWorkInv, WorkKeepsSoundInv, WorkKeepsCompleteInv DEF DiscoveryInv

\* The renewal of the VPC names.
LEMMA VpcsKeep ==
    ASSUME DiscoveryInv, NEW j \in Jobs, NEW k \in AccountKeys, NEW ok \in BOOLEAN,
           InitVpcCache(j, k, ok)
    PROVE  DiscoveryInv'
<1> DEFINE s == IF j = "boot" THEN "result" ELSE "read"
<1>1. WorkerStep(j, k, s, {})
  BY VpcsIsWork
<1> HIDE DEF s
<1>2. UNCHANGED <<version, durationCache, reading, listed, shown, raced>>
  BY DEF InitVpcCache, fis
<1> DEFINE places == {Place(accounts[l]) : l \in AccountKeys}
           known == ok /\ ~scenario.vpcDisabled
<1>3. /\ DOMAIN cache = places
      /\ \A p \in places :
           \/ cache'[p] = cache[p]
           \/ /\ p = Place(accounts[k])
              /\ cache'[p] = IF known THEN cache[p] \cup {"vpc"} ELSE cache[p] \ {"vpc"}
      /\ "vpc" \in cache'[Place(accounts[k])] \/ ~known
  BY DEF InitVpcCache, Known, DiscoveryInv, Shaped
<1>4. cache' \in [places -> SUBSET {"zone", "vpc"}]
  BY DEF InitVpcCache, Known, DiscoveryInv, Shaped
<1>5. Shaped'
  BY <1>1, <1>2, <1>4, WorkKeepsShaped DEF DiscoveryInv, Shaped
<1>6. AccountKeys' = AccountKeys /\ (\A l : Here(l)' = Here(l)) /\ UNCHANGED <<scenario, accounts>>
  BY <1>1, SameWorld DEF WorkerStep
<1>7. CacheInv'
  <2>1. /\ failures' = 0 => failures = 0 /\ ok
        /\ at["boot"][k] = "vpcs" \/ j # "boot"
    <3>1. CASE scenario.vpcDisabled
      BY <3>1 DEF InitVpcCache
    <3>2. CASE ~scenario.vpcDisabled
      BY <3>2, OutcomeCounts DEF InitVpcCache, DiscoveryInv, Shaped
    <3> QED  BY <3>1, <3>2
  <2>2. ASSUME NEW l \in AccountKeys
        PROVE  /\ scenario.vpcDisabled => "vpc" \notin cache'[Place(accounts[l])]
               /\ known => cache[Place(accounts[l])] \subseteq cache'[Place(accounts[l])]
               /\ "zone" \in cache[Place(accounts[l])] => "zone" \in cache'[Place(accounts[l])]
    <3>1. Place(accounts[l]) \in places
      OBVIOUS
    <3>2. \/ cache'[Place(accounts[l])] = cache[Place(accounts[l])]
          \/ known /\ cache'[Place(accounts[l])] = cache[Place(accounts[l])] \cup {"vpc"}
          \/ ~known /\ cache'[Place(accounts[l])] = cache[Place(accounts[l])] \ {"vpc"}
      BY <1>3, <3>1
    <3>3. scenario.vpcDisabled => "vpc" \notin cache[Place(accounts[l])]
      BY DEF DiscoveryInv, CacheInv
    <3>4. known => ~scenario.vpcDisabled
      OBVIOUS
    <3> HIDE DEF known, places
    <3>5. known => cache[Place(accounts[l])] \subseteq cache'[Place(accounts[l])]
      BY <1>3, <3>1, <3>2
    <3>6. "zone" \in cache[Place(accounts[l])] => "zone" \in cache'[Place(accounts[l])]
      BY <3>2
    <3>7. scenario.vpcDisabled => "vpc" \notin cache'[Place(accounts[l])]
      BY <3>2, <3>3, <3>4
    <3> QED  BY <3>5, <3>6, <3>7
  <2>3. ASSUME NEW l \in AccountKeys
        PROVE  \/ at'["boot"][l] = at["boot"][l]
               \/ l = k /\ j = "boot"
    BY <1>1 DEF WorkerStep, Advances, Jobs
  <2> HIDE DEF places
  <2>4. ASSUME NEW l \in AccountKeys, failures' = 0
        PROVE  /\ at'["boot"][l] \in {"vpcs", "result"} => "zone" \in cache'[Place(accounts[l])]
               /\ at'["boot"][l] = "result" /\ ~scenario.vpcDisabled => "vpc" \in cache'[Place(accounts[l])]
    BY <1>3, <2>1, <2>2, <2>3, <2>4 DEF DiscoveryInv, CacheInv
  <2> QED  BY <1>6, <2>2, <2>4 DEF CacheInv
<1>8. \A l \in AccountKeys : at'["collect"][l] \in {"look", "get", "store"} => at'["collect"][l] = at["collect"][l]
  BY <1>1 DEF WorkerStep, Advances, Jobs, s
<1>9. ListInv' /\ FreshInv'
  <2>1. ListInv'
    BY <1>2, <1>6, <1>8 DEF DiscoveryInv, ListInv
  <2>2. FreshInv'
    BY <1>2, <1>6, <1>8 DEF DiscoveryInv, FreshInv
  <2> QED  BY <2>1, <2>2
<1> QED  BY <1>1, <1>5, <1>7, <1>9, WorkKeepsWorkInv, WorkKeepsSoundInv, WorkKeepsCompleteInv DEF DiscoveryInv

\* What the steps at the templates have in common.
LEMMA TemplateWork ==
    ASSUME DiscoveryInv, NEW k \in AccountKeys, NEW s, WorkerStep("collect", k, s, {}),
           UNCHANGED <<cache, version, raced>>,
           reading' = [l \in AccountKeys |-> reading'[l]],
           listed' = [l \in AccountKeys |-> listed'[l]],
           shown' = [l \in AccountKeys |-> shown'[l]],
           ListInv', FreshInv'
    PROVE  DiscoveryInv'
<1>1. "collect" \in Jobs /\ "collect" # "boot"
  BY DEF Jobs
<1>2. Shaped'
  BY <1>1, WorkKeepsShaped DEF DiscoveryInv, Shaped
<1> QED  BY <1>1, <1>2, WorkKeepsWorkInv, WorkKeepsSoundInv, WorkKeepsCompleteInv, WorkKeepsCacheInv
         DEF DiscoveryInv

\* Where the workers at the templates are after a step of one of them.
LEMMA OnlyOneMoves ==
    ASSUME NEW k \in AccountKeys, NEW s, WorkerStep("collect", k, s, {})
    PROVE  /\ AccountKeys' = AccountKeys /\ \A l : Here(l)' = Here(l)
           /\ at'["collect"][k] = s
           /\ \A l \in AccountKeys : l # k => at'["collect"][l] = at["collect"][l]
<1>1. AccountKeys' = AccountKeys /\ \A l : Here(l)' = Here(l)
  BY SameWorld DEF WorkerStep
<1> QED  BY <1>1 DEF WorkerStep, Advances, Jobs

\* What a template's owner has not done is in the list.
LEMMA ListTemplatesKeeps ==
    ASSUME DiscoveryInv, NEW k \in AccountKeys, NEW ok \in BOOLEAN, ListTemplates(k, ok)
    PROVE  DiscoveryInv'
<1> DEFINE s == IF ok THEN "look" ELSE "result"
<1>1. WorkerStep("collect", k, s, {})
  BY ListTemplatesIsWork
<1>2. UNCHANGED <<cache, version, durationCache, reading, raced>>
  BY DEF ListTemplates
<1>3. Shaped
  BY DEF DiscoveryInv
<1>4. CASE ok
  <2>1. /\ listed' = [listed EXCEPT ![k] = [r \in Here(k) |-> version[r]]]
        /\ shown' = [shown EXCEPT ![k] = <<>>]
    BY <1>4 DEF ListTemplates
  <2>2. /\ listed' = [l \in AccountKeys |-> listed'[l]] /\ shown' = [l \in AccountKeys |-> shown'[l]]
        /\ DOMAIN listed'[k] = Here(k) /\ (\A r \in Here(k) : listed'[k][r] = version[r])
        /\ DOMAIN shown'[k] = {}
        /\ \A l \in AccountKeys : l # k => listed'[l] = listed[l] /\ shown'[l] = shown[l]
    <3> DEFINE new == [r \in Here(k) |-> version[r]]
    <3>1. DOMAIN new = Here(k) /\ \A r \in Here(k) : new[r] = version[r]
      OBVIOUS
    <3> HIDE DEF new
    <3>2. /\ listed' = [l \in AccountKeys |-> listed'[l]] /\ listed'[k] = new
          /\ \A l \in AccountKeys : l # k => listed'[l] = listed[l]
      <4>1. listed' = [listed EXCEPT ![k] = new]
        BY <2>1 DEF new
      <4> QED  BY <1>3, <4>1 DEF Shaped
    <3>3. /\ shown' = [l \in AccountKeys |-> shown'[l]] /\ shown'[k] = <<>>
          /\ \A l \in AccountKeys : l # k => shown'[l] = shown[l]
      BY <1>3, <2>1 DEF Shaped
    <3>4. DOMAIN shown'[k] = {}
      BY <3>3
    <3> QED  BY <3>1, <3>2, <3>3, <3>4
  <2>3. Here(k) \subseteq Resources /\ \A r \in Resources : version[r] \in Nat
    BY <1>3 DEF Here, Shaped
  <2>4. /\ AccountKeys' = AccountKeys /\ (\A l : Here(l)' = Here(l)) /\ at'["collect"][k] = "look"
        /\ \A l \in AccountKeys : l # k => at'["collect"][l] = at["collect"][l]
    BY <1>1, <1>4, OnlyOneMoves
  <2>5. ListInv'
    BY <1>2, <2>2, <2>3, <2>4 DEF DiscoveryInv, ListInv
  <2>6. FreshInv'
    BY <1>2, <2>2, <2>3, <2>4 DEF DiscoveryInv, FreshInv
  <2> HIDE DEF s
  <2> QED  BY <1>1, <1>2, <1>3, <2>2, <2>5, <2>6, TemplateWork DEF Shaped
<1>5. CASE ~ok
  <2>1. UNCHANGED <<cache, fis>> /\ s = "result"
    BY <1>2, <1>5 DEF fis, ListTemplates
  <2> HIDE DEF s
  <2> QED  BY <1>1, <2>1, QuietWork DEF Jobs
<1> QED  BY <1>4, <1>5

\* The duration of a template is shown.
LEMMA ShownAfter ==
    ASSUME Shaped, NEW k \in AccountKeys, NEW r, NEW n, Show(k, r, n)
    PROVE  /\ shown' = [l \in AccountKeys |-> shown'[l]]
           /\ DOMAIN shown'[k] = {r} \cup DOMAIN shown[k]
           /\ shown'[k][r].of = n /\ shown'[k][r].total = CalculateTotalDuration(Actions(r, n))
           /\ \A q \in DOMAIN shown[k] : q # r => shown'[k][q] = shown[k][q]
           /\ \A l \in AccountKeys : l # k => shown'[l] = shown[l]
<1> DEFINE entry == [of |-> n, total |-> CalculateTotalDuration(Actions(r, n))]
<1>1. entry.of = n /\ entry.total = CalculateTotalDuration(Actions(r, n))
  OBVIOUS
<1> HIDE DEF entry
<1>2. shown' = [shown EXCEPT ![k] = Put(shown[k], r, entry)]
  BY DEF Show, entry
<1>3. /\ shown' = [l \in AccountKeys |-> shown'[l]]
      /\ shown'[k] = Put(shown[k], r, entry)
      /\ \A l \in AccountKeys : l # k => shown'[l] = shown[l]
  BY <1>2 DEF Shaped
<1> QED  BY <1>1, <1>3 DEF Put

\* An entry of the cache is used, or the template is read.
LEMMA LookUpKeeps ==
    ASSUME DiscoveryInv, NEW k \in AccountKeys, LookUp(k)
    PROVE  DiscoveryInv'
<1>1. PICK s \in {"look", "get"} : WorkerStep("collect", k, s, {})
  BY LookUpIsWork
<1>2. /\ UNCHANGED <<cache, version, durationCache, listed, raced>> /\ at["collect"][k] = "look"
      /\ listed = [l \in AccountKeys |-> listed[l]]
  BY DEF LookUp, DiscoveryInv, Shaped
<1>3. Shaped
  BY DEF DiscoveryInv
<1>4. /\ AccountKeys' = AccountKeys /\ (\A l : Here(l)' = Here(l)) /\ at'["collect"][k] = s
      /\ \A l \in AccountKeys : l # k => at'["collect"][l] = at["collect"][l]
  BY <1>1, OnlyOneMoves
<1>5. PICK r \in Unread(k) :
        IF Cached(r, listed[k][r])
        THEN Show(k, r, durationCache[r].of) /\ UNCHANGED <<at, reading>>
        ELSE /\ at' = [at EXCEPT !["collect"][k] = "get"]
             /\ reading' = [reading EXCEPT ![k] = r]
             /\ UNCHANGED shown
  BY DEF LookUp
<1>6. r \in DOMAIN listed[k] /\ r \notin DOMAIN shown[k]
  BY DEF Unread
<1>7. CASE Cached(r, listed[k][r])
  <2>1. Show(k, r, durationCache[r].of) /\ UNCHANGED <<at, reading>>
    BY <1>5, <1>7
  <2>2. at'["collect"][k] = "look"
    BY <1>2, <2>1
  <2>3. /\ shown' = [l \in AccountKeys |-> shown'[l]]
        /\ DOMAIN shown'[k] = {r} \cup DOMAIN shown[k]
        /\ shown'[k][r].of = durationCache[r].of
        /\ \A q \in DOMAIN shown[k] : q # r => shown'[k][q] = shown[k][q]
        /\ \A l \in AccountKeys : l # k => shown'[l] = shown[l]
    BY <1>3, <2>1, ShownAfter
  <2>4. reading' = [l \in AccountKeys |-> reading'[l]]
    BY <1>3, <1>4, <2>1 DEF Shaped
  <2>5. ListInv'
    BY <1>2, <1>4, <1>6, <2>1, <2>2, <2>3 DEF DiscoveryInv, ListInv
  <2>6. ~raced => durationCache[r].of \in Nat /\ durationCache[r].of >= listed[k][r]
    BY <1>7 DEF Cached, DiscoveryInv, FreshInv
  <2>7. FreshInv'
    BY <1>2, <1>4, <1>6, <2>1, <2>2, <2>3, <2>6 DEF DiscoveryInv, FreshInv
  <2> QED  BY <1>1, <1>2, <2>3, <2>4, <2>5, <2>7, TemplateWork
<1>8. CASE ~Cached(r, listed[k][r])
  <2>1. at' = [at EXCEPT !["collect"][k] = "get"] /\ reading' = [reading EXCEPT ![k] = r] /\ shown' = shown
    BY <1>5, <1>8
  <2>2. at'["collect"][k] = "get"
    BY <1>3, <2>1 DEF Shaped, Jobs
  <2>3. /\ reading' = [l \in AccountKeys |-> reading'[l]]
        /\ reading'[k] = r /\ \A l \in AccountKeys : l # k => reading'[l] = reading[l]
    BY <1>3, <2>1 DEF Shaped
  <2>4. ListInv'
    BY <1>2, <1>4, <1>6, <2>1, <2>2, <2>3 DEF DiscoveryInv, ListInv
  <2>5. FreshInv'
    BY <1>2, <1>4, <1>6, <2>1, <2>2, <2>3 DEF DiscoveryInv, FreshInv
  <2>6. shown = [l \in AccountKeys |-> shown[l]]
    BY <1>3 DEF Shaped
  <2> QED  BY <1>1, <1>2, <2>1, <2>3, <2>4, <2>5, <2>6, TemplateWork
<1> QED  BY <1>7, <1>8

\* What is read is the version of now.
LEMMA GetTemplateKeeps ==
    ASSUME DiscoveryInv, NEW k \in AccountKeys, NEW ok \in BOOLEAN, GetTemplate(k, ok)
    PROVE  DiscoveryInv'
<1> DEFINE s == IF ok THEN "store" ELSE "result"
<1>1. WorkerStep("collect", k, s, {})
  BY GetTemplateIsWork
<1>2. UNCHANGED <<cache, version, durationCache, reading, listed, raced>> /\ at["collect"][k] = "get"
  BY DEF GetTemplate
<1>3. Shaped
  BY DEF DiscoveryInv
<1>4. CASE ok
  <2>1. /\ shown' = [l \in AccountKeys |-> shown'[l]]
        /\ DOMAIN shown'[k] = {reading[k]} \cup DOMAIN shown[k]
        /\ shown'[k][reading[k]].of = version[reading[k]]
        /\ \A q \in DOMAIN shown[k] : q # reading[k] => shown'[k][q] = shown[k][q]
        /\ \A l \in AccountKeys : l # k => shown'[l] = shown[l]
    BY <1>3, <1>4, ShownAfter DEF GetTemplate
  <2>2. /\ reading[k] \in DOMAIN listed[k] /\ reading[k] \in Resources
        /\ listed[k][reading[k]] <= version[reading[k]] /\ version[reading[k]] \in Nat
        /\ listed[k][reading[k]] \in Nat
    BY <1>2, <1>3 DEF DiscoveryInv, ListInv, Shaped
  <2>3. /\ AccountKeys' = AccountKeys /\ (\A l : Here(l)' = Here(l)) /\ at'["collect"][k] = "store"
        /\ \A l \in AccountKeys : l # k => at'["collect"][l] = at["collect"][l]
    BY <1>1, <1>4, OnlyOneMoves
  <2>4. ListInv'
    BY <1>2, <2>1, <2>2, <2>3 DEF DiscoveryInv, ListInv
  <2>5. FreshInv'
    BY <1>2, <2>1, <2>2, <2>3 DEF DiscoveryInv, FreshInv
  <2>6. reading = [l \in AccountKeys |-> reading[l]] /\ listed = [l \in AccountKeys |-> listed[l]]
    BY <1>3 DEF Shaped
  <2> HIDE DEF s
  <2> QED  BY <1>1, <1>2, <2>1, <2>4, <2>5, <2>6, TemplateWork
<1>5. CASE ~ok
  <2>1. UNCHANGED <<cache, fis>> /\ s = "result"
    BY <1>2, <1>5 DEF fis, GetTemplate
  <2> HIDE DEF s
  <2> QED  BY <1>1, <2>1, QuietWork DEF Jobs
<1> QED  BY <1>4, <1>5

\* The entry is called as old as its storing, which is true if nobody has changed
\* the template since it was read.
LEMMA StoreDurationKeeps ==
    ASSUME DiscoveryInv, NEW k \in AccountKeys, StoreDuration(k)
    PROVE  DiscoveryInv'
<1>1. WorkerStep("collect", k, "look", {})
  BY StoreDurationIsWork
<1>2. UNCHANGED <<cache, version, reading, listed, shown, raced>> /\ at["collect"][k] = "store"
  BY DEF StoreDuration
<1>3. Shaped
  BY DEF DiscoveryInv
<1>4. /\ AccountKeys' = AccountKeys /\ (\A l : Here(l)' = Here(l)) /\ at'["collect"][k] = "look"
      /\ \A l \in AccountKeys : l # k => at'["collect"][l] = at["collect"][l]
  BY <1>1, OnlyOneMoves
<1>5. ListInv'
  BY <1>2, <1>4 DEF DiscoveryInv, ListInv
<1>6. FreshInv'
  <2>1. /\ DOMAIN durationCache' = {reading[k]} \cup DOMAIN durationCache
        /\ durationCache'[reading[k]].of = shown[k][reading[k]].of
        /\ durationCache'[reading[k]].created = version[reading[k]]
        /\ \A q \in DOMAIN durationCache : q # reading[k] => durationCache'[q] = durationCache[q]
    BY DEF StoreDuration, Put
  <2>2. ~raced => /\ shown[k][reading[k]].of = version[reading[k]]
                  /\ version[reading[k]] \in Nat
    BY <1>2, <1>3 DEF DiscoveryInv, FreshInv, ListInv, Shaped
  <2> QED  BY <1>2, <1>4, <2>1, <2>2 DEF DiscoveryInv, FreshInv
<1>7. /\ reading = [l \in AccountKeys |-> reading[l]] /\ listed = [l \in AccountKeys |-> listed[l]]
      /\ shown = [l \in AccountKeys |-> shown[l]]
  BY <1>3 DEF Shaped
<1> QED  BY <1>1, <1>2, <1>5, <1>6, <1>7, TemplateWork

\* A worker's step.
LEMMA SupplierKeeps ==
    ASSUME DiscoveryInv, Alive, NEW k \in AccountKeys, SupplierStep(k)
    PROVE  DiscoveryInv'
<1>1. CASE \E j \in Jobs, ok \in BOOLEAN : InitZonesCache(j, k, ok) \/ InitVpcCache(j, k, ok)
  BY <1>1, ZonesKeep, VpcsKeep
<1>2. CASE ReadZones(k)
  <2>1. PICK T : WorkerStep("refresh", k, "result", T)
    BY <1>2, ReadZonesIsWork
  <2>2. UNCHANGED <<cache, fis>>
    BY <1>2 DEF ReadZones
  <2> QED  BY <2>1, <2>2, QuietWork DEF Jobs
<1>3. CASE Collect(k)
  <2>1. PICK T : WorkerStep("collect", k, "result", T)
    BY <1>3, CollectIsWork
  <2>2. UNCHANGED <<cache, fis>>
    BY <1>3 DEF Collect
  <2> QED  BY <2>1, <2>2, QuietWork DEF Jobs
<1>4. CASE \E ok \in BOOLEAN : ListTemplates(k, ok) \/ GetTemplate(k, ok)
  BY <1>4, ListTemplatesKeeps, GetTemplateKeeps
<1>5. CASE LookUp(k)
  BY <1>5, LookUpKeeps
<1>6. CASE StoreDuration(k)
  BY <1>6, StoreDurationKeeps
<1>7. CASE FinishTemplates(k)
  <2>1. PICK T : WorkerStep("collect", k, "result", T)
    BY <1>7, FinishTemplatesIsWork
  <2>2. UNCHANGED <<cache, fis>>
    BY <1>7 DEF FinishTemplates
  <2> QED  BY <2>1, <2>2, QuietWork DEF Jobs
<1> QED  BY <1>1, <1>2, <1>3, <1>4, <1>5, <1>6, <1>7 DEF SupplierStep

\* A worker takes an access.
LEMMA TakeKeeps ==
    ASSUME DiscoveryInv, NEW j \in Jobs, NEW k \in AccountKeys, Take(j, k)
    PROVE  DiscoveryInv'
<1>1. WorkerStep(j, k, FirstStep(j), {})
  BY TakeIsWork
<1>2. UNCHANGED <<cache, fis>>
  BY DEF Take
<1>3. /\ j = "boot" => FirstStep(j) = "zones"
      /\ FirstStep(j) \notin {"look", "get", "store"}
  BY DEF FirstStep
<1> QED  BY <1>1, <1>2, <1>3, QuietWork

\* The answer of a job is all that its workers have found.
LEMMA AnswerKeeps ==
    ASSUME DiscoveryInv, Alive, NEW j \in Jobs, Answer(j)
    PROVE  DiscoveryInv'
<1>1. UNCHANGED <<scenario, accounts, cache, at, found, round, failures>>
      /\ UNCHANGED <<version, durationCache, reading, listed, shown, raced>>
  BY DEF Answer, fis
<1>2. /\ AccountKeys' = AccountKeys /\ (Configured' <=> Configured)
      /\ ReportingJob' = ReportingJob /\ Registered' = Registered
      /\ \A k : Here(k)' = Here(k)
      /\ \A k : Owed(k)' = Owed(k)
      /\ (CutShort' <=> CutShort)
      /\ \A k, t : Sound(k, FalseClaims, t)' <=> Sound(k, FalseClaims', t)
  BY <1>1, SameWorld
<1>3. FalseClaims' = FalseClaims
  BY <1>1 DEF FalseClaims
<1>4. /\ running' = running \ {j}
      /\ answer' = [answer EXCEPT ![j] = UNION {found[j][k] : k \in AccountKeys}]
      /\ stage' = IF j = "boot" THEN "serving" ELSE stage
      /\ \A k \in AccountKeys : at[j][k] = "result"
      /\ j \in running
  BY DEF Answer
<1>5. answer' = [i \in Jobs |-> answer'[i]]
  BY <1>4 DEF DiscoveryInv, Shaped
<1>6. /\ answer'[j] = UNION {found[j][k] : k \in AccountKeys}
      /\ \A i \in Jobs : i # j => answer'[i] = answer[i]
  BY <1>4 DEF DiscoveryInv, Shaped
<1>7. Shaped'
  <2>1. stage' \in {"configuring", "caching", "serving", "fatal"}
    BY <1>4 DEF DiscoveryInv, Shaped
  <2>2. running' \subseteq Jobs
    BY <1>4 DEF DiscoveryInv, Shaped
  <2>3. {Place(accounts'[l]) : l \in AccountKeys'} = {Place(accounts[l]) : l \in AccountKeys}
    BY <1>1, <1>2
  <2> QED  BY <1>1, <1>2, <1>5, <2>1, <2>2, <2>3 DEF DiscoveryInv, Shaped
<1>8. WorkInv'
  <2>1. \A i \in Jobs : Busy(i)' = Busy(i)
    BY <1>1, <1>2 DEF Busy
  <2>2. /\ stage' # "configuring" /\ (stage' = "caching" => stage = "caching")
        /\ stage' = "serving" => stage = "serving" \/ j = "boot"
    BY <1>4 DEF Alive
  <2>3. running' \subseteq running
    BY <1>4
  <2> QED  BY <1>1, <1>2, <1>4, <2>1, <2>2, <2>3 DEF DiscoveryInv, WorkInv
<1>9. CacheInv'
  BY <1>1, <1>2 DEF DiscoveryInv, CacheInv
<1>10. SoundInv'
  <2>1. ASSUME NEW i \in Jobs, NEW t \in answer'[i]
        PROVE  \E k \in AccountKeys : Sound(k, FalseClaims, t)
    <3>1. CASE i = j
      <4>1. PICK k \in AccountKeys : t \in found[j][k]
        BY <1>6, <2>1, <3>1
      <4> QED  BY <4>1 DEF DiscoveryInv, SoundInv
    <3>2. CASE i # j
      BY <1>6, <2>1, <3>2 DEF DiscoveryInv, SoundInv
    <3> QED  BY <3>1, <3>2
  <2> QED  BY <1>1, <1>2, <1>3, <2>1 DEF DiscoveryInv, SoundInv
<1>11. CompleteInv'
  <2>1. ReportingJob \in Jobs
    BY DEF ReportingJob, Jobs
  <2>2. ASSUME failures = 0, ~CutShort, round[ReportingJob] > 0, ReportingJob \notin running',
               NEW k \in AccountKeys
        PROVE  Owed(k) \subseteq answer'[ReportingJob]
    <3>1. CASE ReportingJob = j
      <4>1. Owed(k) \subseteq found[j][k]
        BY <1>4, <2>2, <3>1 DEF DiscoveryInv, CompleteInv
      <4> QED  BY <1>6, <3>1, <4>1
    <3>2. CASE ReportingJob # j
      BY <1>4, <1>6, <2>1, <2>2, <3>2 DEF DiscoveryInv, CompleteInv
    <3> QED  BY <3>1, <3>2
  <2> QED  BY <1>1, <1>2, <2>2 DEF DiscoveryInv, CompleteInv
<1>12. ListInv'
  BY <1>1, <1>2 DEF DiscoveryInv, ListInv
<1>13. FreshInv'
  BY <1>1, <1>2 DEF DiscoveryInv, FreshInv
<1> QED  BY <1>7, <1>8, <1>9, <1>10, <1>11, <1>12, <1>13 DEF DiscoveryInv

\* A round begins: all accesses are queued.
LEMMA BeginKeeps ==
    ASSUME DiscoveryInv, NEW j \in Jobs, Begin(j)
    PROVE  DiscoveryInv'
<1>1. UNCHANGED <<scenario, stage, accounts, cache, answer, failures>>
      /\ UNCHANGED <<version, durationCache, reading, listed, shown, raced>>
  BY DEF Begin, fis
<1>2. /\ AccountKeys' = AccountKeys /\ (Configured' <=> Configured)
      /\ ReportingJob' = ReportingJob /\ Registered' = Registered
      /\ \A k : Here(k)' = Here(k)
      /\ \A k : Owed(k)' = Owed(k)
      /\ (CutShort' <=> CutShort)
      /\ \A k, t : Sound(k, FalseClaims, t)' <=> Sound(k, FalseClaims', t)
  BY <1>1, SameWorld
<1>3. FalseClaims' = FalseClaims
  BY <1>1 DEF FalseClaims
<1>4. stage = "serving" /\ j \in Registered /\ j # "boot" /\ running' = running \cup {j}
  BY DEF Begin, Registered
<1>5. /\ at' = [i \in Jobs |-> [l \in AccountKeys |-> at'[i][l]]]
      /\ \A l \in AccountKeys : at'[j][l] = "queued"
      /\ \A i \in Jobs : i # j => \A l \in AccountKeys : at'[i][l] = at[i][l]
  <2>1. at' = [at EXCEPT ![j] = [l \in AccountKeys |-> "queued"]]
    BY DEF Begin
  <2> QED  BY <2>1 DEF DiscoveryInv, Shaped
<1>6. /\ found' = [i \in Jobs |-> [l \in AccountKeys |-> found'[i][l]]]
      /\ \A l \in AccountKeys : found'[j][l] = {}
      /\ \A i \in Jobs : i # j => \A l \in AccountKeys : found'[i][l] = found[i][l]
  <2>1. found' = [found EXCEPT ![j] = [l \in AccountKeys |-> {}]]
    BY DEF Begin
  <2> QED  BY <2>1 DEF DiscoveryInv, Shaped
<1>7. round' \in [Jobs -> Nat] /\ \A i \in Jobs : i # j => round'[i] = round[i]
  BY DEF Begin, DiscoveryInv, Shaped
<1>8. Shaped'
  <2>1. running' \subseteq Jobs
    BY <1>4 DEF DiscoveryInv, Shaped
  <2>2. {Place(accounts'[l]) : l \in AccountKeys'} = {Place(accounts[l]) : l \in AccountKeys}
    BY <1>1, <1>2
  <2> QED  BY <1>1, <1>2, <1>5, <1>6, <1>7, <2>1, <2>2 DEF DiscoveryInv, Shaped
<1>9. WorkInv'
  <2>1. \A i \in Jobs : Cardinality(Busy(i)') <= scenario.workers
    <3>1. Busy(j)' = {}
      BY <1>2, <1>5 DEF Busy
    <3>2. scenario.workers \in Nat
      BY ScenariosAssumption DEF DiscoveryInv, Shaped
    <3>3. Cardinality(Busy(j)') <= scenario.workers
      BY <3>1, <3>2, FS_EmptySet
    <3>4. \A i \in Jobs : i # j => Busy(i)' = Busy(i)
      BY <1>2, <1>5 DEF Busy
    <3> QED  BY <3>3, <3>4 DEF DiscoveryInv, WorkInv
  <2>2. \A i \in Jobs : "queued" \in StepsOf(i)
    BY DEF StepsOf
  <2>3. ASSUME NEW l \in AccountKeys
        PROVE  /\ \A i \in Jobs :
                    /\ at'[i][l] \in StepsOf(i)
                    /\ at'[i][l] # "result" => found'[i][l] = {}
               /\ found'["boot"][l] = {}
               /\ at'["boot"][l] = "result"
               /\ at'["collect"][l] = "collect" => scenario.kind \notin {"zone", "template"}
               /\ at'["collect"][l] \in {"list", "look", "get", "store"} => scenario.kind = "template"
    <3>1. \A i \in Jobs : at'[i][l] \in StepsOf(i) /\ (at'[i][l] # "result" => found'[i][l] = {})
      <4> SUFFICES ASSUME NEW i \in Jobs
                   PROVE  at'[i][l] \in StepsOf(i) /\ (at'[i][l] # "result" => found'[i][l] = {})
        OBVIOUS
      <4>1. CASE i = j
        BY <1>5, <1>6, <2>2, <4>1
      <4>2. CASE i # j
        BY <1>5, <1>6, <4>2 DEF DiscoveryInv, WorkInv
      <4> QED  BY <4>1, <4>2
    <3>2. found'["boot"][l] = {} /\ at'["boot"][l] = "result"
      BY <1>4, <1>5, <1>6 DEF DiscoveryInv, WorkInv, Jobs
    <3>3. /\ at'["collect"][l] = "collect" => scenario.kind \notin {"zone", "template"}
          /\ at'["collect"][l] \in {"list", "look", "get", "store"} => scenario.kind = "template"
      BY <1>5 DEF DiscoveryInv, WorkInv, Jobs
    <3> QED  BY <3>1, <3>2, <3>3
  <2>4. running' \subseteq {"boot"} \cup Registered
    BY <1>4 DEF DiscoveryInv, WorkInv
  <2> QED  BY <1>1, <1>2, <1>4, <2>1, <2>3, <2>4 DEF WorkInv
<1>10. CacheInv'
  BY <1>1, <1>2, <1>4, <1>5 DEF DiscoveryInv, CacheInv, Jobs
<1>11. SoundInv'
  <2>1. \A i \in Jobs, l \in AccountKeys : found'[i][l] = {} \/ found'[i][l] = found[i][l]
    BY <1>6
  <2> QED  BY <1>1, <1>2, <1>3, <2>1 DEF DiscoveryInv, SoundInv
<1>12. CompleteInv'
  <2>1. ReportingJob \in Jobs
    BY DEF ReportingJob, Jobs
  <2>2. ASSUME failures = 0, ~CutShort, NEW k \in AccountKeys, at'[ReportingJob][k] = "result"
        PROVE  Owed(k) \subseteq found'[ReportingJob][k]
    BY <1>5, <1>6, <2>1, <2>2 DEF DiscoveryInv, CompleteInv
  <2>3. ASSUME failures = 0, ~CutShort, round'[ReportingJob] > 0, ReportingJob \notin running',
               NEW k \in AccountKeys
        PROVE  Owed(k) \subseteq answer[ReportingJob]
    BY <1>4, <1>7, <2>1, <2>3 DEF DiscoveryInv, CompleteInv
  <2> QED  BY <1>1, <1>2, <2>2, <2>3 DEF DiscoveryInv, CompleteInv
<1>13. \A l \in AccountKeys : at'["collect"][l] \in {"look", "get", "store"} => at'["collect"][l] = at["collect"][l]
  BY <1>5 DEF Jobs
<1>14. ListInv'
  BY <1>1, <1>2, <1>13 DEF DiscoveryInv, ListInv
<1>15. FreshInv'
  BY <1>1, <1>2, <1>13 DEF DiscoveryInv, FreshInv
<1> QED  BY <1>8, <1>9, <1>10, <1>11, <1>12, <1>14, <1>15 DEF DiscoveryInv

\* The end of the process.
LEMMA StageKeeps ==
    ASSUME DiscoveryInv, stage' = "fatal" \/ stage' = stage,
           UNCHANGED <<scenario, accounts, cache, pool, failures, fis>>
    PROVE  DiscoveryInv'
<1>1. /\ UNCHANGED <<scenario, accounts, cache, at, found, answer, round, running, failures>>
      /\ UNCHANGED <<version, durationCache, reading, listed, shown, raced>>
  BY DEF pool, fis
<1>2. /\ AccountKeys' = AccountKeys /\ (Configured' <=> Configured)
      /\ ReportingJob' = ReportingJob /\ Registered' = Registered
      /\ \A k : Here(k)' = Here(k)
      /\ \A k : Owed(k)' = Owed(k)
      /\ (CutShort' <=> CutShort)
      /\ \A k, t : Sound(k, FalseClaims, t)' <=> Sound(k, FalseClaims', t)
  BY <1>1, SameWorld
<1>3. FalseClaims' = FalseClaims
  BY <1>1 DEF FalseClaims
<1>4. Shaped'
  <2>1. {Place(accounts'[l]) : l \in AccountKeys'} = {Place(accounts[l]) : l \in AccountKeys}
    BY <1>1, <1>2
  <2>2. stage' \in {"configuring", "caching", "serving", "fatal"}
    BY DEF DiscoveryInv, Shaped
  <2> QED  BY <1>1, <1>2, <2>1, <2>2 DEF DiscoveryInv, Shaped
<1>5. WorkInv'
  <2>1. \A i \in Jobs : Busy(i)' = Busy(i)
    BY <1>1, <1>2 DEF Busy
  <2> QED  BY <1>1, <1>2, <2>1 DEF DiscoveryInv, WorkInv
<1>6. CacheInv'
  BY <1>1, <1>2 DEF DiscoveryInv, CacheInv
<1>7. SoundInv'
  BY <1>1, <1>2, <1>3 DEF DiscoveryInv, SoundInv
<1>8. CompleteInv'
  BY <1>1, <1>2 DEF DiscoveryInv, CompleteInv
<1>9. ListInv'
  BY <1>1, <1>2 DEF DiscoveryInv, ListInv
<1>10. FreshInv'
  BY <1>1, <1>2 DEF DiscoveryInv, FreshInv
<1> QED  BY <1>4, <1>5, <1>6, <1>7, <1>8, <1>9, <1>10 DEF DiscoveryInv

\* A template changes.
LEMMA UpdateTemplateKeeps ==
    ASSUME DiscoveryInv, NEW r \in Resources, UpdateTemplate(r)
    PROVE  DiscoveryInv'
<1>1. /\ UNCHANGED <<scenario, stage, accounts, cache, at, found, answer, round, running, failures>>
      /\ UNCHANGED <<durationCache, reading, listed, shown>>
  BY DEF UpdateTemplate, pool
<1>2. /\ AccountKeys' = AccountKeys /\ (Configured' <=> Configured)
      /\ ReportingJob' = ReportingJob /\ Registered' = Registered
      /\ \A k : Here(k)' = Here(k)
      /\ \A k : Owed(k)' = Owed(k)
      /\ (CutShort' <=> CutShort)
      /\ \A k, t : Sound(k, FalseClaims, t)' <=> Sound(k, FalseClaims', t)
  BY <1>1, SameWorld
<1>3. FalseClaims' = FalseClaims
  BY <1>1 DEF FalseClaims
<1>4. /\ version' \in [Resources -> Nat]
      /\ \A q \in Resources : version'[q] >= version[q] /\ (q # r => version'[q] = version[q])
  <2>1. version' = [version EXCEPT ![r] = @ + 1] /\ version \in [Resources -> Nat]
    BY DEF UpdateTemplate, DiscoveryInv, Shaped
  <2> QED  BY <2>1
<1>5. /\ raced' \in BOOLEAN
      /\ ~raced' => ~raced /\ \A k \in AccountKeys : at["collect"][k] = "store" => reading[k] # r
  BY DEF UpdateTemplate, DiscoveryInv, Shaped
<1>6. Shaped'
  <2>1. {Place(accounts'[l]) : l \in AccountKeys'} = {Place(accounts[l]) : l \in AccountKeys}
    BY <1>1, <1>2
  <2> QED  BY <1>1, <1>2, <1>4, <1>5, <2>1 DEF DiscoveryInv, Shaped
<1>7. WorkInv'
  <2>1. \A i \in Jobs : Busy(i)' = Busy(i)
    BY <1>1, <1>2 DEF Busy
  <2> QED  BY <1>1, <1>2, <2>1 DEF DiscoveryInv, WorkInv
<1>8. CacheInv'
  BY <1>1, <1>2 DEF DiscoveryInv, CacheInv
<1>9. SoundInv'
  BY <1>1, <1>2, <1>3 DEF DiscoveryInv, SoundInv
<1>10. CompleteInv'
  BY <1>1, <1>2 DEF DiscoveryInv, CompleteInv
<1>11. ListInv'
  <2>1. ASSUME NEW k \in AccountKeys
        PROVE  /\ DOMAIN listed[k] \subseteq Resources /\ DOMAIN shown[k] \subseteq DOMAIN listed[k]
               /\ \A q \in DOMAIN listed[k] : listed[k][q] \in Nat /\ listed[k][q] <= version'[q]
    <3>1. DOMAIN listed[k] \subseteq Resources /\ DOMAIN shown[k] \subseteq DOMAIN listed[k]
      BY DEF DiscoveryInv, ListInv
    <3>2. ASSUME NEW q \in DOMAIN listed[k] PROVE listed[k][q] \in Nat /\ listed[k][q] <= version'[q]
      <4>1. listed[k][q] \in Nat /\ listed[k][q] <= version[q] /\ q \in Resources
        BY DEF DiscoveryInv, ListInv
      <4>2. version[q] \in Nat /\ version'[q] \in Nat /\ version'[q] >= version[q]
        BY <1>4, <4>1 DEF DiscoveryInv, Shaped
      <4> QED  BY <4>1, <4>2
    <3> QED  BY <3>1, <3>2
  <2> QED  BY <1>1, <1>2, <2>1 DEF DiscoveryInv, ListInv
<1>12. FreshInv'
  <2>1. ASSUME ~raced', NEW k \in AccountKeys, at["collect"][k] = "store"
        PROVE  shown[k][reading[k]].of = version'[reading[k]]
    <3>1. shown[k][reading[k]].of = version[reading[k]] /\ reading[k] \in Resources /\ reading[k] # r
      BY <1>5, <2>1 DEF DiscoveryInv, FreshInv, ListInv
    <3> QED  BY <1>4, <3>1
  <2> QED  BY <1>1, <1>2, <1>5, <2>1 DEF DiscoveryInv, FreshInv
<1> QED  BY <1>6, <1>7, <1>8, <1>9, <1>10, <1>11, <1>12 DEF DiscoveryInv

\* Nothing has been done when the configuration has just been read.
LEMMA ConfigureKeeps ==
    ASSUME DiscoveryInv, Configure
    PROVE  DiscoveryInv'
<1> DEFINE config == ParseConfiguration(scenario.spec)
<1>1. PICK failing \in SUBSET {role.arn : role \in Items(config.roles)} :
        LET map == AccountsMap(InitializeAwsAccess(config, failing)) IN
        /\ Cardinality(failing) <= MaxFailures
        /\ failures' = Cardinality(failing)
        /\ accounts' = map
        /\ cache' = [p \in {Place(map[k]) : k \in DOMAIN map} |-> {}]
        /\ at' = [j \in Jobs |-> [k \in DOMAIN map |-> IF j = "boot" THEN "queued" ELSE "idle"]]
        /\ found' = [j \in Jobs |-> [k \in DOMAIN map |-> {}]]
        /\ reading' = [k \in DOMAIN map |-> Unset]
        /\ listed' = [k \in DOMAIN map |-> <<>>] /\ shown' = [k \in DOMAIN map |-> <<>>]
  BY DEF Configure
<1>2. /\ UNCHANGED <<scenario, answer, round, version, durationCache, raced>>
      /\ stage = "configuring" /\ stage' = "caching" /\ running' = {"boot"} /\ config.ok
  BY DEF Configure
<1>3. /\ accounts' = AccountsMap(InitializeAwsAccess(config, failing))
      /\ AccountKeys' = DOMAIN accounts'
  BY <1>1 DEF AccountKeys
<1>4. /\ cache' = [p \in {Place(accounts'[k]) : k \in AccountKeys'} |-> {}]
      /\ at' = [j \in Jobs |-> [k \in AccountKeys' |-> IF j = "boot" THEN "queued" ELSE "idle"]]
      /\ found' = [j \in Jobs |-> [k \in AccountKeys' |-> {}]]
      /\ reading' = [k \in AccountKeys' |-> Unset]
      /\ listed' = [k \in AccountKeys' |-> <<>>] /\ shown' = [k \in AccountKeys' |-> <<>>]
  BY <1>1, <1>3
<1>5. failures' \in 0 .. MaxFailures
  <2>1. scenario \in Scenarios
    BY DEF DiscoveryInv, Shaped
  <2>2. IsFiniteSet(DOMAIN config.roles)
    BY <2>1, ScenariosAssumption
  <2> DEFINE arns == {role.arn : role \in Items(config.roles)}
             f == [i \in DOMAIN config.roles |-> config.roles[i].arn]
  <2>3. f \in Surjection(DOMAIN config.roles, arns) \/ config.roles = Unset
    BY DEF Surjection, Items
  <2>4. IsFiniteSet(arns)
    BY <2>2, <2>3, FiniteImage, FS_EmptySet DEF Items
  <2>5. Cardinality(failing) \in Nat
    BY <2>4, FS_Subset, FS_CardinalityType
  <2> QED  BY <1>1, <2>5, ScenariosAssumption
<1>6. Configured'
  BY <1>2, <1>3 DEF Configured
<1> HIDE DEF config
<1>7. AccountKeys = {} /\ (\A j \in Jobs : answer[j] = {} /\ round[j] = 0)
  <2>1. AccountKeys = {}
    BY <1>2, NoKeys DEF DiscoveryInv, WorkInv
  <2> QED  BY <1>2, <2>1 DEF DiscoveryInv, WorkInv, SoundInv
<1>8. Shaped'
  <2>1. /\ at' = [j \in Jobs |-> [k \in AccountKeys' |-> at'[j][k]]]
        /\ found' = [j \in Jobs |-> [k \in AccountKeys' |-> found'[j][k]]]
    BY <1>4
  <2>2. /\ reading' = [k \in AccountKeys' |-> reading'[k]] /\ listed' = [k \in AccountKeys' |-> listed'[k]]
        /\ shown' = [k \in AccountKeys' |-> shown'[k]]
    BY <1>4
  <2>3. cache' \in [{Place(accounts'[k]) : k \in AccountKeys'} -> SUBSET {"zone", "vpc"}]
    BY <1>4
  <2>4. running' \subseteq Jobs /\ stage' \in {"configuring", "caching", "serving", "fatal"}
    BY <1>2 DEF Jobs
  <2>5. /\ scenario' \in Scenarios /\ answer' = [j \in Jobs |-> answer'[j]] /\ round' \in [Jobs -> Nat]
        /\ version' \in [Resources -> Nat] /\ raced' \in BOOLEAN
    BY <1>2 DEF DiscoveryInv, Shaped
  <2> QED  BY <1>5, <1>6, <2>1, <2>2, <2>3, <2>4, <2>5 DEF Shaped
<1>9. \A j \in Jobs, k \in AccountKeys' :
        found'[j][k] = {} /\ at'[j][k] = IF j = "boot" THEN "queued" ELSE "idle"
  BY <1>4
<1>10. WorkInv'
  <2>1. \A j \in Jobs : Cardinality(Busy(j)') <= scenario'.workers
    <3>1. \A j \in Jobs : Busy(j)' = {}
      BY <1>9 DEF Busy
    <3>2. scenario'.workers \in Nat
      BY <1>8, ScenariosAssumption DEF Shaped
    <3> QED  BY <3>1, <3>2, FS_EmptySet
  <2>2. "queued" \in StepsOf("boot") /\ "idle" \in StepsOf("refresh") /\ "idle" \in StepsOf("collect")
    BY DEF StepsOf
  <2>3. \A k \in AccountKeys' :
          /\ found'["boot"][k] = {} /\ found'["refresh"][k] = {} /\ found'["collect"][k] = {}
          /\ at'["boot"][k] = "queued" /\ at'["refresh"][k] = "idle" /\ at'["collect"][k] = "idle"
    BY <1>9 DEF Jobs
  <2>4. \A k \in AccountKeys', j \in Jobs : at'[j][k] \in StepsOf(j) /\ found'[j][k] = {}
    BY <2>2, <2>3 DEF Jobs
  <2> QED  BY <1>2, <2>1, <2>3, <2>4 DEF WorkInv
<1>11. CacheInv'
  <2>1. \A k \in AccountKeys' : cache'[Place(accounts'[k])] = {} /\ at'["boot"][k] = "queued"
    BY <1>4 DEF Jobs
  <2> QED  BY <2>1 DEF CacheInv
<1>12. SoundInv'
  BY <1>2, <1>7, <1>9 DEF SoundInv
<1>13. CompleteInv'
  <2>1. ReportingJob' \in Jobs \ {"boot"}
    BY DEF ReportingJob, Jobs
  <2>2. round'[ReportingJob'] = 0 /\ \A k \in AccountKeys' : at'[ReportingJob'][k] = "idle"
    BY <1>2, <1>7, <1>9, <2>1
  <2> QED  BY <2>2 DEF CompleteInv
<1>14. ListInv' /\ FreshInv'
  <2>1. \A k \in AccountKeys' : DOMAIN listed'[k] = {} /\ DOMAIN shown'[k] = {} /\ at'["collect"][k] = "idle"
    <3>1. \A k \in AccountKeys' : listed'[k] = <<>> /\ shown'[k] = <<>> /\ at'["collect"][k] = "idle"
      BY <1>4 DEF Jobs
    <3> QED  BY <3>1
  <2>2. ListInv'
    BY <2>1 DEF ListInv
  <2>3. FreshInv'
    BY <1>2, <2>1 DEF DiscoveryInv, FreshInv
  <2> QED  BY <2>2, <2>3
<1> QED  BY <1>8, <1>10, <1>11, <1>12, <1>13, <1>14 DEF DiscoveryInv

\* The start of the process.
LEMMA InitDiscovery == ASSUME DiscoveryInit PROVE DiscoveryInv
<1>1. AccountKeys = {} /\ Configured
  BY NoKeys DEF DiscoveryInit, Configured
<1>2. Shaped
  <2>1. at = [j \in Jobs |-> [k \in AccountKeys |-> at[j][k]]]
    BY <1>1 DEF DiscoveryInit
  <2>2. found = [j \in Jobs |-> [k \in AccountKeys |-> found[j][k]]]
    BY <1>1 DEF DiscoveryInit
  <2>3. /\ reading = [k \in AccountKeys |-> reading[k]] /\ listed = [k \in AccountKeys |-> listed[k]]
        /\ shown = [k \in AccountKeys |-> shown[k]]
    BY <1>1 DEF DiscoveryInit
  <2>4. cache \in [{Place(accounts[k]) : k \in AccountKeys} -> SUBSET {"zone", "vpc"}]
    BY <1>1 DEF DiscoveryInit
  <2>5. version \in [Resources -> Nat] /\ round \in [Jobs -> Nat] /\ answer = [j \in Jobs |-> answer[j]]
    BY DEF DiscoveryInit
  <2>6. /\ failures \in 0 .. MaxFailures /\ running \subseteq Jobs /\ raced \in BOOLEAN
        /\ scenario \in Scenarios /\ stage \in {"configuring", "caching", "serving", "fatal"}
    <3>1. 0 \in 0 .. MaxFailures
      BY ScenariosAssumption
    <3> QED  BY <3>1 DEF DiscoveryInit
  <2> QED  BY <1>1, <2>1, <2>2, <2>3, <2>4, <2>5, <2>6 DEF Shaped
<1>3. WorkInv
  <2>1. \A j \in Jobs : Busy(j) = {}
    BY <1>1 DEF Busy
  <2>2. scenario.workers \in Nat
    BY <1>2, ScenariosAssumption DEF Shaped
  <2>3. \A j \in Jobs : Cardinality(Busy(j)) <= scenario.workers
    BY <2>1, <2>2, FS_EmptySet
  <2> QED  BY <1>1, <2>3 DEF WorkInv, DiscoveryInit
<1>4. CacheInv
  BY <1>1 DEF CacheInv
<1>5. SoundInv
  BY <1>1 DEF SoundInv, DiscoveryInit
<1>6. CompleteInv
  BY <1>1 DEF CompleteInv
<1>7. ListInv
  BY <1>1 DEF ListInv
<1>8. FreshInv
  <2>1. DOMAIN durationCache = {}
    BY DEF DiscoveryInit
  <2> QED  BY <1>1, <2>1 DEF FreshInv
<1> QED  BY <1>2, <1>3, <1>4, <1>5, <1>6, <1>7, <1>8 DEF DiscoveryInv

\* Every step keeps the invariant.
LEMMA DiscoveryKeeps == ASSUME DiscoveryInv, [DiscoveryNext]_discoveryVars PROVE DiscoveryInv'
<1>1. CASE Refuse
  BY <1>1, StageKeeps DEF Refuse
<1>2. CASE Configure
  BY <1>2, ConfigureKeeps
<1>3. CASE PoolStep
  BY <1>3, SupplierKeeps, TakeKeeps, AnswerKeeps DEF PoolStep
<1>4. CASE \E j \in Jobs : Begin(j)
  BY <1>4, BeginKeeps
<1>5. CASE ConcurrentMapAccess
  BY <1>5, StageKeeps DEF ConcurrentMapAccess
<1>6. CASE \E r \in Resources : UpdateTemplate(r)
  BY <1>6, UpdateTemplateKeeps
<1>7. CASE UNCHANGED discoveryVars
  BY <1>7, StageKeeps DEF discoveryVars
<1> QED  BY <1>1, <1>2, <1>3, <1>4, <1>5, <1>6, <1>7 DEF DiscoveryNext

\* The invariant holds always.
THEOREM DiscoveryInvariant == DiscoverySpec => []DiscoveryInv
BY InitDiscovery, DiscoveryKeeps, PTL DEF DiscoverySpec

-----------------------------------------------------------------------------
(* Discovery: the properties                                               *)

\* Type correctness: the variables have the shape that the code gives them, and no
\* job has more workers than WorkerThreads at the accesses (aws_access.go:105).
THEOREM DiscoveryTypeCorrect == DiscoverySpec => []DiscoveryTypeOK
<1>1. DiscoveryInv => DiscoveryTypeOK
  <2> SUFFICES ASSUME DiscoveryInv PROVE DiscoveryTypeOK
    OBVIOUS
  <2>1. \A k \in DOMAIN accounts : k = <<accounts[k].account, accounts[k].region, accounts[k].role>>
    BY KeysAreConfigured DEF DiscoveryInv, Shaped, AccountKeys
  <2>2. cache \in [DOMAIN cache -> SUBSET {"zone", "vpc"}]
    BY DEF DiscoveryInv, Shaped
  <2>3. \A j \in Jobs : DOMAIN found[j] = AccountKeys /\ DOMAIN at[j] = AccountKeys
    BY DEF DiscoveryInv, Shaped
  <2>4. \A j \in Jobs :
          /\ Cardinality(Busy(j)) <= scenario.workers
          /\ \A k \in AccountKeys : at[j][k] # "result" => found[j][k] = {}
    BY DEF DiscoveryInv, WorkInv
  <2>5. /\ stage \in {"configuring", "caching", "serving", "fatal"} /\ running \subseteq Jobs
        /\ failures \in 0 .. MaxFailures /\ version \in [Resources -> Nat]
    BY DEF DiscoveryInv, Shaped
  <2> QED  BY <2>1, <2>2, <2>3, <2>4, <2>5 DEF DiscoveryTypeOK
<1> QED  BY <1>1, DiscoveryInvariant, PTL

\* A target of an answer was found by an access that is there.
LEMMA TargetHasAccess ==
    ASSUME DiscoveryInv, NEW t \in Targets
    PROVE  \E k \in AccountKeys :
             /\ Sound(k, FalseClaims, t)
             /\ GetAwsAccess(t.by.account, t.by.region, t.by.role) = accounts[k]
             /\ accounts[k] # Unset
<1>1. PICK k \in AccountKeys : Sound(k, FalseClaims, t)
  BY DEF DiscoveryInv, SoundInv, Targets, Jobs
<1>2. /\ t.by.account = accounts[k].account /\ t.by.region = accounts[k].region
      /\ t.by.role = accounts[k].role
  BY <1>1 DEF Sound
<1>3. /\ GetAwsAccess(accounts[k].account, accounts[k].region, accounts[k].role) = accounts[k]
      /\ accounts[k] # Unset
  BY AccessOfTarget, KeysAreConfigured DEF DiscoveryInv, Shaped
<1> QED  BY <1>1, <1>2, <1>3

\* An attack on a target that was reported acts with the access that found it and
\* on a resource that its filters select, whatever calls have failed.
THEOREM TargetsAreSound == DiscoverySpec => []SoundTargets
<1>1. DiscoveryInv => SoundTargets
  <2> SUFFICES ASSUME DiscoveryInv, NEW t \in Targets
               PROVE  LET access == GetAwsAccess(t.by.account, t.by.region, t.by.role) IN
                      /\ access # Unset
                      /\ Place(access) = scenario.home[t.of]
                      /\ Selected(t.of, access.filters) /\ Discoverable(t.of)
                      /\ t.shows \subseteq Promised[scenario.kind].shows
                             \cup IF failures = 0 THEN {} ELSE {"noScaling", "noTargets"}
    BY DEF SoundTargets
  <2>1. PICK k \in AccountKeys :
             /\ Sound(k, FalseClaims, t)
             /\ GetAwsAccess(t.by.account, t.by.region, t.by.role) = accounts[k]
             /\ accounts[k] # Unset
    BY TargetHasAccess
  <2> QED  BY <2>1 DEF Sound, Here, FalseClaims
<1> QED  BY <1>1, DiscoveryInvariant, PTL

\* If no call fails, the answer of a round has every resource that an access
\* selects, with all that there is to show.
THEOREM TargetsAreComplete == DiscoverySpec => []CompleteTargets
<1>1. DiscoveryInv => CompleteTargets
  BY DEF DiscoveryInv, CompleteInv, CompleteTargets
<1> QED  BY <1>1, DiscoveryInvariant, PTL

\* A duration is not older than the list, if no template was changed between being
\* read and being stored.
THEOREM DurationIsFresh == DiscoverySpec => []DurationFresh
<1>1. DiscoveryInv => DurationFresh
  <2> SUFFICES ASSUME DiscoveryInv, NEW k \in DOMAIN shown, NEW r \in DOMAIN shown[k]
               PROVE  raced \/ shown[k][r].of >= listed[k][r]
    BY DEF DurationFresh
  <2>1. k \in AccountKeys
    BY DEF DiscoveryInv, Shaped
  <2> QED  BY <2>1 DEF DiscoveryInv, FreshInv
<1> QED  BY <1>1, DiscoveryInvariant, PTL

\* The access of a role of the configuration: the role, one of its regions, its
\* filters.
LEMMA AccessOfRole ==
    ASSUME NEW config, NEW x \in InitializeAwsAccess(config, {}), config.roles # <<>>, config.roles # Unset
    PROVE  \E i \in DOMAIN config.roles :
             /\ x.role = config.roles[i].arn /\ x.account = config.roles[i].arn.account
             /\ x.region \in Items(config.roles[i].regions)
             /\ x.filters = OrElse(config.roles[i].filters, {})
<1>1. PICK role \in Items(config.roles) :
        x \in PrepareRegionConfigs(role.arn, role.arn.account, role.regions, role.filters)
  BY DEF InitializeAwsAccess
<1>2. PICK i \in DOMAIN config.roles : role = config.roles[i]
  BY DEF Items
<1>3. PICK region \in Items(role.regions) :
        x = [account |-> role.arn.account, region |-> region, role |-> role.arn,
             filters |-> OrElse(role.filters, {})]
  BY <1>1 DEF PrepareRegionConfigs
<1> HIDE DEF Items, OrElse
<1>4. /\ x.role = role.arn /\ x.account = role.arn.account /\ x.region = region
      /\ x.filters = OrElse(role.filters, {})
  BY <1>3
<1> QED  BY <1>2, <1>3, <1>4

\* A role has the filters that it is given, or those of the configuration.
LEMMA FiltersOfRole ==
    ASSUME NEW spec, NEW i \in DOMAIN ParseConfiguration(spec).roles
    PROVE  LET own == ParseConfiguration(spec).roles[i].filters IN
           \/ own = spec.tagFilters
           \/ \E role \in Items(spec.assumeRolesAdvanced) : own = role.filters
<1> DEFINE regions == IF Items(spec.regions) = {} THEN <<RootRegion>> ELSE spec.regions
           roles == TranslateToAssumeRolesAdvanced(spec, regions)
<1>1. ParseConfiguration(spec).roles = roles
  BY DEF ParseConfiguration
<1> HIDE DEF regions
<1>2. CASE spec.assumeRolesAdvanced # Unset
  <2>1. /\ i \in DOMAIN spec.assumeRolesAdvanced
        /\ roles[i].filters = OrElse(spec.assumeRolesAdvanced[i].filters, spec.tagFilters)
    BY <1>1, <1>2 DEF TranslateToAssumeRolesAdvanced
  <2>2. spec.assumeRolesAdvanced[i] \in Items(spec.assumeRolesAdvanced)
    BY <1>2, <2>1 DEF Items
  <2> QED  BY <1>1, <2>1, <2>2 DEF OrElse
<1>3. CASE spec.assumeRolesAdvanced = Unset
  <2>1. roles[i].filters = spec.tagFilters
    BY <1>1, <1>3 DEF TranslateToAssumeRolesAdvanced
  <2> QED  BY <1>1, <2>1
<1> QED  BY <1>2, <1>3

\* Of two roles of one account in one region, the later one has tag filters.
LEMMA LaterRoleHasFilters ==
    ASSUME NEW spec, ParseConfiguration(spec).ok,
           NEW i \in DOMAIN ParseConfiguration(spec).roles, NEW j \in DOMAIN ParseConfiguration(spec).roles,
           i < j, NEW region,
           region \in Items(ParseConfiguration(spec).roles[i].regions),
           region \in Items(ParseConfiguration(spec).roles[j].regions),
           ParseConfiguration(spec).roles[i].arn.account = ParseConfiguration(spec).roles[j].arn.account,
           ~ParseConfiguration(spec).roles[i].arn.path, ~ParseConfiguration(spec).roles[j].arn.path
    PROVE  ParseConfiguration(spec).roles[j].filters # Unset
<1> DEFINE roles == ParseConfiguration(spec).roles
<1>1. VerifyAssumeRolesAdvanced(roles)
  BY DEF ParseConfiguration
<1> HIDE DEF roles
<1>2. GetAccountNumberFromArn(roles[i].arn) = GetAccountNumberFromArn(roles[j].arn)
  BY DEF GetAccountNumberFromArn, roles
<1>3. Items(roles[i].regions) \cap Items(roles[j].regions) # {}
  BY DEF roles
<1> QED  BY <1>1, <1>2, <1>3 DEF VerifyAssumeRolesAdvanced, roles

\* A resource is reported by one access, unless tag filters say otherwise, one of
\* the lists of filters is empty or the name of a role has a path.
THEOREM TargetsAreReportedOnce == DiscoverySpec => []ReportedOnce
<1>1. ASSUME DiscoveryInv, NEW t \in Targets, NEW u \in Targets, t.of = u.of, t.by # u.by,
             \A x \in {t, u} : GetAwsAccess(x.by.account, x.by.region, x.by.role).filters = {},
             scenario.spec.tagFilters # {},
             \A role \in Items(scenario.spec.assumeRolesAdvanced) : role.filters # {},
             \A x \in {t, u} : ~x.by.role.path
      PROVE  FALSE
  <2>1. PICK k \in AccountKeys :
             /\ Sound(k, FalseClaims, t)
             /\ GetAwsAccess(t.by.account, t.by.region, t.by.role) = accounts[k]
             /\ accounts[k] # Unset
    BY <1>1, TargetHasAccess
  <2>2. PICK l \in AccountKeys :
             /\ Sound(l, FalseClaims, u)
             /\ GetAwsAccess(u.by.account, u.by.region, u.by.role) = accounts[l]
             /\ accounts[l] # Unset
    BY <1>1, TargetHasAccess
  <2>3. /\ t.by = [account |-> accounts[k].account, region |-> accounts[k].region, role |-> accounts[k].role]
        /\ u.by = [account |-> accounts[l].account, region |-> accounts[l].region, role |-> accounts[l].role]
        /\ t.of \in Here(k) /\ u.of \in Here(l)
    BY <2>1, <2>2 DEF Sound
  <2>4. accounts[k].account = accounts[l].account /\ accounts[k].region = accounts[l].region
    <3>1. Place(accounts[k]) = Place(accounts[l])
      BY <1>1, <2>3 DEF Here
    <3> QED  BY <3>1 DEF Place
  <2>5. accounts[k].role # accounts[l].role
    BY <1>1, <2>3, <2>4
  <2>6. accounts[k].filters = {} /\ accounts[l].filters = {}
    BY <1>1, <2>1, <2>2
  <2>7. ~accounts[k].role.path /\ ~accounts[l].role.path
    <3>1. t.by.role = accounts[k].role /\ u.by.role = accounts[l].role
      BY <2>3
    <3> QED  BY <1>1, <3>1
  <2> DEFINE config == ParseConfiguration(scenario.spec)
  <2>8. /\ config.ok /\ accounts[k] \in InitializeAwsAccess(config, {})
        /\ accounts[l] \in InitializeAwsAccess(config, {})
        /\ DOMAIN config.roles \subseteq Nat
    BY <1>1, KeysAreConfigured, ScenariosAssumption DEF DiscoveryInv, Shaped, AllAccesses
  <2> HIDE DEF config
  <2>9. config.roles # <<>>
    BY <2>5, <2>8 DEF InitializeAwsAccess, PrepareRegionConfigs
  <2>10. config.roles # Unset
    BY <2>8, <2>9 DEF InitializeAwsAccess, Items
  <2>11. PICK i \in DOMAIN config.roles :
             /\ accounts[k].role = config.roles[i].arn /\ accounts[k].account = config.roles[i].arn.account
             /\ accounts[k].region \in Items(config.roles[i].regions)
             /\ accounts[k].filters = OrElse(config.roles[i].filters, {})
    BY <2>8, <2>9, <2>10, AccessOfRole
  <2>12. PICK j \in DOMAIN config.roles :
             /\ accounts[l].role = config.roles[j].arn /\ accounts[l].account = config.roles[j].arn.account
             /\ accounts[l].region \in Items(config.roles[j].regions)
             /\ accounts[l].filters = OrElse(config.roles[j].filters, {})
    BY <2>8, <2>9, <2>10, AccessOfRole
  <2>13. i # j /\ i \in Nat /\ j \in Nat
    BY <2>5, <2>8, <2>11, <2>12
  <2>14. ASSUME NEW h \in DOMAIN config.roles, config.roles[h].filters # Unset
         PROVE  OrElse(config.roles[h].filters, {}) # {}
    <3>1. OrElse(config.roles[h].filters, {}) = config.roles[h].filters
      BY <2>14 DEF OrElse
    <3>2. config.roles[h].filters # {}
      BY <1>1, FiltersOfRole DEF config
    <3> QED  BY <3>1, <3>2
  <2>15. CASE i < j
    <3>1. config.roles[j].filters # Unset
      BY <2>4, <2>7, <2>8, <2>11, <2>12, <2>15, LaterRoleHasFilters DEF config
    <3> QED  BY <2>6, <2>12, <2>14, <3>1
  <2>16. CASE j < i
    <3>1. config.roles[i].filters # Unset
      BY <2>4, <2>7, <2>8, <2>11, <2>12, <2>16, LaterRoleHasFilters DEF config
    <3> QED  BY <2>6, <2>11, <2>14, <3>1
  <2> QED  BY <2>13, <2>15, <2>16
<1>2. DiscoveryInv => ReportedOnce
  BY <1>1 DEF ReportedOnce
<1> QED  BY <1>2, DiscoveryInvariant, PTL

-----------------------------------------------------------------------------
(* Templates: recursion                                                    *)
(*                                                                         *)
(* Nothing below is by an induction theorem: a statement about all actions *)
(* of a template, about all numbers or about all finite sets is proved by  *)
(* looking at the first action, the least number or the smallest set for   *)
(* which it would not hold.                                                *)

\* Of some natural numbers one is the least.
LEMMA LeastNumber ==
    ASSUME NEW S \in SUBSET Nat, S # {}
    PROVE  \E m \in S : \A n \in S : m <= n
<1>1. IsWellFoundedOn({ss \in Nat \X Nat : ss[1] < ss[2]}, Nat)
  BY NatLessThanWellFounded DEF OpToRel
<1>2. PICK m \in S : \A n \in S : ~(<<n, m>> \in {ss \in Nat \X Nat : ss[1] < ss[2]})
  BY <1>1, WFMin
<1>3. \A n \in S : ~(n < m)
  BY <1>2
<1> QED  BY <1>3

\* Of finite sets, one is the smallest.
LEMMA SmallestSet ==
    ASSUME NEW U, U # {}, \A T \in U : IsFiniteSet(T)
    PROVE  \E T \in U : \A V \in U : Cardinality(T) <= Cardinality(V)
<1> DEFINE sizes == {Cardinality(T) : T \in U}
<1>1. sizes \in SUBSET Nat /\ sizes # {}
  BY FS_CardinalityType
<1>2. PICK m \in sizes : \A n \in sizes : m <= n
  BY <1>1, LeastNumber
<1> QED  BY <1>2

\* Max is the largest of finitely many numbers.
LEMMA MaxIsLargest ==
    ASSUME NEW S \in SUBSET Nat, S # {}, IsFiniteSet(S)
    PROVE  Max(S) \in S /\ \A y \in S : Max(S) >= y
<1> DEFINE Above(x) == {y \in S : y > x}
<1>1. \A x \in S : IsFiniteSet(Above(x)) /\ Cardinality(Above(x)) \in Nat
  BY FS_Subset, FS_CardinalityType
<1>2. PICK x \in S : \A y \in S : Cardinality(Above(x)) <= Cardinality(Above(y))
  <2> DEFINE U == {Above(y) : y \in S}
  <2>1. U # {} /\ \A T \in U : IsFiniteSet(T)
    BY <1>1
  <2> HIDE DEF Above
  <2>2. PICK T \in U : \A V \in U : Cardinality(T) <= Cardinality(V)
    BY <2>1, SmallestSet
  <2> QED  BY <2>2
<1>3. ASSUME NEW y \in S, y > x PROVE FALSE
  <2>1. Above(y) \in SUBSET Above(x)
    <3>1. \A z \in S : z > y => z > x
      BY <1>3
    <3> QED  BY <3>1
  <2>2. y \in Above(x) /\ y \notin Above(y)
    BY <1>3
  <2> HIDE DEF Above
  <2>3. Cardinality(Above(y)) <= Cardinality(Above(x)) /\ Cardinality(Above(x)) # Cardinality(Above(y))
    BY <1>1, <2>1, <2>2, FS_Subset
  <2> QED  BY <1>1, <1>2, <2>3
<1>4. \A y \in S : x >= y
  BY <1>3
<1> QED  BY <1>4 DEF Max

\* A number that is in a set and the largest in it is its Max.
LEMMA LargestIsMax ==
    ASSUME NEW S \in SUBSET Nat, NEW x \in S, \A y \in S : x >= y
    PROVE  Max(S) = x
<1> DEFINE m == CHOOSE z \in S : \A y \in S : z >= y
<1>1. m \in S /\ \A y \in S : m >= y
  OBVIOUS
<1> HIDE DEF m
<1>2. m = x
  BY <1>1
<1> QED  BY <1>2 DEF Max, m

-----------------------------------------------------------------------------
(* Templates: when an action ends                                          *)

\* The end of each action, as CalculateTotalDuration computes it.
Ends(actions) ==
    LET total[n \in DOMAIN actions] ==
            DurationOf(actions[n]) + Max({0} \cup {total[m] : m \in actions[n].after})
    IN total

\* The end of an action, if those of the actions before it are given by f.
End(actions, f, n) == DurationOf(actions[n]) + Max({0} \cup {f[m] : m \in actions[n].after})

\* f has the ends of the actions in A, and of all that they wait for.
Solves(actions, f, A) ==
    /\ f \in [A -> Nat]
    /\ \A n \in A : actions[n].after \subseteq A /\ f[n] = End(actions, f, n)

LEMMA DurationIsNat == ASSUME NEW action PROVE DurationOf(action) \in Nat
BY DEF DurationOf

\* Finitely many ends, and 0 if there are none, have a maximum.
LEMMA LastEnd ==
    ASSUME NEW A, IsFiniteSet(A), NEW f, NEW before \in SUBSET Nat, 0 \in before,
           \A y \in before : y = 0 \/ \E m \in A : y = f[m]
    PROVE  Max(before) \in before /\ \A y \in before : Max(before) >= y
<1> DEFINE g == [m \in A |-> f[m]]
           image == {f[m] : m \in A}
<1>1. g \in Surjection(A, image)
  BY DEF Surjection
<1>2. IsFiniteSet(image \cup {0})
  BY <1>1, FS_Surjection, FS_AddElement
<1>3. before \in SUBSET (image \cup {0})
  OBVIOUS
<1>4. IsFiniteSet(before)
  BY <1>2, <1>3, FS_Subset
<1> QED  BY <1>4, MaxIsLargest

\* An action that waits for some that end, ends.
LEMMA EndIsNat ==
    ASSUME NEW actions, IsTemplate(actions), NEW n \in DOMAIN actions, NEW f,
           \A m \in actions[n].after : f[m] \in Nat
    PROVE  End(actions, f, n) \in Nat
<1> DEFINE before == {0} \cup {f[m] : m \in actions[n].after}
<1>1. IsFiniteSet(actions[n].after)
  BY FS_Subset DEF IsTemplate
<1>2. /\ before \in SUBSET Nat /\ 0 \in before
      /\ \A y \in before : y = 0 \/ \E m \in actions[n].after : y = f[m]
  OBVIOUS
<1>3. End(actions, f, n) = DurationOf(actions[n]) + Max(before)
  BY DEF End
<1> HIDE DEF before
<1>4. Max(before) \in before
  BY <1>1, <1>2, LastEnd
<1>5. Max(before) \in Nat /\ DurationOf(actions[n]) \in Nat
  BY <1>2, <1>4, DurationIsNat
<1> QED  BY <1>3, <1>5

\* The end of an action depends on the actions before it only.
LEMMA SameEnd ==
    ASSUME NEW actions, NEW n, NEW f, NEW g, \A m \in actions[n].after : f[m] = g[m]
    PROVE  End(actions, f, n) = End(actions, g, n)
<1>1. {f[m] : m \in actions[n].after} = {g[m] : m \in actions[n].after}
  OBVIOUS
<1> QED  BY <1>1 DEF End

\* There is a solution for the whole template: the largest set of actions that
\* has one leaves no action out.
LEMMA EndsExist ==
    ASSUME NEW actions, IsTemplate(actions)
    PROVE  \E f : Solves(actions, f, DOMAIN actions)
<1> DEFINE D == DOMAIN actions
           open == {T \in SUBSET D : \E f : Solves(actions, f, D \ T)}
<1>1. D \in open
  <2> DEFINE none == [n \in {} |-> 0]
  <2>1. none \in [{} -> Nat] /\ D \ D = {}
    OBVIOUS
  <2>2. Solves(actions, none, {})
    BY <2>1 DEF Solves
  <2> QED  BY <2>1, <2>2
<1>2. \A T \in open : IsFiniteSet(T)
  BY FS_Subset DEF IsTemplate
<1>3. PICK T \in open : \A V \in open : Cardinality(T) <= Cardinality(V)
  <2> HIDE DEF open
  <2> QED  BY <1>1, <1>2, SmallestSet
<1>4. CASE T = {}
  <2>1. D \ T = D
    BY <1>4
  <2> QED  BY <2>1
<1>5. CASE T # {}
  <2> DEFINE A == D \ T
  <2>1. PICK f : Solves(actions, f, A)
    OBVIOUS
  <2>2. PICK n \in T : actions[n].after \cap T = {}
    BY <1>5 DEF IsTemplate
  <2>3. n \in D /\ actions[n].after \subseteq A /\ n \notin A
    BY <2>2 DEF IsTemplate
  <2> DEFINE B == D \ (T \ {n})
             g == [m \in B |-> IF m = n THEN End(actions, f, n) ELSE f[m]]
  <2>4. B = A \cup {n}
    BY <2>3
  <2>5. \A m \in A : f[m] \in Nat /\ g[m] = f[m]
    BY <2>1, <2>3, <2>4 DEF Solves
  <2>6. g[n] = End(actions, f, n) /\ End(actions, f, n) \in Nat
    BY <2>3, <2>4, <2>5, EndIsNat
  <2>7. g \in [B -> Nat]
    BY <2>4, <2>5, <2>6
  <2> HIDE DEF g
  <2>8. ASSUME NEW m \in B PROVE actions[m].after \subseteq B /\ g[m] = End(actions, g, m)
    <3>1. actions[m].after \subseteq A
      BY <2>1, <2>3, <2>4 DEF Solves
    <3>2. End(actions, f, m) = End(actions, g, m)
      BY <2>5, <3>1, SameEnd
    <3>3. g[m] = End(actions, f, m)
      BY <2>1, <2>4, <2>5, <2>6 DEF Solves
    <3> QED  BY <2>4, <3>1, <3>2, <3>3
  <2>9. Solves(actions, g, B)
    BY <2>7, <2>8 DEF Solves
  <2>10. T \ {n} \in open
    BY <2>9
  <2>11. Cardinality(T \ {n}) = Cardinality(T) - 1 /\ Cardinality(T) \in Nat
    BY <1>2, <1>3, FS_RemoveElement, FS_CardinalityType
  <2> QED  BY <1>3, <2>10, <2>11
<1> QED  BY <1>4, <1>5

\* What the recursion defines is such a solution.
LEMMA EndsSolve ==
    ASSUME NEW actions, IsTemplate(actions)
    PROVE  Solves(actions, Ends(actions), DOMAIN actions)
<1> DEFINE D == DOMAIN actions
           Eq(f) == f = [n \in D |-> DurationOf(actions[n]) + Max({0} \cup {f[m] : m \in actions[n].after})]
           total == CHOOSE f : Eq(f)
<1>1. Ends(actions) = total
  BY DEF Ends
<1>2. PICK f : Solves(actions, f, D)
  BY EndsExist
<1>3. f = [n \in D |-> End(actions, f, n)]
  BY <1>2 DEF Solves
<1>4. Eq(f)
  BY <1>3 DEF End
<1>5. Eq(total)
  BY <1>4
<1>6. total = [n \in D |-> End(actions, total, n)]
  BY <1>5 DEF End
<1> HIDE DEF total
<1>7. \A n \in D : total[n] \in Nat
  <2> DEFINE bad == {n \in D : total[n] \notin Nat}
  <2>1. SUFFICES ASSUME bad # {} PROVE FALSE
    OBVIOUS
  <2>2. PICK n \in bad : actions[n].after \cap bad = {}
    BY <2>1 DEF IsTemplate
  <2>3. \A m \in actions[n].after : total[m] \in Nat
    BY <2>2 DEF IsTemplate
  <2>4. End(actions, total, n) \in Nat
    BY <2>3, EndIsNat
  <2> QED  BY <1>6, <2>2, <2>4
<1>8. total \in [D -> Nat]
  BY <1>6, <1>7
<1> QED  BY <1>1, <1>6, <1>8 DEF Solves, IsTemplate

-----------------------------------------------------------------------------
(* Templates: the length of a chain                                        *)

\* The length of the actions that a chain has at some of its places, as DurationRight
\* folds it.
Sums(actions, c) ==
    LET iter[s \in SUBSET DOMAIN c] ==
            IF s = {} THEN 0
            ELSE LET x == CHOOSE x \in s : TRUE IN iter[s \ {x}] + DurationOf(actions[c[x]])
    IN iter

\* It is what the fold computes.
LEMMA FoldIsSum ==
    ASSUME NEW actions, NEW c
    PROVE  FoldSet(LAMBDA i, sum : sum + DurationOf(actions[c[i]]), 0, DOMAIN c) = Sums(actions, c)[DOMAIN c]
BY DEF FoldSet, MapThenFoldSet, Sums

\* One place is taken out, the rest is given by f.
Out(s) == CHOOSE x \in s : TRUE
Sum(actions, c, f, s) == IF s = {} THEN 0 ELSE f[s \ {Out(s)}] + DurationOf(actions[c[Out(s)]])

LEMMA OutIsIn == ASSUME NEW s, s # {} PROVE Out(s) \in s
BY DEF Out

\* The sums for sets of up to n places can be had for every n: those for n + 1 are
\* made from those for n.
LEMMA SumsExist ==
    ASSUME NEW actions, NEW c, IsFiniteSet(DOMAIN c), NEW n \in Nat
    PROVE  \E f : /\ f \in [{s \in SUBSET DOMAIN c : Cardinality(s) <= n} -> Nat]
                  /\ \A s \in SUBSET DOMAIN c : Cardinality(s) <= n => f[s] = Sum(actions, c, f, s)
<1> DEFINE S == DOMAIN c
           Upto(k) == {s \in SUBSET S : Cardinality(s) <= k}
           Has(k) == \E f : f \in [Upto(k) -> Nat] /\ \A s \in Upto(k) : f[s] = Sum(actions, c, f, s)
           hasNot == {k \in Nat : ~Has(k)}
<1>1. \A s \in SUBSET S : IsFiniteSet(s) /\ Cardinality(s) \in Nat
  BY FS_Subset, FS_CardinalityType
<1>2. ASSUME NEW k \in Nat, NEW f, NEW s \in Upto(k + 1), \A t \in Upto(k) : f[t] \in Nat
      PROVE  Sum(actions, c, f, s) \in Nat /\ (s # {} => s \ {Out(s)} \in Upto(k))
  <2>1. CASE s = {}
    BY <2>1 DEF Sum
  <2>2. CASE s # {}
    <3>1. Out(s) \in s
      BY <2>2, OutIsIn
    <3>2. Cardinality(s \ {Out(s)}) = Cardinality(s) - 1
      BY <1>1, <3>1, FS_RemoveElement
    <3>3. s \ {Out(s)} \in Upto(k)
      BY <1>1, <3>2
    <3>4. f[s \ {Out(s)}] \in Nat /\ DurationOf(actions[c[Out(s)]]) \in Nat
      BY <1>2, <3>3, DurationIsNat
    <3>5. Sum(actions, c, f, s) = f[s \ {Out(s)}] + DurationOf(actions[c[Out(s)]])
      BY <2>2 DEF Sum
    <3> QED  BY <3>3, <3>4, <3>5
  <2> QED  BY <2>1, <2>2
<1>3. Has(0)
  <2> DEFINE f == [s \in Upto(0) |-> 0]
  <2>1. \A s \in Upto(0) : s = {}
    BY <1>1, FS_EmptySet
  <2>2. f \in [Upto(0) -> Nat] /\ \A s \in Upto(0) : f[s] = Sum(actions, c, f, s)
    BY <2>1 DEF Sum
  <2> QED  BY <2>2
<1>4. ASSUME NEW k \in Nat, Has(k) PROVE Has(k + 1)
  <2>1. PICK f : f \in [Upto(k) -> Nat] /\ \A s \in Upto(k) : f[s] = Sum(actions, c, f, s)
    BY <1>4
  <2> DEFINE g == [s \in Upto(k + 1) |-> Sum(actions, c, f, s)]
  <2>2. Upto(k) \subseteq Upto(k + 1)
    BY <1>1
  <2>3. \A t \in Upto(k) : f[t] \in Nat
    BY <2>1
  <2> HIDE DEF Upto
  <2>4. \A s \in Upto(k + 1) : Sum(actions, c, f, s) \in Nat /\ (s # {} => s \ {Out(s)} \in Upto(k))
    BY <1>2, <2>3
  <2>5. g \in [Upto(k + 1) -> Nat]
    BY <2>4
  <2>6. \A t \in Upto(k) : g[t] = f[t]
    BY <2>1, <2>2
  <2>7. ASSUME NEW s \in Upto(k + 1) PROVE g[s] = Sum(actions, c, g, s)
    <3>1. g[s] = Sum(actions, c, f, s)
      OBVIOUS
    <3> HIDE DEF g
    <3>2. s # {} => g[s \ {Out(s)}] = f[s \ {Out(s)}]
      BY <2>4, <2>6
    <3> QED  BY <3>1, <3>2 DEF Sum
  <2> HIDE DEF g
  <2> QED  BY <2>5, <2>7
<1>5. Has(n)
  <2> HIDE DEF Has
  <2>1. SUFFICES ASSUME hasNot # {} PROVE FALSE
    OBVIOUS
  <2>2. PICK k \in hasNot : \A l \in hasNot : k <= l
    BY <2>1, LeastNumber
  <2>3. k # 0 /\ k - 1 \in Nat
    BY <1>3, <2>2
  <2>4. Has(k - 1)
    BY <2>2, <2>3
  <2>5. Has((k - 1) + 1)
    BY <1>4, <2>3, <2>4
  <2>6. (k - 1) + 1 = k
    BY <2>2
  <2> QED  BY <2>2, <2>5, <2>6
<1> QED  BY <1>5

\* The recursion of the fold defines such sums.
LEMMA SumsSolve ==
    ASSUME NEW actions, NEW c, IsFiniteSet(DOMAIN c)
    PROVE  /\ Sums(actions, c) \in [SUBSET DOMAIN c -> Nat]
           /\ \A s \in SUBSET DOMAIN c : Sums(actions, c)[s] = Sum(actions, c, Sums(actions, c), s)
<1> DEFINE S == DOMAIN c
           Eq(f) == f = [s \in SUBSET S |->
                            IF s = {} THEN 0
                            ELSE LET x == CHOOSE x \in s : TRUE
                                 IN f[s \ {x}] + DurationOf(actions[c[x]])]
           iter == CHOOSE f : Eq(f)
           n == Cardinality(S)
<1>1. Sums(actions, c) = iter
  BY DEF Sums
<1>2. n \in Nat /\ \A s \in SUBSET S : IsFiniteSet(s) /\ Cardinality(s) \in Nat /\ Cardinality(s) <= n
  BY FS_Subset, FS_CardinalityType
<1>3. {s \in SUBSET S : Cardinality(s) <= n} = SUBSET S
  BY <1>2
<1>4. PICK f : f \in [SUBSET S -> Nat] /\ \A s \in SUBSET S : f[s] = Sum(actions, c, f, s)
  <2> HIDE DEF n
  <2>1. \E f : /\ f \in [{s \in SUBSET S : Cardinality(s) <= n} -> Nat]
               /\ \A s \in SUBSET S : Cardinality(s) <= n => f[s] = Sum(actions, c, f, s)
    BY <1>2, SumsExist
  <2> QED  BY <1>2, <1>3, <2>1
<1>5. f = [s \in SUBSET S |-> Sum(actions, c, f, s)]
  BY <1>4
<1>6. Eq(f)
  BY <1>5 DEF Sum, Out
<1>7. Eq(iter)
  BY <1>6
<1>8. iter = [s \in SUBSET S |-> Sum(actions, c, iter, s)]
  BY <1>7 DEF Sum, Out
<1> HIDE DEF iter
<1>9. \A s \in SUBSET S : iter[s] \in Nat
  <2> DEFINE bad == {s \in SUBSET S : iter[s] \notin Nat}
  <2>1. SUFFICES ASSUME bad # {} PROVE FALSE
    OBVIOUS
  <2>2. PICK s \in bad : \A t \in bad : Cardinality(s) <= Cardinality(t)
    BY <1>2, <2>1, SmallestSet
  <2>3. iter[s] = Sum(actions, c, iter, s)
    BY <1>8, <2>2
  <2>4. s # {}
    BY <2>2, <2>3 DEF Sum
  <2>5. Cardinality(s \ {Out(s)}) = Cardinality(s) - 1
    BY <1>2, <2>2, <2>4, OutIsIn, FS_RemoveElement
  <2>6. iter[s \ {Out(s)}] \in Nat
    BY <1>2, <2>2, <2>5
  <2>7. iter[s] \in Nat
    BY <2>3, <2>4, <2>6, DurationIsNat DEF Sum
  <2> QED  BY <2>2, <2>7
<1>10. iter \in [SUBSET S -> Nat]
  BY <1>8, <1>9
<1> QED  BY <1>1, <1>8, <1>10

\* The order in which places are taken out makes no difference.
LEMMA AnyOut ==
    ASSUME NEW actions, NEW c, IsFiniteSet(DOMAIN c), NEW s \in SUBSET DOMAIN c, NEW x \in s
    PROVE  Sums(actions, c)[s] = Sums(actions, c)[s \ {x}] + DurationOf(actions[c[x]])
<1> DEFINE S == DOMAIN c
           f == Sums(actions, c)
           w(z) == DurationOf(actions[c[z]])
           Right(t) == \A z \in t : f[t] = f[t \ {z}] + w(z)
           bad == {t \in SUBSET S : ~Right(t)}
<1>1. \A t \in SUBSET S : IsFiniteSet(t) /\ Cardinality(t) \in Nat
  BY FS_Subset, FS_CardinalityType
<1>2. \A z : w(z) \in Nat
  BY DurationIsNat
<1>3. \A t \in SUBSET S : f[t] \in Nat /\ (t # {} => Out(t) \in t /\ f[t] = f[t \ {Out(t)}] + w(Out(t)))
  <2>1. f \in [SUBSET S -> Nat] /\ \A t \in SUBSET S : f[t] = Sum(actions, c, f, t)
    BY SumsSolve
  <2> HIDE DEF f
  <2>2. \A t \in SUBSET S : t # {} => f[t] = f[t \ {Out(t)}] + w(Out(t))
    BY <2>1 DEF Sum
  <2> QED  BY <2>1, <2>2, OutIsIn
<1> HIDE DEF f, w
<1>4. bad = {}
  <2>1. SUFFICES ASSUME bad # {} PROVE FALSE
    OBVIOUS
  <2>2. PICK t \in bad : \A u \in bad : Cardinality(t) <= Cardinality(u)
    <3> HIDE DEF Right
    <3> QED  BY <1>1, <2>1, SmallestSet
  <2>3. PICK z \in t : f[t] # f[t \ {z}] + w(z)
    BY <2>2
  <2> DEFINE y == Out(t)
  <2>4. y \in t /\ f[t] = f[t \ {y}] + w(y)
    BY <1>3, <2>2, <2>3
  <2> HIDE DEF y
  <2>5. y # z
    BY <2>3, <2>4
  <2>6. Cardinality(t \ {y}) = Cardinality(t) - 1 /\ Cardinality(t \ {z}) = Cardinality(t) - 1
    BY <1>1, <2>2, <2>3, <2>4, FS_RemoveElement
  <2>7. t \ {y} \in SUBSET S /\ t \ {z} \in SUBSET S /\ Right(t \ {y}) /\ Right(t \ {z})
    <3>1. t \ {y} \in SUBSET S /\ t \ {z} \in SUBSET S /\ Cardinality(t) \in Nat
      BY <1>1, <2>2
    <3> HIDE DEF Right
    <3> QED  BY <2>2, <2>6, <3>1
  <2>8. f[t \ {y}] = f[(t \ {y}) \ {z}] + w(z) /\ f[t \ {z}] = f[(t \ {z}) \ {y}] + w(y)
    BY <2>3, <2>4, <2>5, <2>7
  <2>9. (t \ {y}) \ {z} = (t \ {z}) \ {y} /\ (t \ {y}) \ {z} \in SUBSET S
    BY <2>2
  <2>10. f[(t \ {y}) \ {z}] \in Nat
    BY <1>3, <2>9
  <2>11. f[t] = f[t \ {z}] + w(z)
    <3> DEFINE r == f[(t \ {y}) \ {z}]
    <3>1. f[t] = (r + w(z)) + w(y) /\ f[t \ {z}] = r + w(y)
      BY <2>4, <2>8, <2>9
    <3>2. r \in Nat /\ w(y) \in Nat /\ w(z) \in Nat
      BY <1>2, <2>10
    <3> HIDE DEF r
    <3> QED  BY <3>1, <3>2
  <2> QED  BY <2>3, <2>11
<1> QED  BY <1>4 DEF f, w

\* No action takes less than nothing, and no actions take nothing.
LEMMA SumIsNat ==
    ASSUME NEW actions, NEW c, IsFiniteSet(DOMAIN c)
    PROVE  /\ Sums(actions, c)[{}] = 0
           /\ \A s : s \subseteq DOMAIN c => Sums(actions, c)[s] \in Nat
<1>1. Sums(actions, c)[{}] = 0
  BY SumsSolve DEF Sum
<1>2. Sums(actions, c) \in [SUBSET DOMAIN c -> Nat]
  BY SumsSolve
<1> QED  BY <1>1, <1>2

\* A chain: each of its actions waits for the one before it.
IsChain(actions, c, k) ==
    /\ c \in [1 .. k -> DOMAIN actions]
    /\ \A i \in 2 .. k : c[i - 1] \in actions[c[i]].after

\* The first i actions of a chain take as long as the first i - 1 and the i-th.
LEMMA SumOfPrefix ==
    ASSUME NEW actions, NEW k \in Nat, NEW c, IsChain(actions, c, k)
    PROVE  /\ Sums(actions, c)[1 .. 0] = 0
           /\ \A i \in 1 .. k :
                /\ Sums(actions, c)[1 .. i] \in Nat /\ Sums(actions, c)[1 .. (i - 1)] \in Nat
                /\ Sums(actions, c)[1 .. i] = Sums(actions, c)[1 .. (i - 1)] + DurationOf(actions[c[i]])
<1>0. \A i : i \in DOMAIN c <=> i \in 1 .. k
  BY DEF IsChain
<1>1. IsFiniteSet(DOMAIN c)
  <2>1. DOMAIN c = 1 .. k
    BY <1>0
  <2> QED  BY <2>1, FS_Interval
<1>2. 1 .. 0 = {}
  OBVIOUS
<1>3. Sums(actions, c)[{}] = 0
  BY <1>1, SumIsNat
<1>4. \A s : s \subseteq DOMAIN c => Sums(actions, c)[s] \in Nat
  BY <1>1, SumIsNat, Zenon
<1>5. ASSUME NEW i \in 1 .. k
      PROVE  /\ Sums(actions, c)[1 .. i] \in Nat /\ Sums(actions, c)[1 .. (i - 1)] \in Nat
             /\ Sums(actions, c)[1 .. i] = Sums(actions, c)[1 .. (i - 1)] + DurationOf(actions[c[i]])
  <2> DEFINE all == 1 .. i
             butLast == 1 .. (i - 1)
  <2>1. /\ all \in SUBSET DOMAIN c /\ i \in all
        /\ butLast = all \ {i} /\ butLast \in SUBSET DOMAIN c
    BY <1>0
  <2> HIDE DEF all, butLast
  <2>2. Sums(actions, c)[all] = Sums(actions, c)[all \ {i}] + DurationOf(actions[c[i]])
    BY <1>1, <2>1, AnyOut
  <2>3. Sums(actions, c)[all] \in Nat /\ Sums(actions, c)[butLast] \in Nat
    BY <1>4, <2>1
  <2>4. Sums(actions, c)[all] = Sums(actions, c)[butLast] + DurationOf(actions[c[i]])
    BY <2>1, <2>2
  <2> QED  BY <2>3, <2>4 DEF all, butLast
<1> QED  BY <1>2, <1>3, <1>5

-----------------------------------------------------------------------------
(* Templates: the longest chain                                            *)

\* No action is twice on a chain: those after the first of the two places would
\* wait for each other.
LEMMA ChainIsShort ==
    ASSUME NEW actions, IsTemplate(actions), NEW k \in Nat, NEW c, IsChain(actions, c, k)
    PROVE  k \in 0 .. Cardinality(DOMAIN actions)
<1> DEFINE D == DOMAIN actions
<1>1. IsFiniteSet(D) /\ Cardinality(D) \in Nat
  BY FS_CardinalityType DEF IsTemplate
<1>2. IsFiniteSet(1 .. k) /\ Cardinality(1 .. k) = k
  BY FS_Interval
<1>3. SUFFICES ASSUME Cardinality(D) < k PROVE FALSE
  BY <1>1
<1>4. PICK i, j \in 1 .. k : i # j /\ c[i] = c[j]
  BY <1>1, <1>2, <1>3, FS_PigeonHole DEF IsChain
<1>5. ASSUME NEW a \in 1 .. k, NEW b \in 1 .. k, a < b, c[a] = c[b] PROVE FALSE
  <2> DEFINE S == {c[l] : l \in (a + 1) .. b}
  <2>1. S \in SUBSET D /\ c[b] \in S
    BY <1>5 DEF IsChain
  <2>2. PICK n \in S : actions[n].after \cap S = {}
    BY <2>1 DEF IsTemplate
  <2>3. PICK l \in (a + 1) .. b : n = c[l]
    BY <2>2
  <2>4. c[l - 1] \in actions[n].after
    BY <2>3 DEF IsChain
  <2>5. c[l - 1] \in S
    <3>1. CASE l = a + 1
      BY <1>5, <2>1, <3>1
    <3>2. CASE l # a + 1
      BY <2>3, <3>2
    <3> QED  BY <3>1, <3>2
  <2> QED  BY <2>2, <2>4, <2>5
<1> QED  BY <1>4, <1>5

\* An action ends after all that it waits for, and immediately after the last of them.
LEMMA EndsAfter ==
    ASSUME NEW actions, IsTemplate(actions), NEW n \in DOMAIN actions
    PROVE  /\ Ends(actions)[n] \in Nat /\ Ends(actions)[n] >= DurationOf(actions[n])
           /\ \A m \in actions[n].after :
                /\ m \in DOMAIN actions
                /\ Ends(actions)[n] >= Ends(actions)[m] + DurationOf(actions[n])
           /\ \/ Ends(actions)[n] = DurationOf(actions[n])
              \/ \E m \in actions[n].after :
                   Ends(actions)[n] = Ends(actions)[m] + DurationOf(actions[n])
<1> DEFINE f == Ends(actions)
           before == {0} \cup {f[m] : m \in actions[n].after}
           d == DurationOf(actions[n])
<1>1. /\ f[n] \in Nat /\ f[n] = d + Max(before)
      /\ \A m \in actions[n].after : m \in DOMAIN actions /\ f[m] \in Nat
  BY EndsSolve DEF Solves, End
<1>2. before \in SUBSET Nat /\ Max(before) \in before /\ \A y \in before : Max(before) >= y
  <2>1. IsFiniteSet(actions[n].after)
    BY FS_Subset DEF IsTemplate
  <2>2. /\ before \in SUBSET Nat /\ 0 \in before
        /\ \A y \in before : y = 0 \/ \E m \in actions[n].after : y = f[m]
    BY <1>1
  <2> HIDE DEF before, f
  <2> QED  BY <2>1, <2>2, LastEnd
<1>3. d \in Nat
  BY DurationIsNat
<1>4. \A m \in actions[n].after : f[m] \in before
  OBVIOUS
<1>5. Max(before) = 0 \/ \E m \in actions[n].after : Max(before) = f[m]
  BY <1>2
<1> HIDE DEF f, before, d
<1>6. Max(before) \in Nat
  BY <1>2
<1>7. f[n] >= d
  BY <1>1, <1>3, <1>6
<1>8. \A m \in actions[n].after : f[n] >= f[m] + d
  BY <1>1, <1>2, <1>3, <1>4, <1>6
<1>9. f[n] = d \/ \E m \in actions[n].after : f[n] = f[m] + d
  BY <1>1, <1>3, <1>5, <1>6
<1> QED  BY <1>1, <1>7, <1>8, <1>9 DEF f, d

\* A chain does not end later than its last action.
LEMMA ChainEndsInTime ==
    ASSUME NEW actions, IsTemplate(actions), NEW k \in Nat, NEW c, IsChain(actions, c, k), NEW i \in 1 .. k
    PROVE  Sums(actions, c)[1 .. i] <= Ends(actions)[c[i]]
<1>a. Sums(actions, c)[1 .. 0] = 0
  BY SumOfPrefix
<1>b. \A j \in 1 .. k :
           /\ Sums(actions, c)[1 .. j] \in Nat /\ Sums(actions, c)[1 .. (j - 1)] \in Nat
           /\ Sums(actions, c)[1 .. j] = Sums(actions, c)[1 .. (j - 1)] + DurationOf(actions[c[j]])
  BY SumOfPrefix
<1> DEFINE w(j) == DurationOf(actions[c[j]])
           length(j) == Sums(actions, c)[1 .. j]
           end(j) == Ends(actions)[c[j]]
           late == {j \in 1 .. k : ~(length(j) <= end(j))}
<1>1. /\ length(0) = 0
      /\ \A j \in 1 .. k : length(j) \in Nat /\ length(j - 1) \in Nat /\ length(j) = length(j - 1) + w(j)
  BY <1>a, <1>b
<1>2. \A j \in 1 .. k : end(j) \in Nat /\ w(j) \in Nat /\ end(j) >= w(j)
  BY EndsAfter, DurationIsNat DEF IsChain
<1>3. \A j \in 2 .. k : end(j) >= end(j - 1) + w(j)
  <2> SUFFICES ASSUME NEW j \in 2 .. k PROVE end(j) >= end(j - 1) + w(j)
    OBVIOUS
  <2>1. c[j] \in DOMAIN actions /\ c[j - 1] \in actions[c[j]].after
    BY DEF IsChain
  <2> QED  BY <2>1, EndsAfter
<1> HIDE DEF w, length, end
<1>4. late = {}
  <2>1. SUFFICES ASSUME late # {} PROVE FALSE
    OBVIOUS
  <2>2. PICK j \in late : \A l \in late : j <= l
    <3>1. late \in SUBSET Nat
      OBVIOUS
    <3> QED  BY <2>1, <3>1, LeastNumber
  <2>3. CASE j = 1
    BY <1>1, <1>2, <2>2, <2>3
  <2>4. CASE j # 1
    <3>1. j \in 2 .. k /\ j - 1 \in 1 .. k
      BY <2>2, <2>4
    <3>2. length(j - 1) <= end(j - 1)
      BY <2>2, <3>1
    <3> QED  BY <1>1, <1>2, <1>3, <2>2, <3>1, <3>2
  <2> QED  BY <2>3, <2>4
<1> QED  BY <1>4 DEF late, length, end

\* A chain without a gap: each of its actions begins when the one before it ends.
IsTight(actions, c, k) ==
    /\ IsChain(actions, c, k) /\ k >= 1
    /\ Ends(actions)[c[1]] = DurationOf(actions[c[1]])
    /\ \A i \in 2 .. k : Ends(actions)[c[i]] = Ends(actions)[c[i - 1]] + DurationOf(actions[c[i]])

\* Every action is the end of one: it waits for an action that ends last.
LEMMA TightChain ==
    ASSUME NEW actions, IsTemplate(actions), NEW n \in DOMAIN actions
    PROVE  \E k \in Nat : \E c : IsTight(actions, c, k) /\ c[k] = n
<1> DEFINE D == DOMAIN actions
           Has(m) == \E k \in Nat : \E c : IsTight(actions, c, k) /\ c[k] = m
           bad == {m \in D : ~Has(m)}
<1>1. ASSUME NEW m \in D, \A p \in actions[m].after : Has(p) PROVE Has(m)
  <2>1. CASE Ends(actions)[m] = DurationOf(actions[m])
    <3> DEFINE c == [i \in 1 .. 1 |-> m]
    <3>1. c[1] = m /\ c \in [1 .. 1 -> D]
      OBVIOUS
    <3> HIDE DEF c
    <3>2. IsTight(actions, c, 1)
      BY <2>1, <3>1 DEF IsTight, IsChain
    <3> QED  BY <3>1, <3>2
  <2>2. ASSUME NEW p \in actions[m].after, Ends(actions)[m] = Ends(actions)[p] + DurationOf(actions[m])
        PROVE  Has(m)
    <3>1. PICK k \in Nat : \E d : IsTight(actions, d, k) /\ d[k] = p
      BY <1>1
    <3>2. PICK d : IsTight(actions, d, k) /\ d[k] = p
      BY <3>1
    <3>3. k >= 1 /\ d \in [1 .. k -> D]
      BY <3>2 DEF IsTight, IsChain
    <3> DEFINE c == [i \in 1 .. (k + 1) |-> IF i = k + 1 THEN m ELSE d[i]]
    <3>4. /\ c \in [1 .. (k + 1) -> D] /\ c[k + 1] = m
          /\ \A i \in 1 .. k : c[i] = d[i]
      BY <3>3
    <3> HIDE DEF c
    <3>5. \A i \in 2 .. (k + 1) : c[i - 1] \in actions[c[i]].after
      <4> SUFFICES ASSUME NEW i \in 2 .. (k + 1) PROVE c[i - 1] \in actions[c[i]].after
        OBVIOUS
      <4>1. CASE i = k + 1
        BY <3>2, <3>3, <3>4, <4>1
      <4>2. CASE i # k + 1
        <5>1. i \in 2 .. k /\ i \in 1 .. k /\ i - 1 \in 1 .. k
          BY <3>3, <4>2
        <5> QED  BY <3>2, <3>4, <5>1 DEF IsTight, IsChain
      <4> QED  BY <4>1, <4>2
    <3>6. \A i \in 2 .. (k + 1) : Ends(actions)[c[i]] = Ends(actions)[c[i - 1]] + DurationOf(actions[c[i]])
      <4> SUFFICES ASSUME NEW i \in 2 .. (k + 1)
                   PROVE  Ends(actions)[c[i]] = Ends(actions)[c[i - 1]] + DurationOf(actions[c[i]])
        OBVIOUS
      <4>1. CASE i = k + 1
        <5>1. c[i] = m /\ c[i - 1] = p
          BY <3>2, <3>3, <3>4, <4>1
        <5> QED  BY <2>2, <5>1
      <4>2. CASE i # k + 1
        <5>1. i \in 2 .. k /\ i \in 1 .. k /\ i - 1 \in 1 .. k
          BY <3>3, <4>2
        <5> QED  BY <3>2, <3>4, <5>1 DEF IsTight
      <4> QED  BY <4>1, <4>2
    <3>7. Ends(actions)[c[1]] = DurationOf(actions[c[1]])
      BY <3>2, <3>3, <3>4 DEF IsTight
    <3>8. IsTight(actions, c, k + 1)
      BY <3>3, <3>4, <3>5, <3>6, <3>7 DEF IsTight, IsChain
    <3> QED  BY <3>4, <3>8
  <2> QED  BY <2>1, <2>2, EndsAfter
<1>2. bad = {}
  <2> HIDE DEF Has
  <2>1. SUFFICES ASSUME bad # {} PROVE FALSE
    OBVIOUS
  <2>2. PICK m \in bad : actions[m].after \cap bad = {}
    BY <2>1 DEF IsTemplate
  <2>3. \A p \in actions[m].after : Has(p)
    BY <2>2 DEF IsTemplate
  <2> QED  BY <1>1, <2>2, <2>3
<1> QED  BY <1>2

\* It is as long as the end of its last action.
LEMMA TightIsExact ==
    ASSUME NEW actions, IsTemplate(actions), NEW k \in Nat, NEW c, IsTight(actions, c, k), NEW i \in 1 .. k
    PROVE  Sums(actions, c)[1 .. i] = Ends(actions)[c[i]]
<1>0. IsChain(actions, c, k)
  BY DEF IsTight
<1>a. Sums(actions, c)[1 .. 0] = 0
  BY <1>0, SumOfPrefix
<1>b. \A j \in 1 .. k :
           /\ Sums(actions, c)[1 .. j] \in Nat /\ Sums(actions, c)[1 .. (j - 1)] \in Nat
           /\ Sums(actions, c)[1 .. j] = Sums(actions, c)[1 .. (j - 1)] + DurationOf(actions[c[j]])
  BY <1>0, SumOfPrefix
<1> DEFINE w(j) == DurationOf(actions[c[j]])
           length(j) == Sums(actions, c)[1 .. j]
           end(j) == Ends(actions)[c[j]]
           wrong == {j \in 1 .. k : length(j) # end(j)}
<1>1. /\ length(0) = 0
      /\ \A j \in 1 .. k : length(j) = length(j - 1) + w(j)
  BY <1>a, <1>b
<1>2. end(1) = w(1) /\ \A j \in 2 .. k : end(j) = end(j - 1) + w(j)
  BY DEF IsTight
<1>3. \A j : w(j) \in Nat
  BY DurationIsNat
<1> HIDE DEF w, length, end
<1>4. wrong = {}
  <2>1. SUFFICES ASSUME wrong # {} PROVE FALSE
    OBVIOUS
  <2>2. PICK j \in wrong : \A l \in wrong : j <= l
    <3>1. wrong \in SUBSET Nat
      OBVIOUS
    <3> QED  BY <2>1, <3>1, LeastNumber
  <2>3. CASE j = 1
    BY <1>1, <1>2, <1>3, <2>2, <2>3
  <2>4. CASE j # 1
    <3>1. j \in 2 .. k /\ j - 1 \in 1 .. k
      BY <2>2, <2>4
    <3>2. length(j - 1) = end(j - 1)
      BY <2>2, <3>1
    <3> QED  BY <1>1, <1>2, <2>2, <3>1, <3>2
  <2> QED  BY <2>3, <2>4
<1> QED  BY <1>4 DEF wrong, length, end

\* calculateTotalDuration computes the length of the longest chain.
LEMMA LongestChain ==
    ASSUME NEW actions, IsTemplate(actions)
    PROVE  LET chains == UNION {[1 .. n -> DOMAIN actions] : n \in 0 .. Cardinality(DOMAIN actions)}
               Length(c) == FoldSet(LAMBDA i, sum : sum + DurationOf(actions[c[i]]), 0, DOMAIN c)
           IN CalculateTotalDuration(actions) =
                Max({Length(c) : c \in {d \in chains : \A i \in 2 .. Len(d) : d[i - 1] \in actions[d[i]].after}})
<1> DEFINE D == DOMAIN actions
           chains == UNION {[1 .. n -> D] : n \in 0 .. Cardinality(D)}
           Length(c) == FoldSet(LAMBDA i, sum : sum + DurationOf(actions[c[i]]), 0, DOMAIN c)
           real == {d \in chains : \A i \in 2 .. Len(d) : d[i - 1] \in actions[d[i]].after}
           lengths == {Length(c) : c \in real}
           ends == {0} \cup {Ends(actions)[n] : n \in D}
<1>1. CalculateTotalDuration(actions) = Max(ends)
  BY DEF CalculateTotalDuration, Ends
<1>2. IsFiniteSet(D) /\ Cardinality(D) \in Nat
  BY FS_CardinalityType DEF IsTemplate
<1>3. Ends(actions) \in [D -> Nat]
  BY EndsSolve DEF Solves
<1>4. ends \in SUBSET Nat /\ Max(ends) \in ends /\ \A y \in ends : Max(ends) >= y
  <2> DEFINE image == {Ends(actions)[n] : n \in D}
  <2>1. Ends(actions) \in Surjection(D, image)
    BY <1>3 DEF Surjection
  <2>2. IsFiniteSet(image)
    BY <1>2, <2>1, FS_Surjection
  <2>3. IsFiniteSet(ends)
    BY <2>2, FS_AddElement
  <2>4. ends \in SUBSET Nat /\ ends # {}
    BY <1>3
  <2> HIDE DEF ends
  <2> QED  BY <2>3, <2>4, MaxIsLargest
<1>5. \A c : Length(c) = Sums(actions, c)[DOMAIN c]
  BY FoldIsSum
<1>6. ASSUME NEW k \in Nat, NEW d \in [1 .. k -> D] PROVE Len(d) = k /\ DOMAIN d = 1 .. k
  <2>1. d \in Seq(D)
    BY SMT
  <2> QED  BY <2>1, SMT
<1>7. ASSUME NEW d \in real
      PROVE  \E k \in Nat : IsChain(actions, d, k) /\ Length(d) = Sums(actions, d)[1 .. k]
  <2>1. PICK k \in 0 .. Cardinality(D) : d \in [1 .. k -> D]
    OBVIOUS
  <2>2. k \in Nat /\ Len(d) = k /\ DOMAIN d = 1 .. k
    BY <1>2, <1>6, <2>1
  <2>3. IsChain(actions, d, k)
    BY <2>1, <2>2 DEF IsChain
  <2> QED  BY <1>5, <2>2, <2>3
<1>8. ASSUME NEW k \in Nat, NEW c, IsChain(actions, c, k) PROVE c \in real /\ Length(c) = Sums(actions, c)[1 .. k]
  <2>1. k \in 0 .. Cardinality(D)
    BY <1>8, ChainIsShort
  <2>2. c \in [1 .. k -> D] /\ Len(c) = k /\ DOMAIN c = 1 .. k
    BY <1>6, <1>8 DEF IsChain
  <2>3. c \in chains
    BY <2>1, <2>2
  <2> QED  BY <1>5, <1>8, <2>2, <2>3 DEF IsChain
<1> HIDE DEF Length, real, ends
<1>9. ASSUME NEW d \in real PROVE Length(d) \in Nat /\ Max(ends) >= Length(d)
  <2>1. PICK k \in Nat : IsChain(actions, d, k) /\ Length(d) = Sums(actions, d)[1 .. k]
    BY <1>7
  <2>2. DOMAIN d = 1 .. k /\ d \in [1 .. k -> D]
    BY <2>1 DEF IsChain
  <2>3. CASE k = 0
    <3>1. Length(d) = 0
      BY <2>1, <2>2, <2>3, SumOfPrefix
    <3> QED  BY <1>4, <3>1 DEF ends
  <2>4. CASE k # 0
    <3>1. k \in 1 .. k
      BY <2>4
    <3>2. Sums(actions, d)[1 .. k] <= Ends(actions)[d[k]] /\ Sums(actions, d)[1 .. k] \in Nat
      BY <2>1, <2>2, <3>1, ChainEndsInTime, SumOfPrefix
    <3>3. d[k] \in D
      BY <2>2, <3>1
    <3>4. Ends(actions)[d[k]] \in ends /\ Ends(actions)[d[k]] \in Nat
      BY <1>3, <3>3 DEF ends
    <3>5. Ends(actions)[d[k]] <= Max(ends) /\ Max(ends) \in Nat
      BY <1>4, <3>4
    <3> DEFINE length == Sums(actions, d)[1 .. k]
    <3>6. length <= Max(ends) /\ length \in Nat /\ Length(d) = length
      <4> DEFINE last == Ends(actions)[d[k]]
      <4>1. length <= last /\ last <= Max(ends) /\ length \in Nat /\ last \in Nat
        BY <3>2, <3>4, <3>5
      <4> HIDE DEF length, last
      <4>2. length <= Max(ends)
        BY <3>5, <4>1
      <4> QED  BY <2>1, <4>1, <4>2 DEF length
    <3> HIDE DEF length
    <3> QED  BY <3>5, <3>6
  <2> QED  BY <2>3, <2>4
<1>10. \E d \in real : Length(d) = Max(ends)
  <2>1. CASE Max(ends) = 0
    <3> DEFINE c == [i \in 1 .. 0 |-> 0]
    <3>1. IsChain(actions, c, 0) /\ DOMAIN c = 1 .. 0
      BY DEF IsChain
    <3> HIDE DEF c
    <3>2. c \in real /\ Length(c) = Sums(actions, c)[1 .. 0]
      BY <1>8, <3>1
    <3>3. Sums(actions, c)[1 .. 0] = 0
      BY <3>1, SumOfPrefix
    <3> QED  BY <2>1, <3>2, <3>3
  <2>2. CASE Max(ends) # 0
    <3>1. PICK n \in D : Ends(actions)[n] = Max(ends)
      BY <1>4, <2>2 DEF ends
    <3>0. PICK k \in Nat : \E c : IsTight(actions, c, k) /\ c[k] = n
      BY TightChain
    <3>2. PICK c : IsTight(actions, c, k) /\ c[k] = n
      BY <3>0
    <3>3. IsChain(actions, c, k) /\ k \in 1 .. k
      BY <3>2 DEF IsTight
    <3>4. Sums(actions, c)[1 .. k] = Ends(actions)[c[k]]
      BY <3>2, <3>3, TightIsExact
    <3> QED  BY <1>8, <3>1, <3>2, <3>3, <3>4
  <2> QED  BY <2>1, <2>2
<1>11. Max(lengths) = Max(ends)
  <2>1. lengths \in SUBSET Nat /\ Max(ends) \in lengths /\ \A y \in lengths : Max(ends) >= y
    BY <1>9, <1>10
  <2> HIDE DEF lengths
  <2> QED  BY <2>1, LargestIsMax
<1> QED  BY <1>1, <1>11 DEF lengths, real, Length

-----------------------------------------------------------------------------
(* Discovery: the durations of templates                                   *)

\* A duration that is shown is what calculateTotalDuration makes of a version that
\* there is, and so is one that the cache has.
DurationInv ==
    /\ \A r \in Resources : version[r] + 1 \in DOMAIN scenario.actions
    /\ \A r \in DOMAIN durationCache : durationCache[r].of + 1 \in DOMAIN scenario.actions
    /\ \A k \in AccountKeys : \A r \in DOMAIN shown[k] :
        /\ shown[k][r].of + 1 \in DOMAIN scenario.actions
        /\ shown[k][r].total = CalculateTotalDuration(Actions(r, shown[k][r].of))

\* A version that there is is shown.
LEMMA ShowKeepsDurations ==
    ASSUME DiscoveryInv, DurationInv, NEW k \in AccountKeys, NEW r, NEW n, Show(k, r, n),
           n + 1 \in DOMAIN scenario.actions,
           UNCHANGED <<scenario, accounts, version, durationCache>>
    PROVE  DurationInv'
<1>1. Shaped /\ AccountKeys' = AccountKeys /\ \A q, m : Actions(q, m)' = Actions(q, m)
  BY DEF DiscoveryInv, AccountKeys, Actions
<1>2. /\ DOMAIN shown'[k] = {r} \cup DOMAIN shown[k]
      /\ shown'[k][r].of = n
      /\ shown'[k][r].total = CalculateTotalDuration(Actions(r, n))
      /\ \A q \in DOMAIN shown[k] : q # r => shown'[k][q] = shown[k][q]
      /\ \A l \in AccountKeys : l # k => shown'[l] = shown[l]
  BY <1>1, ShownAfter
<1>3. \A l \in AccountKeys : \A q \in DOMAIN shown'[l] :
        /\ shown'[l][q].of + 1 \in DOMAIN scenario.actions
        /\ shown'[l][q].total = CalculateTotalDuration(Actions(q, shown'[l][q].of))
  <2> SUFFICES ASSUME NEW l \in AccountKeys, NEW q \in DOMAIN shown'[l]
               PROVE  /\ shown'[l][q].of + 1 \in DOMAIN scenario.actions
                      /\ shown'[l][q].total = CalculateTotalDuration(Actions(q, shown'[l][q].of))
    OBVIOUS
  <2>1. CASE l = k /\ q = r
    BY <1>2, <2>1
  <2>2. CASE l # k \/ q # r
    <3>1. q \in DOMAIN shown[l] /\ shown'[l][q] = shown[l][q]
      BY <1>2, <2>2
    <3> QED  BY <3>1 DEF DurationInv
  <2> QED  BY <2>1, <2>2
<1> QED  BY <1>1, <1>3 DEF DurationInv, Actions

\* Durations that are shown are shown still, or not at all.
LEMMA DurationsStay ==
    ASSUME DurationInv, UNCHANGED <<scenario, version, durationCache>>,
           \A k \in AccountKeys' : \A r \in DOMAIN shown'[k] :
               k \in AccountKeys /\ r \in DOMAIN shown[k] /\ shown'[k][r] = shown[k][r]
    PROVE  DurationInv'
BY DEF DurationInv, Actions

\* A worker at the templates.
LEMMA SupplierKeepsDurations ==
    ASSUME DiscoveryInv, DurationInv, NEW k \in AccountKeys, SupplierStep(k)
    PROVE  DurationInv'
<1>0. Shaped
  BY DEF DiscoveryInv
<1>1. ASSUME UNCHANGED <<scenario, accounts, version, durationCache, shown>> PROVE DurationInv'
  BY <1>1, DurationsStay DEF AccountKeys
<1>2. ASSUME NEW j \in Jobs, NEW ok \in BOOLEAN, InitZonesCache(j, k, ok) \/ InitVpcCache(j, k, ok)
      PROVE  DurationInv'
  BY <1>1, <1>2 DEF InitZonesCache, InitVpcCache, fis
<1>3. CASE ReadZones(k) \/ Collect(k) \/ FinishTemplates(k)
  BY <1>1, <1>3 DEF ReadZones, Collect, FinishTemplates, fis
<1>4. ASSUME NEW ok \in BOOLEAN, ListTemplates(k, ok) PROVE DurationInv'
  <2>1. UNCHANGED <<scenario, accounts, version, durationCache>>
    BY <1>4 DEF ListTemplates
  <2>2. shown' = shown \/ shown' = [shown EXCEPT ![k] = <<>>]
    BY <1>4 DEF ListTemplates
  <2>3. CASE shown' = [shown EXCEPT ![k] = <<>>]
    <3>1. DOMAIN shown'[k] = {} /\ \A l \in AccountKeys : l # k => shown'[l] = shown[l]
      BY <1>0, <2>3 DEF Shaped
    <3> QED  BY <2>1, <3>1, DurationsStay DEF AccountKeys
  <2> QED  BY <1>1, <2>1, <2>2, <2>3
<1>5. ASSUME NEW ok \in BOOLEAN, GetTemplate(k, ok) PROVE DurationInv'
  <2>1. UNCHANGED <<scenario, accounts, version, durationCache>> /\ at["collect"][k] = "get"
    BY <1>5 DEF GetTemplate
  <2>2. CASE ok
    <3>1. Show(k, reading[k], version[reading[k]])
      BY <1>5, <2>2 DEF GetTemplate
    <3>2. reading[k] \in Resources
      BY <2>1 DEF DiscoveryInv, ListInv
    <3>3. version[reading[k]] + 1 \in DOMAIN scenario.actions
      BY <3>2 DEF DurationInv
    <3> QED  BY <2>1, <3>1, <3>3, ShowKeepsDurations
  <2>3. CASE ~ok
    BY <1>1, <1>5, <2>1, <2>3 DEF GetTemplate
  <2> QED  BY <2>2, <2>3
<1>6. CASE LookUp(k)
  <2>1. UNCHANGED <<scenario, accounts, version, durationCache>>
    BY <1>6 DEF LookUp
  <2>2. PICK r : \/ Cached(r, listed[k][r]) /\ Show(k, r, durationCache[r].of)
                 \/ UNCHANGED shown
    BY <1>6 DEF LookUp
  <2>3. CASE Cached(r, listed[k][r]) /\ Show(k, r, durationCache[r].of)
    <3>1. durationCache[r].of + 1 \in DOMAIN scenario.actions
      BY <2>3 DEF Cached, DurationInv
    <3> QED  BY <2>1, <2>3, <3>1, ShowKeepsDurations
  <2> QED  BY <1>1, <2>1, <2>2, <2>3
<1>7. CASE StoreDuration(k)
  <2>1. UNCHANGED <<scenario, accounts, version, shown>> /\ at["collect"][k] = "store"
    BY <1>7 DEF StoreDuration
  <2>2. /\ DOMAIN durationCache' = {reading[k]} \cup DOMAIN durationCache
        /\ durationCache'[reading[k]].of = shown[k][reading[k]].of
        /\ \A q \in DOMAIN durationCache : q # reading[k] => durationCache'[q] = durationCache[q]
    BY <1>7 DEF StoreDuration, Put
  <2>3. reading[k] \in DOMAIN shown[k]
    BY <2>1 DEF DiscoveryInv, ListInv
  <2>4. shown[k][reading[k]].of + 1 \in DOMAIN scenario.actions
    BY <2>3 DEF DurationInv
  <2> QED  BY <2>1, <2>2, <2>4 DEF DurationInv, AccountKeys, Actions
<1> QED  BY <1>2, <1>3, <1>4, <1>5, <1>6, <1>7 DEF SupplierStep

\* Every step keeps the durations.
LEMMA DurationsKept ==
    ASSUME DiscoveryInv, DurationInv, [DiscoveryNext]_discoveryVars
    PROVE  DurationInv'
<1>1. ASSUME UNCHANGED <<scenario, accounts, version, durationCache, shown>> PROVE DurationInv'
  BY <1>1, DurationsStay DEF AccountKeys
<1>2. CASE Refuse
  BY <1>1, <1>2 DEF Refuse, fis
<1>3. CASE Configure
  <2>1. UNCHANGED <<scenario, version, durationCache>>
    BY <1>3 DEF Configure
  <2>2. \A k \in AccountKeys' : shown'[k] = <<>>
    BY <1>3 DEF Configure, AccountKeys
  <2> QED  BY <2>1, <2>2, DurationsStay
<1>4. CASE PoolStep
  BY <1>1, <1>4, SupplierKeepsDurations DEF PoolStep, Take, Answer, fis
<1>5. CASE \E j \in Jobs : Begin(j)
  BY <1>1, <1>5 DEF Begin, fis
<1>6. CASE ConcurrentMapAccess
  BY <1>1, <1>6 DEF ConcurrentMapAccess, fis
<1>7. ASSUME NEW r \in Resources, UpdateTemplate(r) PROVE DurationInv'
  <2>1. UNCHANGED <<scenario, accounts, durationCache, shown>>
    BY <1>7 DEF UpdateTemplate
  <2>2. /\ version' = [version EXCEPT ![r] = @ + 1] /\ version \in [Resources -> Nat]
        /\ version[r] + 2 \in DOMAIN scenario.actions
    BY <1>7 DEF UpdateTemplate, DiscoveryInv, Shaped
  <2>3. version'[r] + 1 = version[r] + 2 /\ \A q \in Resources : q # r => version'[q] = version[q]
    BY <2>2
  <2>4. \A q \in Resources : version'[q] + 1 \in DOMAIN scenario.actions
    BY <2>2, <2>3 DEF DurationInv
  <2> QED  BY <2>1, <2>4 DEF DurationInv, AccountKeys, Actions
<1>8. CASE UNCHANGED discoveryVars
  BY <1>1, <1>8 DEF discoveryVars, fis
<1> QED  BY <1>2, <1>3, <1>4, <1>5, <1>6, <1>7, <1>8 DEF DiscoveryNext

\* The duration that is shown for a template is the length of the longest chain of
\* the actions of one of its versions (template_discovery.go:214).
THEOREM DurationIsRight == DiscoverySpec => []DurationRight
<1>1. DiscoveryInit => DurationInv
  <2> SUFFICES ASSUME DiscoveryInit PROVE DurationInv
    OBVIOUS
  <2>1. 1 \in DOMAIN scenario.actions
    BY ScenariosAssumption DEF DiscoveryInit
  <2>2. (\A r \in Resources : version[r] + 1 = 1) /\ DOMAIN durationCache = {} /\ AccountKeys = {}
    BY NoKeys DEF DiscoveryInit
  <2> QED  BY <2>1, <2>2 DEF DurationInv
<1>2. DiscoveryInv /\ DurationInv => DurationRight
  <2> SUFFICES ASSUME DiscoveryInv, DurationInv, NEW k \in DOMAIN shown, NEW r \in DOMAIN shown[k]
               PROVE  LET actions == Actions(r, shown[k][r].of)
                          chains == UNION {[1 .. n -> DOMAIN actions] : n \in 0 .. Cardinality(DOMAIN actions)}
                          Length(c) == FoldSet(LAMBDA i, sum : sum + DurationOf(actions[c[i]]), 0, DOMAIN c)
                      IN
                      shown[k][r].total =
                        Max({Length(c) : c \in {d \in chains : \A i \in 2 .. Len(d) : d[i - 1] \in actions[d[i]].after}})
    BY DEF DurationRight
  <2> DEFINE acts == Actions(r, shown[k][r].of)
  <2>1. k \in AccountKeys /\ scenario \in Scenarios
    BY DEF DiscoveryInv, Shaped
  <2>2. shown[k][r].of + 1 \in DOMAIN scenario.actions /\ shown[k][r].total = CalculateTotalDuration(acts)
    BY <2>1 DEF DurationInv
  <2>3. IsTemplate(acts)
    BY <2>1, <2>2, ScenariosAssumption DEF Actions
  <2> HIDE DEF acts
  <2> QED  BY <2>2, <2>3, LongestChain DEF acts
<1> QED  BY <1>1, <1>2, DurationsKept, DiscoveryInvariant, PTL DEF DiscoverySpec
=============================================================================
