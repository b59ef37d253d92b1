-------------------------------- MODULE Triggers --------------------------------
(***************************************************************************)
(* The attacks that trigger something and have nothing to bring back:      *)
(* state changes of EC2 instances, reboots, stops and failovers of         *)
(* databases, caches and brokers, ECS task stop, termination of instances  *)
(* of an EKS node group; and experiments of FIS templates, which are       *)
(* started, watched and stopped.                                           *)
(*                                                                         *)
(* Every request looks up the access that found the target and makes one   *)
(* call that matters, except the Start of a task stop and the Stop of an   *)
(* experiment: they look first, and the world moves on before they act.    *)
(* The extension may be restarted, other roles can be assumed then.        *)
(***************************************************************************)
EXTENDS Configuration, FiniteSets

CONSTANTS
    Executions,
    Units,        \* instances, databases, brokers, tasks, or FIS templates
    Kinds,        \* the kinds of attacks
    Config,       \* the configuration, as ParseConfiguration returns it
    Percentages,  \* the percentages the user may ask for
    MaxFaults,    \* bound: calls that fail and replies that get lost
    MaxRestarts,  \* bound: restarts of the extension
    MaxChanges    \* bound: changes by the owner of the units

OneCall == {"ec2", "rdsReboot", "rdsStop", "rdsCluster", "elasticache", "msk", "mq", "nodegroup"}

ASSUME TriggersAssumption ==
    /\ IsFiniteSet(Units)
    /\ Kinds \subseteq OneCall \cup {"task", "fis"}
    /\ Percentages \subseteq Nat
    /\ MaxFaults \in Nat /\ MaxRestarts \in Nat /\ MaxChanges \in Nat

VARIABLES
    kind,        \* of the attacks of this behaviour
    status,      \* AWS: of every unit
    experiment,  \* AWS: of every execution of a FIS template
    phase,       \* platform: how far an execution is
    key,         \* state: account, region and role that found the target
    chosen,      \* state: the units to act on
    after,       \* state: what the call makes of them
    hasId,       \* state: ExperimentId is set
    percentage,  \* state: what the user has asked for
    considered,  \* history: the units that were to choose from
    looked,      \* history: the status of the task when Start looked
    hit,         \* history: the units that calls have had an effect on
    acted,       \* history: account, region and role of these calls
    lost,        \* history: a reply to such a call got lost
    faults, restarts, changes

aws == <<status, experiment>>
choice == <<key, chosen, after, percentage, considered>>
history == <<looked, hit, acted, lost>>
bounds == <<faults, restarts, changes>>
vars == <<kind, accounts, aws, phase, choice, hasId, history, bounds>>

Keys == DOMAIN AccountsMap(InitializeAwsAccess(Config, {}))
Access(e) == GetAwsAccess(key[e][1], key[e][2], key[e][3])
Used(e) == <<Access(e).account, Access(e).region, Access(e).role>>
Fault == faults < MaxFaults /\ faults' = faults + 1

-----------------------------------------------------------------------------
(* What a call makes of a unit: "up" runs and is in service, "down" does   *)
(* not, "detached" runs and has left its node group.                       *)

Statuses == {"up", "down", "detached", "gone"}

InstanceState ==
    [reboot |-> "up", stop |-> "down", hibernate |-> "down", terminate |-> "gone", start |-> "up"]
RebootDBInstance == "up"
StopDBInstance == "down"
FailoverDBCluster == "up"
TestFailover == "up"
RebootKafkaBroker == "up"
RebootBroker == "up"
TerminateInstances == "gone"

Calls(k) ==
    CASE k = "ec2" -> {InstanceState[action] : action \in DOMAIN InstanceState}
      [] k = "rdsReboot" -> {RebootDBInstance}
      [] k = "rdsStop" -> {StopDBInstance}
      [] k = "rdsCluster" -> {FailoverDBCluster}
      [] k = "elasticache" -> {TestFailover}
      [] k = "msk" -> {RebootKafkaBroker}
      [] k = "mq" -> {RebootBroker}
      [] k = "nodegroup" -> {TerminateInstances}
      [] OTHER -> {"down"}

\* The life of an experiment.
Begun == {"pending", "initiating", "running"}
Moves ==
    {<<"pending", "initiating">>, <<"initiating", "running">>, <<"running", "completed">>,
     <<"stopping", "stopped">>} \cup (Begun \X {"failed", "cancelled"})
ExperimentStatuses == Begun \cup {"none", "stopping", "stopped", "completed", "failed", "cancelled"}

\* The process that has found the targets.
Init ==
    /\ kind \in Kinds
    /\ accounts = AccountsMap(InitializeAwsAccess(Config, {}))
    /\ status \in [Units -> Statuses \ {"detached", "gone"}]
    /\ experiment = [e \in Executions |-> "none"]
    /\ phase = [e \in Executions |-> "new"]
    /\ key = [e \in Executions |-> Unset]
    /\ chosen = [e \in Executions |-> {}]
    /\ after = [e \in Executions |-> "up"]
    /\ hasId = [e \in Executions |-> FALSE]
    /\ percentage = [e \in Executions |-> 0]
    /\ considered = chosen /\ looked = after /\ hit = chosen /\ acted = chosen
    /\ lost = hasId
    /\ faults = 0 /\ restarts = 0 /\ changes = 0

(* Prepare. ----------------------------------------------------------------*)

\* The target of discovery k is chosen, with the units to act on.
Choose(e, k, from, units, pct) ==
    /\ phase' = [phase EXCEPT ![e] = "prepared"]
    /\ key' = [key EXCEPT ![e] = k]
    /\ considered' = [considered EXCEPT ![e] = from]
    /\ chosen' = [chosen EXCEPT ![e] = units]
    /\ percentage' = [percentage EXCEPT ![e] = pct]
    /\ \E s \in Calls(kind) : after' = [after EXCEPT ![e] = s]

\* Prepare of all attacks but that on node groups copies the target.
Prepare(e) ==
    /\ kind # "nodegroup" /\ phase[e] = "new"
    /\ \E k \in Keys, u \in Units : Choose(e, k, {u}, {u}, 100)
    /\ UNCHANGED <<kind, accounts, aws, hasId, history, bounds>>

\* Mutant: one more than the whole part.
SampleSizeOver(n, pct) == IF (n * pct) \div 100 + 1 > n THEN n ELSE (n * pct) \div 100 + 1

\* The percentage of the instances, rounded up, which is at least one.
SampleSize(n, pct) == (n * pct + 99) \div 100

\* Prepare of an attack on a node group chooses at random from the instances
\* that are in service.
PrepareNodegroup(e) ==
    LET inService == {u \in Units : status[u] = "up"} IN
    /\ kind = "nodegroup" /\ phase[e] = "new"
    /\ \E k \in Keys, pct \in Percentages :
        \/ /\ pct \in 1 .. 100 /\ k \in DOMAIN accounts /\ inService # {}
           /\ \E S \in SUBSET inService :
                /\ Cardinality(S) = SampleSize(Cardinality(inService), pct)
                /\ Choose(e, k, inService, S, pct)
           /\ UNCHANGED faults
        \/ /\ phase' = [phase EXCEPT ![e] = "refused"] /\ UNCHANGED choice
           /\ IF pct \in 1 .. 100 /\ k \in DOMAIN accounts /\ inService # {}
              THEN Fault ELSE UNCHANGED faults
    /\ UNCHANGED <<kind, accounts, aws, hasId, history, restarts, changes>>

(* Start. ------------------------------------------------------------------*)

StartFails(e) == phase' = [phase EXCEPT ![e] = "startFailed"] /\ UNCHANGED <<status, hit, acted, lost>>

\* The call takes effect, its reply arrives or not.
CallTakesEffect(e) ==
    /\ status' = [u \in Units |-> IF u \in chosen[e] THEN after[e] ELSE status[u]]
    /\ hit' = [hit EXCEPT ![e] = @ \cup chosen[e]]
    /\ acted' = [acted EXCEPT ![e] = @ \cup {Used(e)}]
    /\ \/ phase' = [phase EXCEPT ![e] = "triggered"] /\ UNCHANGED <<lost, faults>>
       \/ phase' = [phase EXCEPT ![e] = "startFailed"] /\ lost' = [lost EXCEPT ![e] = TRUE] /\ Fault

\* AWS refuses to act on what is gone, and may on what is down.
AwsMayRefuse(e) == \E u \in chosen[e] : status[u] \in {"down", "gone"}
AwsMayAct(e) == \A u \in chosen[e] : status[u] # "gone"

\* Start of an attack with one call; the instances of a node group are
\* terminated together or not at all.
Start(e) ==
    /\ kind \in OneCall /\ phase[e] = "prepared"
    /\ \/ Access(e) # Unset /\ AwsMayAct(e) /\ CallTakesEffect(e)
       \/ StartFails(e) /\ IF Access(e) = Unset \/ AwsMayRefuse(e) THEN UNCHANGED faults ELSE Fault
    /\ UNCHANGED <<kind, accounts, experiment, choice, hasId, looked, restarts, changes>>

\* Mutant: the status of the task does not matter.
LookAtNothing(e) ==
    /\ kind = "task" /\ phase[e] = "prepared"
    /\ looked' = [looked EXCEPT ![e] = CHOOSE s \in {status[u] : u \in chosen[e]} : TRUE]
    /\ \/ Access(e) # Unset /\ phase' = [phase EXCEPT ![e] = "looked"] /\ UNCHANGED <<status, hit, acted, lost, faults>>
       \/ StartFails(e) /\ IF Access(e) = Unset THEN UNCHANGED faults ELSE Fault
    /\ UNCHANGED <<kind, accounts, experiment, choice, hasId, restarts, changes>>

\* DescribeTasks in the Start of a task stop: "Task not running"; a task that
\* AWS does not know is no reason to end.
LookAtTask(e) ==
    /\ kind = "task" /\ phase[e] = "prepared"
    /\ looked' = [looked EXCEPT ![e] = CHOOSE s \in {status[u] : u \in chosen[e]} : TRUE]
    /\ \/ Access(e) # Unset /\ looked'[e] # "down"
          /\ phase' = [phase EXCEPT ![e] = "looked"] /\ UNCHANGED <<status, hit, acted, lost, faults>>
       \/ StartFails(e) /\ IF Access(e) = Unset \/ looked'[e] = "down" THEN UNCHANGED faults ELSE Fault
    /\ UNCHANGED <<kind, accounts, experiment, choice, hasId, restarts, changes>>

\* StopTask, also of a task that has ended meanwhile.
StopTask(e) ==
    /\ phase[e] = "looked"
    /\ \/ AwsMayAct(e) /\ CallTakesEffect(e)
       \/ StartFails(e) /\ IF AwsMayAct(e) THEN Fault ELSE UNCHANGED faults
    /\ UNCHANGED <<kind, accounts, experiment, choice, hasId, looked, restarts, changes>>

\* startExperiment; the id is in the reply.
StartExperiment(e) ==
    /\ kind = "fis" /\ phase[e] = "prepared"
    /\ \/ /\ Access(e) # Unset
          /\ experiment' = [experiment EXCEPT ![e] = "pending"]
          /\ acted' = [acted EXCEPT ![e] = @ \cup {Used(e)}]
          /\ \/ /\ phase' = [phase EXCEPT ![e] = "active"]
                /\ hasId' = [hasId EXCEPT ![e] = TRUE]
                /\ UNCHANGED <<lost, faults>>
             \/ /\ phase' = [phase EXCEPT ![e] = "startFailed"]
                /\ lost' = [lost EXCEPT ![e] = TRUE] /\ Fault
                /\ UNCHANGED hasId
       \/ /\ phase' = [phase EXCEPT ![e] = "startFailed"]
          /\ IF Access(e) = Unset THEN UNCHANGED faults ELSE Fault
          /\ UNCHANGED <<experiment, acted, lost, hasId>>
    /\ UNCHANGED <<kind, accounts, status, choice, looked, hit, restarts, changes>>

(* Status and Stop of an experiment. ---------------------------------------*)

\* Mutant: an experiment that somebody else has stopped goes on.
CompletedOnly == {"completed"}

\* The statuses that end the execution without an error.
Ended == {"completed", "stopped"}

\* statusExperiment; after an error the platform asks again, or stops.
Status(e) ==
    /\ kind = "fis" /\ phase[e] = "active" /\ Access(e) # Unset
    /\ \/ experiment[e] \in Ended /\ phase' = [phase EXCEPT ![e] = "completed"] /\ UNCHANGED faults
       \/ experiment[e] = "failed" /\ phase' = [phase EXCEPT ![e] = "failed"] /\ UNCHANGED faults
       \/ UNCHANGED phase /\ Fault
    /\ UNCHANGED <<kind, accounts, aws, choice, hasId, history, restarts, changes>>

\* Mutant: an experiment that initiates is taken for one that has ended.
RunningOnly == {"pending", "running"}

\* The statuses in which stopExperiment stops.
Stoppable == {"pending", "initiating", "running"}

\* The platform may stop at any time, and again.
MayStop == {"prepared", "active", "startFailed", "completed", "failed", "stopFailed", "stopped"}

\* stopExperiment looks at the experiment first; without an id it cannot.
Stop(e) ==
    /\ kind = "fis" /\ phase[e] \in MayStop
    /\ \/ /\ Access(e) # Unset /\ hasId[e]
          /\ phase' = [phase EXCEPT ![e] = IF experiment[e] \in Stoppable THEN "stopping" ELSE "stopped"]
          /\ UNCHANGED faults
       \/ /\ phase' = [phase EXCEPT ![e] = "stopFailed"]
          /\ IF Access(e) # Unset /\ hasId[e] THEN Fault ELSE UNCHANGED faults
    /\ UNCHANGED <<kind, accounts, aws, choice, hasId, history, restarts, changes>>

\* AWS may refuse to stop an experiment that has ended.
StopExperiment(e) ==
    /\ phase[e] = "stopping"
    /\ \/ /\ experiment[e] \in Begun
          /\ experiment' = [experiment EXCEPT ![e] = "stopping"]
          /\ \/ phase' = [phase EXCEPT ![e] = "stopped"] /\ UNCHANGED <<lost, faults>>
             \/ phase' = [phase EXCEPT ![e] = "stopFailed"] /\ lost' = [lost EXCEPT ![e] = TRUE] /\ Fault
       \/ /\ experiment[e] \notin Begun
          /\ \E p \in {"stopped", "stopFailed"} : phase' = [phase EXCEPT ![e] = p]
          /\ UNCHANGED <<experiment, lost, faults>>
       \/ phase' = [phase EXCEPT ![e] = "stopFailed"] /\ Fault /\ UNCHANGED <<experiment, lost>>
    /\ UNCHANGED <<kind, accounts, status, choice, hasId, looked, hit, acted, restarts, changes>>

(* The world. --------------------------------------------------------------*)

\* A restart ends the requests and assumes the roles again.
Restart(failing) ==
    /\ restarts < MaxRestarts /\ restarts' = restarts + 1
    /\ accounts' = AccountsMap(InitializeAwsAccess(Config, failing))
    /\ phase' = [e \in Executions |->
                    CASE phase[e] = "looked" -> "startFailed"
                      [] phase[e] = "stopping" -> "stopFailed"
                      [] OTHER -> phase[e]]
    /\ UNCHANGED <<kind, aws, choice, hasId, history, faults, changes>>

\* A unit comes up, goes down, leaves its node group or disappears.
OwnerChanges(u) ==
    /\ changes < MaxChanges /\ changes' = changes + 1
    /\ status[u] # "gone"
    /\ \E s \in Statuses \ {status[u]} :
         /\ s = "detached" => kind = "nodegroup" /\ status[u] = "up"
         /\ status' = [status EXCEPT ![u] = s]
    /\ UNCHANGED <<kind, accounts, experiment, phase, choice, hasId, history, faults, restarts>>

ExperimentMoves(e) ==
    /\ \E move \in Moves : experiment[e] = move[1] /\ experiment' = [experiment EXCEPT ![e] = move[2]]
    /\ UNCHANGED <<kind, accounts, status, phase, choice, hasId, history, bounds>>

\* Somebody stops the experiment at AWS.
OwnerStops(e) ==
    /\ changes < MaxChanges /\ changes' = changes + 1
    /\ experiment[e] \in Begun /\ experiment' = [experiment EXCEPT ![e] = "stopping"]
    /\ UNCHANGED <<kind, accounts, status, phase, choice, hasId, history, faults, restarts>>

Next ==
    \/ \E e \in Executions :
        \/ Prepare(e) \/ PrepareNodegroup(e)
        \/ Start(e) \/ LookAtTask(e) \/ StopTask(e) \/ StartExperiment(e)
        \/ Status(e) \/ Stop(e) \/ StopExperiment(e)
        \/ ExperimentMoves(e) \/ OwnerStops(e)
    \/ \E failing \in SUBSET {role.arn : role \in Items(Config.roles)} : Restart(failing)
    \/ \E u \in Units : OwnerChanges(u)

Spec == Init /\ [][Next]_vars

\* The platform goes on asking for the status, and experiments do not last for
\* ever.
Fairness == \A e \in Executions : WF_vars(Status(e)) /\ WF_vars(ExperimentMoves(e))

FairSpec == Spec /\ Fairness

-----------------------------------------------------------------------------
(* Properties                                                              *)

Phases == {"new", "refused", "looked", "triggered", "stopping"} \cup MayStop

\* Every variable has its type, and an access is found under its own account,
\* region and role.
TypeOK ==
    /\ kind \in Kinds
    /\ \A k \in DOMAIN accounts :
        k \in Keys /\ k = <<accounts[k].account, accounts[k].region, accounts[k].role>>
    /\ status \in [Units -> Statuses]
    /\ experiment \in [Executions -> ExperimentStatuses]
    /\ phase \in [Executions -> Phases]
    /\ key \in [Executions -> Keys \cup {Unset}]
    /\ chosen \in [Executions -> SUBSET Units] /\ considered \in [Executions -> SUBSET Units]
    /\ after \in [Executions -> Statuses] /\ looked \in [Executions -> Statuses]
    /\ hasId \in [Executions -> BOOLEAN] /\ lost \in [Executions -> BOOLEAN]
    /\ percentage \in [Executions -> Nat]
    /\ hit \in [Executions -> SUBSET Units] /\ acted \in [Executions -> SUBSET Keys]
    /\ faults \in Nat /\ restarts \in Nat /\ changes \in Nat

\* A Start that was answered without an error has acted on all the units it was
\* to act on, a task was running when it looked; a Start that was answered with
\* one has not touched any, or the reply of AWS got lost.
AnswersAreTrue ==
    \A e \in Executions :
        /\ phase[e] = "triggered" => hit[e] = chosen[e] /\ (kind = "task" => looked[e] = "up")
        /\ phase[e] = "startFailed" /\ ~lost[e] => hit[e] = {} /\ experiment[e] = "none"

\* However the units change, requests fail and the extension restarts with other
\* roles: an execution acts with the account, region and role that found its
\* target, and only on the target, for a node group on instances that were in
\* service when it was prepared and not on one more than the percentage needs.
BlastRadius ==
    \A e \in Executions :
        /\ acted[e] \subseteq {key[e]}
        /\ hit[e] \subseteq considered[e]
        /\ hit[e] # {} =>
             (Cardinality(hit[e]) - 1) * 100 < percentage[e] * Cardinality(considered[e])

\* A Stop that was answered without an error leaves an experiment that ends or
\* has ended, also if the reply to its start got lost, it has moved since it was
\* looked at or somebody else stops it; an experiment that was reported as
\* completed or failed is so.
StoppedMeansEnding ==
    \A e \in Executions :
        /\ phase[e] = "stopped" => experiment[e] \notin Begun \cup {"none"}
        /\ phase[e] = "completed" => experiment[e] \in {"completed", "stopped"}
        /\ phase[e] = "failed" => experiment[e] = "failed"

\* The end of an experiment is reported, whoever has caused it, if its account
\* can be reached; except that of one that is cancelled, the execution waits for
\* it (start_experiment.go:178).
EventuallyReported ==
    \A e \in Executions :
        phase[e] = "active" ~> (phase[e] # "active" \/ experiment[e] = "cancelled" \/ Access(e) = Unset)
=============================================================================
