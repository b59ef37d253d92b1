-------------------------------- MODULE Settings --------------------------------
(***************************************************************************)
(* The attacks that overwrite settings of an AWS resource and write the    *)
(* old ones back: what each of them reads in Prepare, writes in Start and  *)
(* writes in Stop.  The operators that write have the names of the         *)
(* functions of the code, or of the calls to AWS that they make.           *)
(*                                                                         *)
(* A resource is a function from its settings to numbers.  Missing stands  *)
(* for a setting that is not there: a limit that is not set, an index, a   *)
(* parameter or a service that does not exist.  What a call sends is a     *)
(* function from the settings it mentions.                                 *)
(***************************************************************************)
EXTENDS Integers

CONSTANTS
    Indexes,    \* the global secondary indexes a table may have
    Processes   \* the processes of an Auto Scaling group

Missing == -1

\* The resources under attack: an SQS queue, an ECS service, a DynamoDB table,
\* stages of a REST and an HTTP API, an Auto Scaling group, an EventBridge rule
\* and a wrapped Lambda function.
Kinds == {"queue", "service", "table", "restStage", "httpStage", "group", "rule", "function"}

SettingsOf(k) ==
    CASE k = "queue" -> {"visibilityTimeout"}
      [] k = "service" -> {"desiredCount"}
      [] k = "table" -> {"table"} \cup Indexes
      [] k = "restStage" -> {"methodSetting", "rateLimit", "burstLimit"}
      [] k = "httpStage" -> {"rateLimit", "burstLimit", "logging"}
      [] k = "group" -> Processes
      [] k = "rule" -> {"state"}
      [] k = "function" -> {"parameter"}

Limits == {"rateLimit", "burstLimit"}

\* The states of a resource.  A REST stage has limits only in a method setting.
Resources(k) == [SettingsOf(k) -> Nat \cup {Missing}]
Coherent(k, u) ==
    k = "restStage" => u["methodSetting"] = 1 \/ \A s \in Limits : u[s] = Missing

\* What the defaults of AWS amount to, as the code writes them.
Default(k, s) ==
    CASE k = "queue" -> 30
      [] k = "httpStage" /\ s = "rateLimit" -> 10000
      [] k = "httpStage" /\ s = "burstLimit" -> 5000
      [] OTHER -> Missing
OrDefault(k, s, x) == IF x = Missing THEN Default(k, s) ELSE x

\* Two values of a setting that make no difference to the resource.
Alike(k, s, x, y) == OrDefault(k, s, x) = OrDefault(k, s, y)

-----------------------------------------------------------------------------
(* Prepare                                                                 *)

\* What the call of Prepare returns.  GetStage of a REST API has no pointers: a
\* limit that is not set is reported as 0 or as -1.
Reported(k, u) ==
    IF k = "restStage"
    THEN {[s \in SettingsOf(k) |-> IF s \in Limits /\ u[s] = Missing THEN unset[s] ELSE u[s]] :
            unset \in [Limits -> {0, Missing}]}
    ELSE {u}

\* A service that is not found.
ServiceRefused(r) == r["desiredCount"] = Missing

\* The table and the indexes that a description r of it has; a capacity that
\* none of them would change is refused.
Provisioned(r) == {s \in SettingsOf("table") : r[s] # Missing}
TableRefused(r, target) == \A s \in Provisioned(r) : r[s] = target

\* Mutant: all that are requested.
AllRequested(r, requested) == requested

\* The processes that an execution suspends: those not suspended already, as
\* far as the discovery knows.
ToSuspend(r, requested) == {p \in requested : r[p] = 0}

\* HadOriginalThrottleSettings.
HadRestLimits(r) == \E s \in Limits : r[s] > 0
HadHttpLimits(r) == \E s \in Limits : r[s] # Missing

-----------------------------------------------------------------------------
(* What the calls send.  r is what Prepare has read, n a number, P a set   *)
(* of processes.                                                           *)

SetVisibilityTimeout(n) == [visibilityTimeout |-> n]
UpdateService(n) == [desiredCount |-> n]

TableTarget(r, n) == [s \in Provisioned(r) |-> n]
OriginalCapacity(r) == [s \in Provisioned(r) |-> r[s]]

SuspendProcesses(P) == [p \in P |-> 1]
ResumeProcesses(P) == [p \in P |-> 0]

DisableRule == [state |-> 0]
EnableRule == [state |-> 1]

PutParameter(n) == [parameter |-> n]
DeleteParameter == [parameter |-> Missing]

\* Limits create the method setting of all methods.
StartRest(n) == [methodSetting |-> 1, rateLimit |-> n, burstLimit |-> n]

\* The stage gets its limits back, or none, or loses the method setting that
\* Start has created.
StopRest(r) ==
    [s \in SettingsOf("restStage") |->
        IF HadRestLimits(r) THEN IF s \in Limits THEN r[s] ELSE 1
        ELSE IF s \in Limits THEN Missing ELSE r[s]]

\* Mutants: without the snapshot; without the defaults for limits that were not set.
LimitsOnly(r) == Limits
SnapshotOnly(r) == {s \in SettingsOf("httpStage") : r[s] # Missing}

\* The settings sent of an HTTP stage: those of the snapshot that are not nil,
\* and the limits that Start sets or that Stop must reset.
HttpThrottled(r) == Limits \cup {s \in {"logging"} : r[s] # Missing}
HttpRestored(r) ==
    {s \in SettingsOf("httpStage") : r[s] # Missing \/ (s \in Limits /\ ~HadHttpLimits(r))}

StartHttp(r, n) == [s \in HttpThrottled(r) |-> IF s \in Limits THEN n ELSE r[s]]
StopHttp(r) == [s \in HttpRestored(r) |-> OrDefault("httpStage", s, r[s])]

-----------------------------------------------------------------------------
(* Start and Stop                                                          *)

StartWrites(k, r, target, requested) ==
    CASE k = "queue" -> SetVisibilityTimeout(target)
      [] k = "service" -> UpdateService(target)
      [] k = "table" -> TableTarget(r, target)
      [] k = "restStage" -> StartRest(target)
      [] k = "httpStage" -> StartHttp(r, target)
      [] k = "group" -> SuspendProcesses(ToSuspend(r, requested))
      [] k = "rule" -> DisableRule
      [] k = "function" -> PutParameter(target)

StopWrites(k, r, requested) ==
    CASE k = "queue" ->
            SetVisibilityTimeout(OrDefault(k, "visibilityTimeout", r["visibilityTimeout"]))
      [] k = "service" -> UpdateService(r["desiredCount"])
      [] k = "table" -> OriginalCapacity(r)
      [] k = "restStage" -> StopRest(r)
      [] k = "httpStage" -> StopHttp(r)
      [] k = "group" -> ResumeProcesses(ToSuspend(r, requested))
      [] k = "rule" -> EnableRule
      [] k = "function" -> DeleteParameter

\* What a call that sends w writes.  For an HTTP stage the comments of the code
\* disagree: UpdateStage "replaces the whole DefaultRouteSettings object", so
\* that what is left out is cleared, or what is left out is "no change".
Effect(k, clears, w) ==
    IF k = "httpStage" /\ clears
    THEN [s \in SettingsOf(k) |-> IF s \in DOMAIN w THEN w[s] ELSE Missing]
    ELSE w

Written(v, w) == [s \in DOMAIN v |-> IF s \in DOMAIN w THEN w[s] ELSE v[s]]
=============================================================================
