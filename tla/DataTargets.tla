-------------------------------- MODULE DataTargets --------------------------------
(***************************************************************************)
(* The discoveries of extdynamodb, extrds, extelasticache, extmsk, extmq,  *)
(* extsqs, exteventbridge and extfis.  Every table is scaled automatically *)
(* and every rule has targets: to show neither is a false claim.           *)
(***************************************************************************)
EXTENDS Collecting, FiniteSetsExt

(* DynamoDB tables ----------------------------------------------------------*)

\* fetchDynamodbScalableTargets; if it fails the map is empty.
ScalableTargets(v) == {s \in {"scaling"} : Fine(v, "DescribeScalableTargets")}

\* addAutoscalingAttributes: a table that is not in the map is said not to be
\* scaled.
Autoscaling(v) == IF ScalableTargets(v) = {} THEN {"noScaling"} ELSE ScalableTargets(v)

TableTagsKnown(v, r) == FineFor(v, "ListTagsOfResource", r)

\* fetchPITR, fetchTTL: unknown if the call fails.
Backups(v, r) == {b \in {"backups"} : FineFor(v, "DescribeContinuousBackups", r)}

TableTarget(v, r) ==
    Target(v, r, {s \in {"labels"} : TableTagsKnown(v, r)} \cup Backups(v, r) \cup Autoscaling(v))

\* A table that cannot be described is left out; one whose tags cannot be read
\* has none.
AllTables(v) ==
    IF ~Fine(v, "ListTables") THEN Failed
    ELSE Found(ApplyAttributeExcludes(v, "Dynamodb",
            {TableTarget(v, r) :
                r \in {q \in Listed(v) : FineFor(v, "DescribeTable", q)
                                         /\ MatchesWith(v, q, TableTagsKnown(v, q))}}))

(* RDS ------------------------------------------------------------------------*)

RdsInstanceTarget(v, r) == Target(v, r, {"labels"} \cup GetZone(v) \cup GetVpcName(v))

AllRdsInstances(v) ==
    IF ~Fine(v, "DescribeDBInstances") THEN Failed
    ELSE Found(ApplyAttributeExcludes(v, "Rds",
            {RdsInstanceTarget(v, r) : r \in {q \in Listed(v) : Matches(v, q)}}))

\* No excludes.
RdsClusterTarget(v, r) == Target(v, r, {"labels"})

AllRdsClusters(v) ==
    IF ~Fine(v, "DescribeDBClusters") THEN Failed
    ELSE Found({RdsClusterTarget(v, r) : r \in {q \in Listed(v) : Matches(v, q)}})

(* ElastiCache and MSK: the tags are those of the Resource Groups Tagging   *)
(* API, and needed only if there are filters.  No excludes. ----------------*)

TagsKnown(v) == Fine(v, "GetResources")
TagsRequired(v) == v.filters # {}

NodeGroupTarget(v, r) == Target(v, r, {s \in {"labels"} : TagsKnown(v)})

\* An empty page ends the loop.
AllElasticacheReplicationGroups(v) ==
    IF \/ ~Fine(v, "DescribeReplicationGroups")
       \/ UntilEmptyPage(v) # {} /\ TagsRequired(v) /\ ~TagsKnown(v)
    THEN Failed
    ELSE Found({NodeGroupTarget(v, r) :
            r \in {q \in UntilEmptyPage(v) : MatchesWith(v, q, TagsKnown(v))}})

BrokerNodeTarget(v, r) == Target(v, r, {s \in {"labels"} : TagsKnown(v)})

\* The nodes of a cluster that is being created or deleted cannot be listed.
AllMskClusters(v) ==
    LET nodes == {r \in Listed(v) : v.live[r]} IN
    IF \/ ~Fine(v, "ListClustersV2")
       \/ \E r \in nodes : ~FineFor(v, "ListNodes", r)
       \/ nodes # {} /\ TagsRequired(v) /\ ~TagsKnown(v)
    THEN Failed
    ELSE Found({BrokerNodeTarget(v, r) : r \in {q \in nodes : MatchesWith(v, q, TagsKnown(v))}})

(* Amazon MQ ------------------------------------------------------------------*)

BrokerTarget(v, r) == Target(v, r, {"labels"})

\* A broker that cannot be described is left out.
AllBrokers(v) ==
    IF ~Fine(v, "ListBrokers") THEN Failed
    ELSE Found(ApplyAttributeExcludes(v, "Mq",
            {BrokerTarget(v, r) :
                r \in {q \in Listed(v) : FineFor(v, "DescribeBroker", q) /\ Matches(v, q)}}))

(* SQS ------------------------------------------------------------------------*)

QueueTagsKnown(v, r) == FineFor(v, "ListQueueTags", r)

QueueTarget(v, r) == Target(v, r, {s \in {"labels"} : QueueTagsKnown(v, r)})

\* A queue without attributes is left out; one whose tags cannot be read has none.
AllQueues(v) ==
    IF ~Fine(v, "ListQueues") THEN Failed
    ELSE Found(ApplyAttributeExcludes(v, "Sqs",
            {QueueTarget(v, r) :
                r \in {q \in Listed(v) : FineFor(v, "GetQueueAttributes", q)
                                         /\ MatchesWith(v, q, QueueTagsKnown(v, q))}}))

(* EventBridge ----------------------------------------------------------------*)

\* listAllTargetsByRule; without an answer the rule is said to have no target.
RuleTargets(v, r) ==
    IF FineFor(v, "ListTargetsByRule", r) THEN {"targets"} ELSE {"noTargets"}

RuleTagsKnown(v, r) == FineFor(v, "ListTagsForResource", r)

RuleTarget(v, r) == Target(v, r, {s \in {"labels"} : RuleTagsKnown(v, r)} \cup RuleTargets(v, r))

\* The rules of a bus that cannot be listed are left out.
AllRules(v) ==
    IF ~Fine(v, "ListEventBuses") THEN Failed
    ELSE Found(ApplyAttributeExcludes(v, "Eventbridge",
            {RuleTarget(v, r) :
                r \in {q \in Listed(v) : FineFor(v, "ListRules", q)
                                         /\ MatchesWith(v, q, RuleTagsKnown(v, q))}}))

(* FIS experiment templates ---------------------------------------------------*)

\* getDuration: an action without a duration that can be parsed takes no time.
DurationOf(action) == IF action.duration \in Nat THEN action.duration ELSE 0

\* Mutant: of the actions that an action waits for, the shortest decides.
AfterTheShortest(actions) ==
    LET total[n \in DOMAIN actions] ==
            LET ends == {total[m] : m \in actions[n].after} IN
            DurationOf(actions[n]) + IF ends = {} THEN 0 ELSE Min(ends)
    IN Max({0} \cup {total[n] : n \in DOMAIN actions})

\* calculateTotalDuration: the end of the last action.  The loop of the code ends
\* because AWS refuses a template whose actions wait for each other.
CalculateTotalDuration(actions) ==
    LET total[n \in DOMAIN actions] ==
            DurationOf(actions[n]) + Max({0} \cup {total[m] : m \in actions[n].after})
    IN Max({0} \cup {total[n] : n \in DOMAIN actions})

\* The duration is apart, see module Discovery.
FisTemplateTarget(v, r) == Target(v, r, {"labels"})

\* The templates whose durations are known.
FisTemplatesOf(v) ==
    Found(ApplyAttributeExcludes(v, "Fis",
        {FisTemplateTarget(v, r) : r \in {q \in Listed(v) : Matches(v, q)}}))
=============================================================================
