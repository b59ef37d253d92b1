------------------------------- MODULE ComputeTargets -------------------------------
(***************************************************************************)
(* The discoveries of extasg, exteks, extlambda and extecs.                *)
(***************************************************************************)
EXTENDS Collecting

(* Auto Scaling groups, EKS clusters and node groups: no excludes. --------*)

AsgTarget(v, r) == Target(v, r, {"labels"})

AllAsgs(v) ==
    IF ~Fine(v, "DescribeAutoScalingGroups") THEN Failed
    ELSE Found({AsgTarget(v, r) : r \in {q \in Listed(v) : Matches(v, q)}})

\* A cluster that cannot be described is left out.
ClusterTarget(v, r) == Target(v, r, {"labels"})

AllEksClusters(v) ==
    IF ~Fine(v, "ListClusters") THEN Failed
    ELSE Found({ClusterTarget(v, r) :
            r \in {q \in Listed(v) : FineFor(v, "DescribeCluster", q) /\ Matches(v, q)}})

\* So is a node group, and the node groups of a cluster that cannot be listed.
NodegroupTarget(v, r) == Target(v, r, {"labels"})

AllEksNodegroups(v) ==
    IF ~Fine(v, "ListClusters") THEN Failed
    ELSE Found({NodegroupTarget(v, r) :
            r \in {q \in Listed(v) :
                     /\ FineFor(v, "ListNodegroups", q) /\ FineFor(v, "DescribeNodegroup", q)
                     /\ Matches(v, q)}})

(* Lambda functions ---------------------------------------------------------*)

\* getTags: without the tags no function can be filtered.
TagsMissing(v) == ~Fine(v, "GetResources")

LambdaTarget(v, r) == Target(v, r, {s \in {"labels"} : ~TagsMissing(v)} \cup GetVpcName(v))

\* An empty page ends the loop, and skips the excludes.
AllLambdaFunctions(v) ==
    LET found == {LambdaTarget(v, r) :
                    r \in {q \in UntilEmptyPage(v) : MatchesWith(v, q, ~TagsMissing(v))}}
    IN
    IF \/ ~Fine(v, "ListFunctions")
       \/ UntilEmptyPage(v) # {} /\ v.filters # {} /\ TagsMissing(v)
    THEN Failed
    ELSE IF UntilEmptyPage(v) # Listed(v) \/ {} \in {v.pages[i] : i \in DOMAIN v.pages}
    THEN Found(found)
    ELSE Found(ApplyAttributeExcludes(v, "Lambda", found))

(* ECS ------------------------------------------------------------------------*)

\* ignoreService, ignoreTask.
IgnoreEcs(v, r) == ~v.all /\ DiscoveryDisabled \in v.tags[r]

\* The first page of clusters; a page of v stands for the services of a page of
\* clusters.
EcsServiceTarget(v, r) == Target(v, r, {"labels"})

AllEcsServices(v) ==
    IF \/ ~Fine(v, "ListClusters")
       \/ \E r \in FirstPage(v) :
            ~FineFor(v, "ListServices", r) \/ ~FineFor(v, "DescribeServices", r)
    THEN Failed
    ELSE Found(ApplyAttributeExcludes(v, "Ecs",
            {EcsServiceTarget(v, r) :
                r \in {q \in FirstPage(v) : ~IgnoreEcs(v, q) /\ Matches(v, q)}}))

EcsTaskTarget(v, r) == Target(v, r, {"labels"} \cup GetZone(v))

AllEcsTasks(v) ==
    IF \/ ~Fine(v, "ListClusters")
       \/ \E r \in FirstPage(v) : ~FineFor(v, "ListTasks", r) \/ ~FineFor(v, "DescribeTasks", r)
    THEN Failed
    ELSE Found(ApplyAttributeExcludes(v, "Ecs",
            {EcsTaskTarget(v, r) :
                r \in {q \in FirstPage(v) : v.live[q] /\ ~IgnoreEcs(v, q) /\ Matches(v, q)}}))
=============================================================================
