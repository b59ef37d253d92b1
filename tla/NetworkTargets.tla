------------------------------- MODULE NetworkTargets -------------------------------
(***************************************************************************)
(* The discoveries of extec2, extelb and extapigateway: what a view makes  *)
(* them answer.  A call that AWS forbids (403) counts as failed: the       *)
(* answer then is an empty list and not an error, which the worker pool    *)
(* treats alike.                                                           *)
(***************************************************************************)
EXTENDS Collecting

(* EC2 instances and subnets: AWS filters by tags. ------------------------*)

Ec2InstanceTarget(v, r) == Target(v, r, {"labels"} \cup GetZone(v) \cup GetVpcName(v))

AllEc2Instances(v) ==
    IF ~Fine(v, "DescribeInstances") THEN Failed
    ELSE Found(ApplyAttributeExcludes(v, "Ec2",
            {Ec2InstanceTarget(v, r) : r \in {q \in Listed(v) : Matches(v, q)}}))

SubnetTarget(v, r) == Target(v, r, {"labels"} \cup GetVpcName(v))

AllSubnets(v) ==
    IF ~Fine(v, "DescribeSubnets") THEN Failed
    ELSE Found(ApplyAttributeExcludes(v, "Subnet",
            {SubnetTarget(v, r) : r \in {q \in Listed(v) : Matches(v, q)}}))

(* Availability zones ------------------------------------------------------*)

AvailabilityZoneTarget(v, r) == Target(v, r, {})

\* "Zones can not be tagged, return no targets."  The zones are those of the
\* cache, which is there even if they could not be loaded.
AllAvailabilityZones(v) ==
    Found(ApplyAttributeExcludes(v, "Zone",
        {AvailabilityZoneTarget(v, r) :
            r \in {q \in Listed(v) : v.filters = {} /\ "zone" \in v.cached}}))

(* EBS volumes --------------------------------------------------------------*)

\* buildLatestSnapshotMap; its failure is logged.
LatestSnapshot(v) == {s \in {"snapshot"} : Fine(v, "DescribeSnapshots")}

EbsVolumeTarget(v, r) == Target(v, r, {"labels"} \cup LatestSnapshot(v))

AllEbsVolumes(v) ==
    IF ~Fine(v, "DescribeVolumes") THEN Failed
    ELSE Found(ApplyAttributeExcludes(v, "Ebs",
            {EbsVolumeTarget(v, r) : r \in {q \in Listed(v) : Matches(v, q)}}))

(* NAT gateways -------------------------------------------------------------*)

\* buildSubnetAzMap asks for the subnets of all gateways in one call, those of
\* deleted gateways too: AWS refuses it if one of the subnets is gone.
SubnetAz(v) ==
    {z \in {"zone"} : Fine(v, "DescribeSubnets") /\ \A g \in Listed(v) : g \notin v.homeless}

\* The number of gateways of the VPC counts those that the filter hides.
NatGatewayTarget(v, r) == Target(v, r, {"labels"} \cup SubnetAz(v))

AllNatGateways(v) ==
    IF ~Fine(v, "DescribeNatGateways") THEN Failed
    ELSE Found(ApplyAttributeExcludes(v, "NatGateway",
            {NatGatewayTarget(v, r) : r \in {q \in Listed(v) : v.live[q] /\ Matches(v, q)}}))

(* Load balancers -----------------------------------------------------------*)

\* The tags of application load balancers come with those of the others of a
\* page; their listeners are described before the filter.
AlbTarget(v, r) == Target(v, r, {"labels", "listeners"} \cup GetZone(v) \cup GetVpcName(v))

AllAlbs(v) ==
    LET albs == {r \in Listed(v) : v.form[r] = "application"} IN
    IF \/ ~Fine(v, "DescribeLoadBalancers")
       \/ Listed(v) # {} /\ ~Fine(v, "DescribeTags")
       \/ \E r \in albs : ~FineFor(v, "DescribeListeners", r)
    THEN Failed
    ELSE Found(ApplyAttributeExcludes(v, "Ecs", {AlbTarget(v, r) : r \in {q \in albs : Matches(v, q)}}))

NlbTarget(v, r) == Target(v, r, {"labels", "listeners"} \cup GetZone(v) \cup GetVpcName(v))

AllNlbs(v) ==
    LET nlbs == {r \in Listed(v) : v.form[r] = "network"}
        matching == {r \in nlbs : Matches(v, r)}
    IN
    IF \/ ~Fine(v, "DescribeLoadBalancers")
       \/ nlbs # {} /\ ~Fine(v, "DescribeTags")
       \/ \E r \in matching : ~FineFor(v, "DescribeListeners", r)
       \/ \E r \in matching : ~FineFor(v, "DescribeLoadBalancerAttributes", r)
    THEN Failed
    ELSE Found(ApplyAttributeExcludes(v, "Elb", {NlbTarget(v, r) : r \in matching}))

(* API Gateway --------------------------------------------------------------*)

\* The filter looks at the tags of an API; the stages of an API that cannot be
\* listed are left out.
StagesFound(v, protocol) ==
    {r \in Listed(v) : v.form[r] = protocol /\ Matches(v, r) /\ FineFor(v, "GetStages", r)}

RestStageTarget(v, r) == Target(v, r, {"labels"})
RestStages(v) ==
    IF Fine(v, "GetRestApis")
    THEN Found({RestStageTarget(v, r) : r \in StagesFound(v, "rest")})
    ELSE Failed

HttpStageTarget(v, r) == Target(v, r, {"labels"})
HttpStages(v) ==
    IF Fine(v, "GetApis")
    THEN Found({HttpStageTarget(v, r) : r \in StagesFound(v, "http")})
    ELSE Failed

\* "Treat HTTP API errors as non-fatal".
AllStages(v) ==
    IF ~RestStages(v).ok THEN Failed
    ELSE Found(ApplyAttributeExcludes(v, "Apigateway", RestStages(v).targets \cup HttpStages(v).targets))
=============================================================================
