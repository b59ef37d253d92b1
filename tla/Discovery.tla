-------------------------------- MODULE Discovery --------------------------------
(***************************************************************************)
(* The extension from its configuration to the answers of its discoveries: *)
(* main.go, config/, utils/aws_access.go, extec2/ec2_util.go, and the      *)
(* cached durations of extfis/template_discovery.go.                       *)
(*                                                                         *)
(* ForEveryConfiguredAwsAccess gives a job (a discovery, or the first fill *)
(* of the EC2 metadata cache) to WorkerThreads goroutines, one access at a *)
(* time.  What a worker does between two steps that touch shared state is  *)
(* one action.  The job "refresh" is the discovery of availability zones,  *)
(* which also renews the cache; "collect" is that of the scenario's kind.  *)
(***************************************************************************)
EXTENDS Configuration, NetworkTargets, ComputeTargets, DataTargets

CONSTANTS
    Resources,   \* of the kind that is discovered
    Scenarios,   \* kind, configuration, world, WorkerThreads and rounds
    MaxFailures, \* bound: calls that fail
    MaxUpdates   \* bound: updates of FIS templates

VARIABLES
    scenario,   \* the one of this behaviour
    stage,      \* of main: "configuring", "caching", "serving", "fatal"
    cache,      \* ec2 util: what is known of a place, "zone" and "vpc"
    at,         \* job, access -> what the worker does next
    found,      \* job, access -> what it put into the results channel
    answer,     \* job -> the targets of its last round
    round,      \* job -> the rounds that have begun
    running,    \* the jobs whose round has not been answered
    failures,   \* how many calls have failed
    version,    \* FIS template -> how often its owner has changed it
    durationCache, \* FIS template -> [of, created], versions, or nothing
    reading,    \* access -> the template whose duration is asked for
    listed,     \* access -> template -> the version that the list has shown
    shown,      \* access -> template -> the version whose duration is reported
    raced       \* a template has changed between its Get and the store

pool == <<at, found, answer, round, running>>
fis == <<version, durationCache, reading, listed, shown, raced>>
discoveryVars == <<scenario, stage, accounts, cache, pool, failures, fis>>

Jobs == {"boot", "refresh", "collect"}
Place(access) == <<access.account, access.region>>
Here(k) == {r \in Resources : scenario.home[r] = Place(accounts[k])}

(* The kinds: the calls they make once and for every resource. -------------*)

CallsOf ==
    [instance |-> [once |-> {"DescribeInstances"}, each |-> {}],
     subnet |-> [once |-> {"DescribeSubnets"}, each |-> {}],
     zone |-> [once |-> {}, each |-> {}],
     ebs |-> [once |-> {"DescribeVolumes", "DescribeSnapshots"}, each |-> {}],
     nat |-> [once |-> {"DescribeNatGateways", "DescribeSubnets"}, each |-> {}],
     alb |-> [once |-> {"DescribeLoadBalancers", "DescribeTags"}, each |-> {"DescribeListeners"}],
     nlb |-> [once |-> {"DescribeLoadBalancers", "DescribeTags"},
              each |-> {"DescribeListeners", "DescribeLoadBalancerAttributes"}],
     stage |-> [once |-> {"GetRestApis", "GetApis"}, each |-> {"GetStages"}],
     asg |-> [once |-> {"DescribeAutoScalingGroups"}, each |-> {}],
     eks |-> [once |-> {"ListClusters"}, each |-> {"DescribeCluster"}],
     nodegroup |-> [once |-> {"ListClusters"}, each |-> {"ListNodegroups", "DescribeNodegroup"}],
     lambda |-> [once |-> {"ListFunctions", "GetResources"}, each |-> {}],
     service |-> [once |-> {"ListClusters"}, each |-> {"ListServices", "DescribeServices"}],
     task |-> [once |-> {"ListClusters"}, each |-> {"ListTasks", "DescribeTasks"}],
     template |-> [once |-> {}, each |-> {}],
     table |-> [once |-> {"ListTables", "DescribeScalableTargets"},
                each |-> {"DescribeTable", "ListTagsOfResource", "DescribeContinuousBackups"}],
     rds |-> [once |-> {"DescribeDBInstances"}, each |-> {}],
     rdscluster |-> [once |-> {"DescribeDBClusters"}, each |-> {}],
     elasticache |-> [once |-> {"DescribeReplicationGroups", "GetResources"}, each |-> {}],
     msk |-> [once |-> {"ListClustersV2", "GetResources"}, each |-> {"ListNodes"}],
     mq |-> [once |-> {"ListBrokers"}, each |-> {"DescribeBroker"}],
     queue |-> [once |-> {"ListQueues"}, each |-> {"GetQueueAttributes", "ListQueueTags"}],
     rule |-> [once |-> {"ListEventBuses"},
               each |-> {"ListRules", "ListTargetsByRule", "ListTagsForResource"}]]

\* The accesses if every role can be assumed.
AllAccesses(spec) == InitializeAwsAccess(ParseConfiguration(spec), {})

\* A template that AWS accepts: its actions are finite and wait for actions of
\* their own template, but not for each other; of any of them, one waits for
\* none of the others.  For another one calculateTotalDuration would not end.
IsTemplate(actions) ==
    /\ IsFiniteSet(DOMAIN actions)
    /\ \A n \in DOMAIN actions : actions[n].after \subseteq DOMAIN actions
    /\ \A S \in SUBSET DOMAIN actions : S # {} => \E n \in S : actions[n].after \cap S = {}

\* A configuration is finite and nil is no access.  A tag is a key and a value,
\* an API is a REST or an HTTP API.  A template has a first version, and AWS
\* accepts them all.
ASSUME ScenariosAssumption ==
    /\ IsFiniteSet(Resources) /\ MaxFailures \in Nat
    /\ \A s \in Scenarios :
        /\ s.kind \in DOMAIN CallsOf /\ s.workers \in Nat
        /\ s.vpcDisabled \in BOOLEAN /\ s.paged \in BOOLEAN
        /\ DOMAIN ParseConfiguration(s.spec).roles \subseteq Nat
        /\ IsFiniteSet(DOMAIN ParseConfiguration(s.spec).roles)
        /\ IsFiniteSet(AllAccesses(s.spec)) /\ Unset \notin AllAccesses(s.spec)
        /\ \A r \in Resources : \A t \in s.tags[r] : t = [key |-> t.key, value |-> t.value]
        /\ s.kind = "stage" => \A r \in Resources : s.form[r] \in {"rest", "http"}
        /\ 1 \in DOMAIN s.actions /\ \A n \in DOMAIN s.actions : IsTemplate(s.actions[n])

CallsUnder(k) ==
    {<<c>> : c \in CallsOf[scenario.kind].once} \cup (CallsOf[scenario.kind].each \X Here(k))

\* The discovery of a kind.
AllTargets(v) ==
    CASE scenario.kind = "instance" -> AllEc2Instances(v)
      [] scenario.kind = "subnet" -> AllSubnets(v)
      [] scenario.kind = "ebs" -> AllEbsVolumes(v)
      [] scenario.kind = "nat" -> AllNatGateways(v)
      [] scenario.kind = "alb" -> AllAlbs(v)
      [] scenario.kind = "nlb" -> AllNlbs(v)
      [] scenario.kind = "stage" -> AllStages(v)
      [] scenario.kind = "asg" -> AllAsgs(v)
      [] scenario.kind = "eks" -> AllEksClusters(v)
      [] scenario.kind = "nodegroup" -> AllEksNodegroups(v)
      [] scenario.kind = "lambda" -> AllLambdaFunctions(v)
      [] scenario.kind = "service" -> AllEcsServices(v)
      [] scenario.kind = "task" -> AllEcsTasks(v)
      [] scenario.kind = "table" -> AllTables(v)
      [] scenario.kind = "rds" -> AllRdsInstances(v)
      [] scenario.kind = "rdscluster" -> AllRdsClusters(v)
      [] scenario.kind = "elasticache" -> AllElasticacheReplicationGroups(v)
      [] scenario.kind = "msk" -> AllMskClusters(v)
      [] scenario.kind = "mq" -> AllBrokers(v)
      [] scenario.kind = "queue" -> AllQueues(v)
      [] scenario.kind = "rule" -> AllRules(v)

\* The jobs that main registers.  Only kinds that use the cache are of interest
\* beside the discovery that renews it.
Registered ==
    CASE scenario.kind = "zone" -> {"refresh"}
      [] scenario.kind \in {"instance", "rds"} -> {"refresh", "collect"}
      [] OTHER -> {"collect"}

\* The ways AWS may cut a list into pages.
Pages(S) ==
    {<<S>>} \cup
    IF scenario.paged
    THEN {<<A, S \ A>> : A \in SUBSET S} \cup {<<A, {}, S \ A>> : A \in SUBSET S}
    ELSE {}

View(k, pages, down) ==
    [access |-> [account |-> accounts[k].account, region |-> accounts[k].region,
                 role |-> accounts[k].role],
     filters |-> accounts[k].filters, pages |-> pages, down |-> down,
     cached |-> cache[Place(accounts[k])],
     excluded |-> scenario.excluded, all |-> scenario.all, tags |-> scenario.tags,
     form |-> scenario.form, live |-> scenario.live, homeless |-> scenario.homeless]

(* The start of the process. -----------------------------------------------*)

AccountKeys == DOMAIN accounts

DiscoveryInit ==
    /\ scenario \in Scenarios
    /\ stage = "configuring"
    /\ accounts = <<>>
    /\ cache = <<>>
    /\ at = [j \in Jobs |-> <<>>]
    /\ found = [j \in Jobs |-> <<>>]
    /\ answer = [j \in Jobs |-> {}]
    /\ round = [j \in Jobs |-> 0]
    /\ running = {}
    /\ failures = 0
    /\ version = [r \in Resources |-> 0]
    /\ durationCache = <<>>
    /\ reading = <<>> /\ listed = <<>> /\ shown = <<>>
    /\ raced = FALSE

\* ParseConfiguration refuses the configuration: log.Fatal.
Refuse ==
    /\ stage = "configuring" /\ ~ParseConfiguration(scenario.spec).ok
    /\ stage' = "fatal"
    /\ UNCHANGED <<scenario, accounts, cache, pool, failures, fis>>

\* main up to the channels of InitializeEc2Util; some roles cannot be assumed.
Configure ==
    /\ stage = "configuring" /\ ParseConfiguration(scenario.spec).ok
    /\ \E failing \in SUBSET {role.arn : role \in Items(ParseConfiguration(scenario.spec).roles)} :
        LET map == AccountsMap(InitializeAwsAccess(ParseConfiguration(scenario.spec), failing)) IN
        /\ Cardinality(failing) <= MaxFailures
        /\ failures' = Cardinality(failing)
        /\ accounts' = map
        /\ cache' = [p \in {Place(map[k]) : k \in DOMAIN map} |-> {}]
        /\ at' = [j \in Jobs |-> [k \in DOMAIN map |-> IF j = "boot" THEN "queued" ELSE "idle"]]
        /\ found' = [j \in Jobs |-> [k \in DOMAIN map |-> {}]]
        /\ reading' = [k \in DOMAIN map |-> Unset]
        /\ listed' = [k \in DOMAIN map |-> <<>>] /\ shown' = [k \in DOMAIN map |-> <<>>]
    /\ stage' = "caching"
    /\ running' = {"boot"}
    /\ UNCHANGED <<scenario, answer, round, version, durationCache, raced>>

(* The worker pool. --------------------------------------------------------*)

\* The first step of a job's supplier.
FirstStep(j) ==
    IF j # "collect" THEN "zones"
    ELSE IF scenario.kind = "template" THEN "list" ELSE "collect"

\* The refresh of a discovery: all accesses go into the buffered channel.
Begin(j) ==
    /\ stage = "serving" /\ j \in Registered \ running
    /\ round[j] < scenario.rounds
    /\ round' = [round EXCEPT ![j] = @ + 1]
    /\ running' = running \cup {j}
    /\ at' = [at EXCEPT ![j] = [k \in AccountKeys |-> "queued"]]
    /\ found' = [found EXCEPT ![j] = [k \in AccountKeys |-> {}]]
    /\ UNCHANGED <<scenario, stage, accounts, cache, answer, failures, fis>>

Busy(j) == {k \in AccountKeys : at[j][k] \notin {"idle", "queued", "result"}}

\* A worker takes an access from the channel.
Take(j, k) ==
    /\ j \in running /\ at[j][k] = "queued"
    /\ Cardinality(Busy(j)) < scenario.workers
    /\ at' = [at EXCEPT ![j][k] = FirstStep(j)]
    /\ UNCHANGED <<scenario, stage, accounts, cache, found, answer, round, running, failures, fis>>

\* A worker puts a result into the channel; that of an error is nil.
Supply(j, k, result) ==
    /\ at' = [at EXCEPT ![j][k] = "result"]
    /\ found' = [found EXCEPT ![j][k] = result]

\* Mutant: the first result is the answer.
AnswerEarly(j) ==
    /\ j \in running /\ \E k \in AccountKeys : at[j][k] = "result"
    /\ running' = running \ {j}
    /\ answer' = [answer EXCEPT ![j] = UNION {found[j][k] : k \in AccountKeys}]
    /\ stage' = IF j = "boot" THEN "serving" ELSE stage
    /\ UNCHANGED <<scenario, accounts, cache, at, found, round, failures, fis>>

\* As many results as accesses.
Answer(j) ==
    /\ j \in running /\ \A k \in AccountKeys : at[j][k] = "result"
    /\ running' = running \ {j}
    /\ answer' = [answer EXCEPT ![j] = UNION {found[j][k] : k \in AccountKeys}]
    /\ stage' = IF j = "boot" THEN "serving" ELSE stage
    /\ UNCHANGED <<scenario, accounts, cache, at, found, round, failures, fis>>

(* The suppliers. ----------------------------------------------------------*)

\* A call that fails or not, within the bound.
Outcome(ok) == failures' = failures + (IF ok THEN 0 ELSE 1) /\ failures' <= MaxFailures

Known(k, what, ok) ==
    [cache EXCEPT ![Place(accounts[k])] = IF ok THEN @ \cup {what} ELSE @ \ {what}]

\* The entry of account and region is replaced, also by nothing.
InitZonesCache(j, k, ok) ==
    /\ at[j][k] = "zones"
    /\ Outcome(ok)
    /\ cache' = Known(k, "zone", ok)
    /\ at' = [at EXCEPT ![j][k] = "vpcs"]
    /\ UNCHANGED <<scenario, stage, accounts, found, answer, round, running, fis>>

InitVpcCache(j, k, ok) ==
    /\ at[j][k] = "vpcs"
    /\ IF scenario.vpcDisabled THEN ok /\ UNCHANGED failures ELSE Outcome(ok)
    /\ cache' = Known(k, "vpc", ok /\ ~scenario.vpcDisabled)
    /\ at' = [at EXCEPT ![j][k] = IF j = "boot" THEN "result" ELSE "read"]
    /\ UNCHANGED <<scenario, stage, accounts, found, answer, round, running, fis>>

\* getAllAvailabilityZonesForAccount after the cache is renewed.  The zones are
\* the resources only if they are what is discovered.
ReadZones(k) ==
    /\ at["refresh"][k] = "read"
    /\ Supply("refresh", k, IF scenario.kind = "zone"
                            THEN AllAvailabilityZones(View(k, <<Here(k)>>, {})).targets
                            ELSE {})
    /\ UNCHANGED <<scenario, stage, accounts, cache, answer, round, running, failures, fis>>

\* Mutant: a worker that met an error sends no result.
CollectOrDie(k) ==
    /\ at["collect"][k] = "collect"
    /\ \E pages \in Pages(Here(k)), down \in UNION {kSubset(n, CallsUnder(k)) : n \in 0 .. MaxFailures - failures} :
        LET result == AllTargets(View(k, pages, down)) IN
        /\ failures' = failures + Cardinality(down)
        /\ IF result.ok THEN Supply("collect", k, result.targets)
           ELSE at' = [at EXCEPT !["collect"][k] = "dead"] /\ UNCHANGED found
    /\ UNCHANGED <<scenario, stage, accounts, cache, answer, round, running, fis>>

\* All calls of the supplier; they read nothing that others write but the cache.
Collect(k) ==
    /\ at["collect"][k] = "collect"
    /\ \E pages \in Pages(Here(k)), down \in UNION {kSubset(n, CallsUnder(k)) : n \in 0 .. MaxFailures - failures} :
        LET result == AllTargets(View(k, pages, down)) IN
        /\ failures' = failures + Cardinality(down)
        /\ Supply("collect", k, result.targets)
    /\ UNCHANGED <<scenario, stage, accounts, cache, answer, round, running, fis>>

(* The FIS templates of an access, one after the other. --------------------*)

\* ListExperimentTemplates; a page has the time of the last update of each
\* template.
ListTemplates(k, ok) ==
    /\ at["collect"][k] = "list"
    /\ Outcome(ok)
    /\ IF ok
       THEN /\ at' = [at EXCEPT !["collect"][k] = "look"]
            /\ listed' = [listed EXCEPT ![k] = [r \in Here(k) |-> version[r]]]
            /\ shown' = [shown EXCEPT ![k] = <<>>]
            /\ UNCHANGED found
       ELSE Supply("collect", k, {}) /\ UNCHANGED <<listed, shown>>
    /\ UNCHANGED <<scenario, stage, accounts, cache, answer, round, running, version, durationCache, reading, raced>>

Actions(r, n) == scenario.actions[n + 1]

\* map[r] = entry.
Put(map, r, entry) == [q \in {r} \cup DOMAIN map |-> IF q = r THEN entry ELSE map[q]]

\* The duration of template r is that of its n-th version.
Show(k, r, n) ==
    shown' = [shown EXCEPT ![k] =
                 Put(@, r, [of |-> n, total |-> CalculateTotalDuration(Actions(r, n))])]

\* Mutant: an entry is used for ever.
CachedForEver(r, n) == r \in DOMAIN durationCache

\* The entry is there and not older than the update that the list knows.
Cached(r, n) == r \in DOMAIN durationCache /\ durationCache[r].created >= n

\* The template that comes next.
Unread(k) == DOMAIN listed[k] \ DOMAIN shown[k]

\* getTotalDuration: what it finds in durationCache.
LookUp(k) ==
    /\ at["collect"][k] = "look"
    /\ \E r \in Unread(k) :
        IF Cached(r, listed[k][r])
        THEN Show(k, r, durationCache[r].of) /\ UNCHANGED <<at, reading>>
        ELSE /\ at' = [at EXCEPT !["collect"][k] = "get"]
             /\ reading' = [reading EXCEPT ![k] = r]
             /\ UNCHANGED shown
    /\ UNCHANGED <<scenario, stage, accounts, cache, found, answer, round, running, failures,
                   version, durationCache, listed, raced>>

\* GetExperimentTemplate; without it there are no targets at all.
GetTemplate(k, ok) ==
    /\ at["collect"][k] = "get"
    /\ Outcome(ok)
    /\ IF ok
       THEN /\ at' = [at EXCEPT !["collect"][k] = "store"]
            /\ Show(k, reading[k], version[reading[k]])
            /\ UNCHANGED found
       ELSE Supply("collect", k, {}) /\ UNCHANGED shown
    /\ UNCHANGED <<scenario, stage, accounts, cache, answer, round, running, version,
                   durationCache, reading, listed, raced>>

\* The entry is as old as its storing, not as its reading.
StoreDuration(k) ==
    /\ at["collect"][k] = "store"
    /\ durationCache' = Put(durationCache, reading[k],
                            [of |-> shown[k][reading[k]].of, created |-> version[reading[k]]])
    /\ at' = [at EXCEPT !["collect"][k] = "look"]
    /\ UNCHANGED <<scenario, stage, accounts, cache, found, answer, round, running, failures,
                   version, reading, listed, shown, raced>>

FinishTemplates(k) ==
    /\ at["collect"][k] = "look" /\ Unread(k) = {}
    /\ Supply("collect", k, FisTemplatesOf(View(k, <<DOMAIN listed[k]>>, {})).targets)
    /\ UNCHANGED <<scenario, stage, accounts, cache, answer, round, running, failures, fis>>

\* durationCache has no lock: two workers at the map at once, one of them
\* writing, may be the end of the process.
ConcurrentMapAccess ==
    /\ stage = "serving"
    /\ \E k, l \in AccountKeys : k # l /\ at["collect"][k] = "store" /\ at["collect"][l] \in {"look", "store"}
    /\ stage' = "fatal"
    /\ UNCHANGED <<scenario, accounts, cache, pool, failures, fis>>

\* Somebody changes a template: it gets its next version.
UpdateTemplate(r) ==
    /\ stage = "serving" /\ scenario.kind = "template"
    /\ version[r] + 2 \in DOMAIN scenario.actions
    /\ FoldFunction(LAMBDA n, sum : sum + n, 0, version) < MaxUpdates
    /\ version' = [version EXCEPT ![r] = @ + 1]
    /\ raced' = (raced \/ \E k \in AccountKeys : at["collect"][k] = "store" /\ reading[k] = r)
    /\ UNCHANGED <<scenario, stage, accounts, cache, pool, failures, durationCache, reading, listed, shown>>

(* The specification. ------------------------------------------------------*)

Alive == stage \in {"caching", "serving"}

SupplierStep(k) ==
    \/ \E j \in Jobs, ok \in BOOLEAN : InitZonesCache(j, k, ok) \/ InitVpcCache(j, k, ok)
    \/ ReadZones(k)
    \/ Collect(k)
    \/ \E ok \in BOOLEAN : ListTemplates(k, ok) \/ GetTemplate(k, ok)
    \/ LookUp(k)
    \/ StoreDuration(k)
    \/ FinishTemplates(k)

PoolStep == Alive /\ ((\E k \in AccountKeys : SupplierStep(k) \/ \E j \in Jobs : Take(j, k)) \/ \E j \in Jobs : Answer(j))

DiscoveryNext ==
    \/ Refuse
    \/ Configure
    \/ PoolStep
    \/ \E j \in Jobs : Begin(j)
    \/ ConcurrentMapAccess
    \/ \E r \in Resources : UpdateTemplate(r)

\* A goroutine that can go on does, and every call of the SDK ends.
DiscoveryFairness == WF_discoveryVars(PoolStep)

DiscoverySpec == DiscoveryInit /\ [][DiscoveryNext]_discoveryVars /\ DiscoveryFairness

(* The properties. ---------------------------------------------------------*)

\* What the target of each kind shows if every call succeeds, and the list of
\* attribute excludes that the configuration has for it.
Promised ==
    [instance |-> [shows |-> {"labels", "zone", "vpc"}, list |-> "Ec2"],
     subnet |-> [shows |-> {"labels", "vpc"}, list |-> "Subnet"],
     zone |-> [shows |-> {}, list |-> "Zone"],
     ebs |-> [shows |-> {"labels", "snapshot"}, list |-> "Ebs"],
     nat |-> [shows |-> {"labels", "zone"}, list |-> "NatGateway"],
     alb |-> [shows |-> {"labels", "listeners", "zone", "vpc"}, list |-> "Elb"],
     nlb |-> [shows |-> {"labels", "listeners", "zone", "vpc"}, list |-> "Elb"],
     stage |-> [shows |-> {"labels"}, list |-> "Apigateway"],
     asg |-> [shows |-> {"labels"}, list |-> "Asg"],
     eks |-> [shows |-> {"labels"}, list |-> "Eks"],
     nodegroup |-> [shows |-> {"labels"}, list |-> "Eks"],
     lambda |-> [shows |-> {"labels", "vpc"}, list |-> "Lambda"],
     service |-> [shows |-> {"labels"}, list |-> "Ecs"],
     task |-> [shows |-> {"labels", "zone"}, list |-> "Ecs"],
     template |-> [shows |-> {"labels"}, list |-> "Fis"],
     table |-> [shows |-> {"labels", "backups", "scaling"}, list |-> "Dynamodb"],
     rds |-> [shows |-> {"labels", "zone", "vpc"}, list |-> "Rds"],
     rdscluster |-> [shows |-> {"labels"}, list |-> "Rds"],
     elasticache |-> [shows |-> {"labels"}, list |-> "Elasticache"],
     msk |-> [shows |-> {"labels"}, list |-> "Msk"],
     mq |-> [shows |-> {"labels"}, list |-> "Mq"],
     queue |-> [shows |-> {"labels"}, list |-> "Sqs"],
     rule |-> [shows |-> {"labels", "targets"}, list |-> "Eventbridge"]]

Targets == answer["collect"] \cup answer["refresh"]

Selected(r, filters) ==
    \A f \in filters : \E value \in f.values : [key |-> f.key, value |-> value] \in scenario.tags[r]

\* Resources of the kind that exist, are not hidden by their owner and are of the
\* wanted form.
Discoverable(r) ==
    /\ scenario.kind \in {"nat", "task", "msk"} => scenario.live[r]
    /\ scenario.kind \in {"service", "task"} /\ ~scenario.all =>
           [key |-> "steadybit.com/discovery-disabled", value |-> "true"] \notin scenario.tags[r]
    /\ scenario.kind = "alb" => scenario.form[r] = "application"
    /\ scenario.kind = "nlb" => scenario.form[r] = "network"

DiscoveryTypeOK ==
    /\ stage \in {"configuring", "caching", "serving", "fatal"}
    /\ \A k \in DOMAIN accounts : k = <<accounts[k].account, accounts[k].region, accounts[k].role>>
    /\ cache \in [DOMAIN cache -> SUBSET {"zone", "vpc"}]
    /\ \A j \in Jobs :
        /\ DOMAIN found[j] = AccountKeys /\ DOMAIN at[j] = AccountKeys
        /\ Cardinality(Busy(j)) <= scenario.workers
        /\ \A k \in AccountKeys : at[j][k] # "result" => found[j][k] = {}
    /\ running \subseteq Jobs
    /\ failures \in 0 .. MaxFailures
    /\ version \in [Resources -> Nat]

\* An attack on a target that was reported acts with the access that found it
\* and on a resource that its filters select, whatever failed: missing tags,
\* pages or accounts never widen the choice.  What a target shows is true; two
\* claims are not when a call fails: that a table is not scaled automatically
\* (table_discovery.go:126) and that a rule has no targets (rule_discovery.go:121).
SoundTargets ==
    \A t \in Targets :
        LET access == GetAwsAccess(t.by.account, t.by.region, t.by.role) IN
        /\ access # Unset
        /\ Place(access) = scenario.home[t.of]
        /\ Selected(t.of, access.filters) /\ Discoverable(t.of)
        /\ t.shows \subseteq Promised[scenario.kind].shows
                             \cup IF failures = 0 THEN {} ELSE {"noScaling", "noTargets"}

\* The lists of attribute excludes that nothing reads: the discoveries of these
\* kinds do not apply one, that of application load balancers applies that of
\* ECS (alb_discovery.go:178).
ExcludesNotApplied == {"alb", "asg", "eks", "nodegroup", "rdscluster", "elasticache", "msk"}

ReportingJob == IF scenario.kind = "zone" THEN "refresh" ELSE "collect"

LabelsExcluded ==
    \/ Promised[scenario.kind].list \in scenario.excluded /\ scenario.kind \notin ExcludesNotApplied
    \/ scenario.kind = "alb" /\ "Ecs" \in scenario.excluded

\* What a target of access k shows if no call fails; without zone if a deleted
\* NAT gateway has lost its subnet.
ShownBy(k) ==
    Promised[scenario.kind].shows
        \ ((IF scenario.vpcDisabled THEN {"vpc"} ELSE {})
           \cup (IF scenario.kind = "nat" /\ Here(k) \cap scenario.homeless # {} THEN {"zone"} ELSE {})
           \cup (IF LabelsExcluded THEN {"labels"} ELSE {}))

\* The targets of access k if no call fails.
Owed(k) ==
    {[of |-> r, shows |-> ShownBy(k), by |-> [account |-> k[1], region |-> k[2], role |-> k[3]]] :
        r \in {q \in Here(k) : /\ Discoverable(q) /\ Selected(q, accounts[k].filters)
                               /\ scenario.kind = "zone" => accounts[k].filters = {}}}

\* The code takes an empty page for the end (Lambda, ElastiCache), or only the
\* first page (ECS).
CutShort == scenario.paged /\ scenario.kind \in {"lambda", "elasticache", "service", "task"}

\* If no call fails, every access reports every resource that it selects, with
\* all that there is to show, the labels only if they are not excluded.
CompleteTargets ==
    failures = 0 /\ round[ReportingJob] > 0 /\ ReportingJob \notin running /\ ~CutShort =>
        \A k \in AccountKeys : Owed(k) \subseteq answer[ReportingJob]

\* Two roles that are not separated by tag filters do not report a resource
\* twice, except if an empty list of filters is given or the name of a role has
\* a path: ParseConfiguration lets both pass (config.go:76, config.go:89).
ReportedOnce ==
    \A t, u \in Targets :
        t.of = u.of /\ t.by # u.by =>
            \/ \E x \in {t, u} :
                 GetAwsAccess(x.by.account, x.by.region, x.by.role).filters # {}
            \/ scenario.spec.tagFilters = {}
            \/ \E role \in Items(scenario.spec.assumeRolesAdvanced) : role.filters = {}
            \/ \E x \in {t, u} : x.by.role.path

\* The duration of a template is that of the longest chain of its actions.
DurationRight ==
    \A k \in DOMAIN shown : \A r \in DOMAIN shown[k] :
        LET actions == Actions(r, shown[k][r].of)
            chains == UNION {[1 .. n -> DOMAIN actions] : n \in 0 .. Cardinality(DOMAIN actions)}
            Length(c) == FoldSet(LAMBDA i, sum : sum + DurationOf(actions[c[i]]), 0, DOMAIN c)
        IN
        shown[k][r].total =
            Max({Length(c) : c \in {d \in chains : \A i \in 2 .. Len(d) : d[i - 1] \in actions[d[i]].after}})

\* It is that of a version that is not older than the list, except if the
\* template was changed between being read and being stored: then the cache
\* calls it new.
DurationFresh ==
    \A k \in DOMAIN shown : \A r \in DOMAIN shown[k] : raced \/ shown[k][r].of >= listed[k][r]

\* The jobs that have begun are answered, if there is a worker: calls that fail,
\* accounts that cannot be read and more accesses than workers do not keep them
\* from it.  Only templates read by two workers may end the process.
EventuallyAnswered ==
    (running # {} /\ scenario.workers > 0)
        ~> (running = {} \/ (stage = "fatal" /\ scenario.kind = "template" /\ scenario.workers > 1))
=============================================================================
