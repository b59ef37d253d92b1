# TLA+ models of extension-aws

This directory holds a formal model of the Steadybit extension for AWS (the Go
program in `src/`): TLA+ modules, TLC configurations that check them on small
instances, and proofs that TLAPS checks for every instance.

The extension is an HTTP server.  A platform (through an agent) calls it to
*discover* AWS resources and to run *actions* on them: `Prepare` checks the
target and returns a state, `Start` changes something in AWS, `Status` is called
every few seconds, `Stop` undoes the change.  The state of an execution is JSON
that travels back and forth between platform and extension; the extension keeps
almost nothing between two requests.  That is where the difficulty lies: a
request consists of several AWS calls, each of which can fail or take effect
without an answer, requests of different executions run concurrently, the
process can die between two calls, the owner of the AWS account goes on working,
and what `Stop` has to undo must be found again from the state, from AWS, or from
a map in memory that a restart empties.

## 1. Inventory

| Component | State it keeps | Operations | Interacts with | What makes it hard | What makes it correct |
|---|---|---|---|---|---|
| Blackhole attacks, `extec2/blackhole_common.go`, `subnet_attack_blackhole.go`, `availability_zone_attack_blackhole.go` | target subnets in the action state; the way back only in the tags of the ACLs it creates | Prepare with lockout guards, Start VPC by VPC, rollback (failed Start and Stop) | EC2, STS, metadata service; other executions and the owner through the associations | partial failure of multi-call requests, overlap, crash, owner's changes | every subnet can be brought back, the owner's choice is never overwritten, no lockout |
| ALB static response, `extelb/alb_attack_static_response.go` | listener and execution id; tags on rules say what was moved | Prepare, Start (tag, shift, create), Stop (find, check, delete, list, read, untag, restore) | ELB; other executions and the owner on the same listener | the tags are removed before the priorities are restored; overlapping requests | the rules of the owner survive in their order, Stop restores what Start changed |
| ECS service description poller, `extecs/service_description_poller.go` | map cluster → service → record (count, latest description), a mutex and a condition variable | Register, Unregister, Latest, AwaitLatest, pollAll every 5 s | ECS; the check and the log | lost wake-ups, counts that drift, restart loses the map | nobody sleeps who could go on; a record lives as long as its holders |
| Task count check, `extecs/service_task_count_check.go` | mode, initial count and timeout in the state | Prepare (register, await), Status, Stop | the poller | a missing description, a repeated Stop, restarts | a check passes only on counts that meet its mode, and gets a verdict |
| Service event log, `extecs/service_event_log.go` | newest event time in the state | Prepare, Start, Status, Stop | the poller | lost replies, late events, old descriptions | every event once |
| ECS task attacks over SSM, `extecs/task_attack_ssm*.go`, `common_fis_action_state.go` | command id, command ended; a process-wide map of heartbeats | Prepare, Start, Status, Stop, heartbeat goroutine | SSM; the goroutine and the requests through the map | lost command id, cancellation racing a tick, Start that outlives the platform's patience | Stop ends the command, heartbeats end |
| Snapshot-and-restore attacks: API Gateway throttle, DynamoDB throttle, SQS visibility timeout, ASG suspend, EventBridge disable, ECS scale, Lambda | the old value (or nothing) in the state | Prepare takes the snapshot, Start overwrites, Stop restores | one AWS resource each, the owner and other executions | stale snapshot, overlap, repeated Stop, partly set values | Stop brings back the owner's value, and only then |
| FIS experiment, `extfis/start_experiment.go` | experiment id | Prepare, Start, Status, Stop | FIS, where the experiment goes its own way | lost experiment id, an end that somebody else causes, a Stop that looks and then acts | an experiment that was stopped ends, its end is reported |
| Instantaneous actions: EC2 instance state, RDS reboot, stop and failover, ElastiCache failover, MSK and MQ reboot, ECS task stop, EKS node group terminate instances | the units chosen in Prepare | Prepare, Start | one AWS call (ECS: two) | stale choice, percentages, a task that ends meanwhile, lost replies | what was chosen is hit, nothing else, and the answer says so |
| Configuration, `config/` | specification, immutable after start | ParseConfiguration: translate, verify | AWS access | three ways to configure roles, defaults, filters that must separate roles | each role in each region, roles of one account told apart |
| AWS access and worker pool, `utils/aws_access.go` | accounts map, built once; two channels and workers per discovery | InitializeAwsAccess, GetAwsAccess, ForEveryConfiguredAwsAccess | every component | roles that cannot be assumed, errors of one account among many, no worker | every account's targets or its error arrive |
| EC2 metadata cache, `extec2/ec2_util.go` | zones and VPC names per account and region | first fill by main, renewal by the discovery of zones, lookups | discoveries that run beside the renewal | keyed by place, written by roles; a failed renewal empties it | what is looked up is true |
| Discoveries, `*/*_discovery.go` (23) | the cached durations of FIS templates | list, page, secondary calls, filter, exclude, map | AWS APIs, the cache, the pool | pages, secondary calls that fail, resources that end, unlocked cache | every selected resource, once, by an access that can attack it |
| Wiring, helpers, logging | none | main, MatchesTagFilter | - | - | - |

`PROJECT.json` lists these components one by one with their sources and status,
the hazards each is exposed to (at the line where it bites), and the properties
that would catch a hazard going wrong.

## 2. Modules

    Blackhole ------------ BlackholeProofs        MCBlackhole
    AlbStaticResponse --- AlbStaticResponseProofs MCAlbStaticResponse
    PollRecords
      |-- ServicePoller --- ServicePollerProofs   MCServicePoller
      |     ^      ^   (refined by, INSTANCE ... WITH using <- Using)
      |-- TaskCountCheck -- TaskCountCheckProofs  MCTaskCountCheck
      '-- ServiceEventLog - ServiceEventLogProofs MCServiceEventLog
    Configuration
      |-- Triggers -------. AccessProofs          MCTriggers
      '-- Discovery ------' (both)                MCDiscovery
            '-- NetworkTargets, ComputeTargets, DataTargets
                  '-- Collecting
    SsmTaskAttack --------- SsmTaskAttackProofs   (checked as it is)
    Settings
      '-- SettingsAttack -- SettingsAttackProofs  (checked as it is)

One action is one critical section of a mutex or one call to AWS together with
the local computation around it; requests of different executions therefore
interleave wherever the Go program can be interrupted.  A call to AWS has up to three outcomes:
success, failure without effect, and effect with a lost reply.  `Crash` and
`Restart` kill the process between any two actions: running requests fail and
the maps in memory are gone.  `MaxFaults` bounds how many of these a behaviour has.

Lines that begin with "Mutant:" introduce deliberately wrong variants of an
operator.  No behaviour uses them; each names a plausible bug of the code that
the property it belongs to must detect (section 6).

### Blackhole

`phase` is the platform's view of an execution and `step` the AWS call its
running request makes next; `targets`, `todo`, `vpc`, `desired`, `undo`,
`doomed` and `errs` are the local variables of the handlers; `nacls`, `tags` and
`assoc` are AWS; `chosen` is the history of the owner's decisions, and `silent`
that of the executions whose Prepare the metadata service did not answer.
`Prepare` is `prepareBlackhole` with `getProtectedAWSAccounts`; `DescribeAssociations`,
`CreateNacl` and `ReplaceAssociation` are the loop body of `startBlackhole`;
`ListNacls`, `RestoreAssociation` and `DeleteNacl` are `rollbackBlackholeViaTags`,
which a failed Start and Stop share.  Both attack types are the same state
machine and differ in how a target resolves to subnets (`TargetSets`).
Two abstractions: an ACL's id is its creator and VPC (one per execution and
VPC), and the deny entries of the ACL are left out, because a new ACL denies
everything anyway and the code ignores their errors.

The lockout guards compare the target's account with up to three others:
`HostAccount`, in which the extension runs and which only the metadata service
names; `RootAccount`, that of its credentials, which STS named at the start (without
an answer the process ends, `aws_access.go:48`); and `AgentAccount`, which the
platform sends if it knows it.  Nothing says that they are the same: in
`blackhole_restored` they are three, in `blackhole_overlap` the extension runs outside
AWS.  The theorem is for any values, equal or not.

### AlbStaticResponse

Rules, their priorities and the tag of an execution; `home` is the priority the
owner last gave a rule.  Start is `DescribeRules`, `TagRule`*, `ShiftRules`,
`CreateRule`; Stop is `FindRule`, `CheckRule`, `DeleteRule`, `ListRules`,
`ReadTags` (page by page, `utils.SplitIntoPages`), `UntagRule`*,
`RestorePriorities`.  `cut` records that a Stop failed after the first tag was
removed; `raced` that two requests worked on the listener at the same time.

### PollRecords and ServicePoller

`PollRecords` holds what the methods do to the map `polls` (a record has the
0-based count of the code and the latest description), shared by the three
modules that use the poller.  `ServicePoller` is the poller with arbitrary
clients: `Register`, `AwaitLatest` (the loop around `Cond.Wait`: look, then
sleep or return), `Unregister` (which may also be repeated, nothing in the code ties it to
a `Register`), `PollAll` (any subset of the registered services gets a new
description: a client that cannot be created or a page that fails leaves the
others), and `Restart`.  A sleeper is in `asleep` until a broadcast.  This is the
*abstract specification* of what the poller promises its clients.

### TaskCountCheck and ServiceEventLog

The two clients, each composed with the poller it shares.  `TaskCountCheck` has
`Prepare`/`AwaitLatest` (register, wait, initial count), `Status` with the five
modes, an unsupported mode, a failure of AWS and the timeout, and `Stop`.
`ServiceEventLog` has `Prepare`, `Status` (Start and Status are the same
handler) and `Stop`, with messages and the new timestamp in one reply that may
be lost.  Both are shown to implement `ServicePoller` under the refinement
mapping `Using`, which says from an execution's phase whether it holds a
registration.

### SsmTaskAttack

One execution (executions share only the heartbeat map, each under its own key)
with the handlers call by call, the goroutine of the heartbeat beside them, its
context (`done`), its ticker (`next`, `ticked`; a tick that finds the channel
full is dropped) and a clock that only matters to the goroutine (`age`).
`GiveUp` is the platform that stops waiting for a slow Start.  What the SSM
document does on the instance is AWS's.

### Settings and SettingsAttack

Seven attacks share one protocol: Prepare reads, Start overwrites, Stop writes
back.  `Settings` has what is particular to each, for eight kinds of resources
(REST and HTTP stages apart), as operators with the names of the code's
functions or of the AWS calls: which settings there are, how AWS reports them,
what Prepare refuses, what Start and Stop send.  `SettingsAttack` is the protocol, with the
kind as a variable: executions of the attack of that kind on one resource, and
its owner.  Each request makes one AWS call that matters, so a request is one
action with the three outcomes of a call.  Values are numbers; the read and the
write capacity of a table are one number, the description and tags of a Lambda
parameter are left out.  Auto Scaling is the one kind whose Prepare
does not ask AWS: it uses what the discovery saw (`seen`, `Discover`).
What UpdateStage does with a field that is left out, the comments of the code
say in two ways; `clears` chooses one of them, and the properties hold for both.

### Configuration

From the text of the environment to the accounts map, as operators:
`ParseConfiguration` (with `TranslateToAssumeRolesAdvanced` and
`VerifyAssumeRolesAdvanced`), `InitializeAwsAccess` (a role that cannot be
assumed is left out), `AccountsMap` with its keys, and `GetAwsAccess`, by which
every request of an attack finds the access that discovered its target.  What is
not given is `Unset`, which differs from an empty list, as nil does from an
empty slice.  An ARN is a record, because the code's pattern for the account
number does not match a role whose name has a path.  The map itself, `accounts`,
is the variable of this module; `Triggers` and `Discovery` share it.

### Collecting, NetworkTargets, ComputeTargets, DataTargets

The 23 discoveries, one operator for the listing (`AllSubnets`) and one for the
target (`SubnetTarget`).  Each is a function of a *view*: the access and its
filters, the pages AWS returned, the calls that failed, the cache, the excludes.
What is kept of a discovery is which failed call loses an attribute, a resource,
or the whole account; whether filters are applied by AWS or afterwards, and to
which tags; what ends its loop over pages; and which list of excludes it applies.
An attribute that is copied from the answer that lists the resource is left out.
`CalculateTotalDuration` follows what a FIS template's actions wait for, from the end;
`DurationRight` compares it with the longest of all chains (section 5 proves it for every
template); that it is the duration of a version no older than the list it is
reported with is `DurationFresh`.

### Discovery

The process from the configuration to the answers: `Refuse` and `Configure`
(main), then jobs in the worker pool.  `Begin` puts all accesses into the
buffered channel, `Take` is a worker that gets one, `Answer` the collector that
has as many results as accesses.  A supplier is one action (`Collect`) where it
touches nothing shared; the renewal of the cache and the reading of FIS templates
are step by step (`InitZonesCache`, `InitVpcCache`, `ReadZones`; `ListTemplates`,
`LookUp`, `GetTemplate`, `StoreDuration`), because they share `cache` and
`durationCache` with other workers.  `ConcurrentMapAccess` is the end of the
process that Go's runtime may choose when two goroutines use a map at once.

### Triggers

Attacks with nothing to bring back, and FIS experiments.  `kind` is the attack of
the behaviour; the constants `RebootDBInstance` and so on say what each call makes of a
unit.  `Prepare` copies the target, `PrepareNodegroup` chooses `SampleSize` of
the instances in service; `Start` is the one call; `LookAtTask` and `StopTask`,
`Stop` and `StopExperiment` are the pairs of calls between which the world
moves.  `Restart` assumes the roles again, some of which fail.  There is
one execution in the run; others would appear to it as changes of the owner, which
`OwnerChanges` and `OwnerStops` make.

## 3. Runs

| Run | Instance | What it shows |
|---|---|---|
| `blackhole_overlap` | 2 executions, 2 subnets in 2 VPCs, 1 fault, 1 move of the owner, 2 Stops each | the owner's choice, the way back, the meaning of a successful Stop, deletion only after restoring |
| `blackhole_restored` | 2 executions, 2 subnets of a VPC and one each in the accounts of the extension, of its credentials and of the agent, 1 fault, fair | an attack that is not overlapped is undone; no attack ACL in a protected account |
| `alb_overlap` | 2 executions, 2 rules, 1 fault, 1 change of the owner, 2 Stops each | order and existence of the owner's rules, what a successful Stop has restored |
| `alb_clean` | 2 executions, 2 rules, 1 fault, 3 Stops, fair | the attack's rule disappears |
| `poller` | 3 clients, 3 services in 2 clusters, an Unregister too many, a restart, fair | no lost wake-up, counts match holders, AwaitLatest returns |
| `check_verdicts` | 2 checks on one service, all modes, counts 0 and 1, a repeated Stop, a restart | verdicts are justified, running checks are polled, refinement of `ServicePoller` |
| `log_events` | 2 logs, 1 service, 2 events, 4 instants, delay, a lost reply, a repeated Stop, a restart | no event twice, none skipped, refinement of `ServicePoller` |
| `ssm_attack` | two ticks before the timeout, 2 faults, 1 repeated Stop, fair | a Stop without error ended the command, heartbeats are called off and bounded, the goroutine ends |
| `settings` | 2 executions on a resource of every kind, 1 fault, 1 change of the owner, 2 Stops each, one index, one process, attack values 0 and 1, fair | unwinding restores what the owner chose, other settings survive, a lone attack is undone |
| `settings_limits` | 1 execution, no fault | *violated*, see section 7 |
| `discovery` | 23 kinds, 2 resources, 12 configurations, 0 to 2 workers, 2 roles, up to 3 pages, 1 fault, 1 update of a FIS template, 2 rounds, fair | targets are selected and can be attacked, complete if no call fails, not reported twice; durations are right, and no older than the list they stand in; every round is answered |
| `triggers` | 1 execution of each of 10 kinds, 3 units, 2 roles, percentages 0, 50, 100 and 101, 2 faults, 2 restarts, 2 changes, fair | answers are true, nothing else is hit nor by another role, an experiment that was stopped ends, its end is reported |

The scenarios of `discovery` (module `MCDiscovery`) are not the product of all
its inputs: every kind is run with three configurations, one kind with all
twelve, and what only some kinds react to (labels that hide, ended resources,
the form of a load balancer or stage, excludes, VPC names switched off) is varied
for those.

**Why the bounds are enough to be interesting.**  Two executions are the smallest
overlap and every hazard of the inventory is about a pair.  Two VPCs or two rules
make the loops of the handlers run more than once, so that a failure can fall
between two iterations; `PageSize = 2` with two rules and the attack's own makes
two pages.  One fault per behaviour covers every single failure at every
place; the SSM run takes two, because its hazard is a lost reply followed by a
second failure.  Two Stops cover the repetition after a failure and after a
success.  An attack's value of 0 is the boundary of every limit and count, and
1 is a value that the table's owner may have chosen too.  Three units are the fewest of which a percentage
selects neither one nor all; two roles of one account and region are the fewest that can be mistaken for each
other.  Three pages have one in the middle that can be empty.  Three clients of the poller are two on one service and one beside them.
For the safety properties listed in section 5 the bounds do not matter: they
are proved for all values.

**Symmetry** is used only where no property of the run is temporal in a way that
distinguishes members, that is, in runs of invariants and of `[][...]_vars`
properties, never in the liveness runs.

**`CHECK_DEADLOCK FALSE`** stands in the runs whose executions end: when all are
stopped, refused or out of repetitions and the bounds are used up, the system
stops.  The poller and the check runs have no such end (AWS goes on changing)
and check for deadlock.

## 4. Fairness

Safety needs none.  The liveness runs assume, each stated in `Fairness`:

- a running request makes its next call (`WF` on the handler): goroutines are
  scheduled and the AWS SDK's calls have time limits;
- the platform stops what it prepared (in `settings`: what it started) and
  repeats a Stop that failed (`WF` on `BeginStop`, or on `Stop` after a failure).  This is the platform's part of the action protocol and
  not code of this repository; it is bounded by `MaxStops`, which exceeds
  the number of faults, so that a fault never uses up the last Stop;
- the poller's ticker fires every five seconds and describes what is
  registered (`WF` on `PollAll` per service): a service that AWS can describe
  is described in the end;
- a goroutine of the worker pool that can go on does, and every call of the SDK
  ends (`WF` on `PoolStep` in `discovery`); nothing is assumed with no worker;
- in `triggers`, the platform goes on asking for the status of an experiment, and an
  experiment does not last for ever (`WF` on `Status` and on `ExperimentMoves`, the part of FIS);
- the runtime fires timers and schedules the heartbeat's goroutine.  There is
  no fairness between the branches of the goroutine's `select`: weak fairness
  holds for the disjunction only.

No strong fairness is assumed anywhere.

## 5. Proofs

The modules `*Proofs` are checked by TLAPS from the constants' assumptions
(`ConstantsAssumption` and its like, all of them of the kind "the bound is a natural
number" or "a subnet has a VPC").  Every THEOREM about behaviours is proved from an
inductive invariant that TLC has checked first.

- **BlackholeProofs.**  `Invariance` proves the conjunction of eight named parts:
  types; `TagsInv` (a tag of an execution's ACL names an ACL that the subnet
  was on, never the execution's own); `DesiredInv`, `UndoInv`, `TodoInv`,
  `RollbackInv` (what the local variables of a running request still promise:
  an association is in `undo` until it is restored, ACLs are doomed only once
  nothing is left to restore); `AssocInv` (who is in front of a subnet has a tag
  for it); `LockoutInv` (the targets, the VPCs still to do and the ACLs of an
  execution are in accounts that its Prepare could not know to be protected).
  `OwnersChoiceKept` is not inductive because between
  describing and replacing the owner may move a subnet: association ids grow
  with every change, so a stale snapshot is refused by AWS, and the invariant
  says so for every snapshot a handler still holds.  Five properties follow.
- **AlbStaticResponseProofs.**  The listener is in one of two modes: no rule has been
  moved, and the tagged ones belong to the block that begins at priority 1
  (`Untouched`), or every rule is on its priority or the next one, and the tagged ones
  are on the next one (`Shifted`).  A Stop after a Start that failed between tagging
  and moving tries to pull up what was never pushed down; `UntouchedIsRefused`
  shows that AWS does not accept it: the rule of the smallest priority in the plan
  would get priority 0, or that of the rule before it, which is then not in
  the plan.  "Alone" ends when another execution is started, and does not come back, so the
  invariant (`AttackInv`) is one of the behaviours up to that moment (`Solo`).
  `cut` is needed in it: what a Stop has untagged and not yet restored is known to
  its local variables only.
  `OwnerRulesKept` is about attacks that overlap and needs an invariant of its own
  (`OrderInv`): requests that have never run at the same time run one at a time, so
  that what a request has described is still so when it sets priorities, and
  its plan moves rules by exactly one place, all in one direction (`DescribedInv`).
  `ByOneKeepsOrder` then shows that what AWS accepts of such a plan keeps the order.
  That no rule of the owner is deleted is `DeleteInv`, and needs no such condition.
- **ServicePollerProofs.**  `NoLostWakeup` needs to know of each sleeper which of the
  two reasons to wait it has; `HoldersCounted` is proved with the cardinality of
  the holders' set, one lemma for a client that joins and one for one that leaves.
- **TaskCountCheckProofs.**  `Implementation` is a step simulation;
  `RunningIsPolled` is then inherited from `HoldersAreCounted` through it, and
  `PassedMeansMetUndisturbed` follows from the invariant that a description in
  the map after a running check's registration has been shown to it.
- **ServiceEventLogProofs.**  `ReportedOnce` from an invariant that bounds what has been
  reported by the timestamp; `NothingSkipped` from the fact that polls are
  prefixes, in time, of what AWS shows while AWS shows events in order;
  `Implementation` as above.
- **SsmTaskAttackProofs.**  `BeatsBounded` from an arithmetic invariant (accepted
  heartbeats and the pending tick, times the interval, are at most the time of
  the last tick); `NoHeartbeatByDefault` is its instance for an interval longer than
  the timeout, which is how the code's defaults are (30 s and 15 s).
- **SettingsAttackProofs.**  Lemmas by kind: what Stop writes covers what Start
  writes, and makes no difference to what Prepare has found, except for a
  limit that was missing or 0 (`StopCoversStart`, `StopBringsBack`).  The
  invariant says of every setting, by its last writer, why it has its value:
  the owner's choice, a Stop's, or a Start's whose execution is not yet stopped.
  `UnwoundIsRestored` is not inductive because it speaks only of the moments when
  everything is stopped.
- **AccessProofs.**  Both modules that use the accounts map.  The invariant of `Triggers`
  (`TriggersInv`) has four parts per execution: what was chosen
  (`ChoiceInv`, with the arithmetic of the percentage, from the lemma
  `RoundedUp`), what a call may have hit (`HitInv`: all of it or nothing),
  what the look at a task still means (`TaskInv`: a task that was gone does not
  come back, the access does not change while the request runs), and how far the
  experiment is (`ExperimentInv`).  That a restart with fewer roles leads to no other
  account is `FewerRolesFewerAccesses` with `AccountsKeyed`.
  For `Discovery`, every supplier is first a lemma about an operator: of each of the 23
  kinds, what is reported is in the account and region of the access, passes its
  filters, can be attacked and shows nothing that is not so (`SuppliersAreSound`), and with no call failed nothing that should be there
  is missing (`SuppliersAreComplete`).  `WorkerStep` says once what a step of a worker
  may change; `DiscoveryInv` is then the conjunction of seven parts: the shape
  of jobs, workers and rounds (`Shaped`), what is in the channels and in a worker's hands
  (`WorkInv`), what the metadata cache holds while it is renewed step by step
  (`CacheInv`), what a collected result promises (`SoundInv`, `CompleteInv`), what a worker
  that reads FIS templates has listed and read so far (`ListInv`), and how old a
  cached duration can be (`FreshInv`).  The properties are not inductive because they
  speak of the answer of a round, and what an answer promises rests on all
  the steps that its workers took between the renewals of the cache and the changes of
  the templates.  `ReportedOnce` follows from
  soundness and from what `VerifyAssumeRolesAdvanced` accepts: every access has the role, a
  region and the filters of a role of the configuration (`AccessOfRole`), and of two roles
  with an account and a region in common the later one has filters
  (`LaterRoleHasFilters`, `FiltersOfRole`).  The assumption is
  `ScenariosAssumption`: kinds are known, configurations are finite, no access is nil, tags
  are keys with values, a stage is one of a REST or an HTTP API, and AWS accepts the
  templates (`IsTemplate`): they have finitely many actions, which wait for actions of
  their own template and not for each other.  The last is more than a convenience:
  `calculateTotalDuration` loops until every action has its end
  (`template_discovery.go:219`), and would do so for ever on another template.

  `DurationRight` is about a recursion, and the library's induction theorems cannot be
  used.  Each argument is instead about the first case that would fail: of some
  numbers one is the least (`LeastNumber`), of some finite sets one is the smallest
  (`SmallestSet`), of some actions of a template one waits for none of the others
  (`IsTemplate`).  The steps are: the recursive function of the code has a solution for
  the whole template, because the largest set of actions that has one leaves none out
  (`EndsExist`, `EndsSolve`); the fold in the property does too, and does not depend on
  the order in which it takes places (`SumsExist`, `SumsSolve`, `AnyOut`); no
  chain is longer than the end of its last action (`ChainEndsInTime`), nor than the number
  of actions (`ChainIsShort`), so the property does quantify over all chains; and at
  every action ends a chain without a gap, which is exactly as long
  (`TightChain`, `TightIsExact`).  `LongestChain` puts this together for one template, and
  `DurationInv` says of every duration that is shown that it was computed from a version
  that there is, also if it comes from the cache.

The type invariants of `Blackhole`, `TaskCountCheck`, `ServiceEventLog`,
`SsmTaskAttack`, `SettingsAttack` and `Discovery` are proved and not run again; those of the
others are run and proved as well.

Only model-checked: the liveness properties; fairness and ENABLED are outside the
prover's reach.  All safety properties of the runs are proved.

## 6. Mutants

Each property is paired in `PROJECT.json` with a mutated definition, e.g. a rollback that
does not look at the current association, a count that is not decremented, a Stop
that does not wait for the command.  The same run, with the mutant in place,
violates the property: the property depends on that line of the code.

## 7. Findings

One statement of the repository is refuted by a run of its own:

- `settings_limits`: "Original limits are restored on stop" (`attack_throttle.go:52`).  One
  flag stands for two limits: of a stage that had only one, the other is
  written back as 0 (REST, when AWS reports it as 0) or stays at the attack's
  value (HTTP, when AWS takes a missing field for no change).  With both limits
  set, or none, the statement holds (`EventuallyRestored`, `UnwoundIsRestored`).

In other places the code does not do what a comment, a message or a name says,
or less than a reader would expect.  The models have the behaviour of the code,
and the property that would say otherwise has the exception in its statement:

- A blackhole attack "won't start, if the extension is running in the attacked account"
  (`README.md:844` of the repository): when the metadata service does not answer,
  the account of the credentials stands in for the one the extension runs in
  (`blackhole_common.go:153`), and if the two differ the extension's own account
  is not protected (`NoLockout`, `silent`).
- "idempotent stop method" (`alb_attack_static_response.go:500`): the check compares
  the key of a tag and not its value, so a repeated Stop may delete the rule of
  another execution on the listener (`StoppedIsClean`).
- "How many running tasks are required to let the check pass"
  (`service_task_count_check.go:102`): after a restart of the extension the registration
  is gone, there is no description and `Status` passes (line 196); without a
  restart or a repeated Stop the statement holds (`PassedMeansMetUndisturbed`, proved).
- "Autoscaling attributes will be missing" (`table_discovery.go:126`): they are
  not, every table is reported as not scaled; likewise a rule whose targets cannot
  be listed is reported to have none (`rule_discovery.go:121`) (`SoundTargets`).
- Seven discoveries never read the list of attribute excludes that the
  configuration has for them, and that of application load balancers applies the list
  of ECS (`alb_discovery.go:178`) (`CompleteTargets`, `ExcludesNotApplied`).
- The check that roles of one account are separated by tag filters accepts an
  empty list, and does not recognise the account of a role whose name has a path
  (`config.go:76`, `config.go:89`) (`ReportedOnce`).
- ECS clusters are listed without a loop over pages (`service_discovery.go:124`), an empty
  page ends the loops of Lambda (`extlambda/discovery.go:210`) and ElastiCache
  (`node_group_discovery.go:160`), and a NAT gateway whose subnet was deleted with it takes the
  zones of the others of the account along (`nat_gateway_discovery.go:157`) (`CompleteTargets`).
- `durationCache` is a plain map used by several workers (`template_discovery.go:206`), and
  its entries are stamped when they are stored, not when they were read
  (`EventuallyAnswered`, `DurationFresh`).
- An experiment that is cancelled in FIS is neither completed nor failed for `Status`
  (`start_experiment.go:178`): its end is never reported (`EventuallyReported`).

Further reservations that are part of a property's statement and explained at
it: `PrioritiesRestored` (not after a Stop that failed between untagging and
restoring), `OwnerRulesKept` (order is only promised while requests do not
overlap), `HoldersCounted` (a repeated Unregister takes somebody else's
registration), `NothingSkipped` (an event that AWS shows late or in the same
instant as the newest one is never reported), `StoppedMeansEnded` (nothing
cancels a command whose id was lost), `CalledOffIsQuiet` (a Start that the
platform has given up creates a heartbeat afterwards), `UnwoundIsRestored` (an
execution that prepared itself under another attack, or before its owner's
change, brings back what it read; a rule that was not plainly enabled ends up
enabled), `EventuallyRestored` of `SettingsAttack` (the settings are as before, but a
Stop of the DynamoDB attack whose first reply was lost may fail for ever: it asks
for the capacity that is in force already), `EventuallyAnswered` of `ServicePoller`
(after a repeated Unregister or a restart, AwaitLatest may wait for ever for a
service that is not registered in a cluster that is), `CompleteTargets` (only
without a failed call: the failed renewal of one role wipes the zones and VPC names
that another role of the account has found and the discoveries show).

## 8. Not modelled

- The parameters and documents of the SSM attacks one by one
  (`task_attack_ssm_*.go`): they differ in strings that the agent on the task
  interprets; their common life is `SsmTaskAttack`.
- The enrichment rules, and the descriptions of types and attributes: constant
  tables that are handed to the platform.
- Of the wiring: the HTTP server, the flags that leave a discovery out, signals.
  The refresh intervals of the discoveries and the cache of their answers
  belong to the discovery kit; `Begin` may start a round at any time.
- Attributes of a target that are copied from the answer that listed it; logging,
  messages and their format.
- An action of the EC2 state attack other than its five options, which the code answers
  with a success without a call (`instance_attack_state.go:130`); instances of
  a node group of which AWS terminates only some.
- AWS itself beyond what the code relies on: throttling and retries of the SDK
  are a call that fails or does not.

What could come next: actions of several kinds in one process, and a refinement
of `Triggers` and `SettingsAttack` to one abstract protocol of actions.
