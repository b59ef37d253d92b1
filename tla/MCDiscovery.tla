------------------------------- MODULE MCDiscovery -------------------------------
(***************************************************************************)
(* The scenarios of the run of module Discovery.                           *)
(***************************************************************************)
EXTENDS Discovery

CONSTANTS r1, r2

acct == "111122223333"
Tag(key, value) == [key |-> key, value |-> value]
Filter(key, values) == [key |-> key, values |-> values]
TeamA == {Filter("team", {"a", "c"}), Filter("env", {"prod"})}
TeamB == {Filter("team", {"b"})}

Arn(name) == [account |-> acct, name |-> name, path |-> FALSE]
ArnWithPath(name) == [account |-> acct, name |-> name, path |-> TRUE]
Role(arn, regions, filters) == [arn |-> arn, regions |-> regions, filters |-> filters]

Own(regions, filters) ==
    [assumeRoles |-> Unset, assumeRolesAdvanced |-> Unset, regions |-> regions, tagFilters |-> filters]
Simple(arns, filters) ==
    [assumeRoles |-> arns, assumeRolesAdvanced |-> Unset, regions |-> <<>>, tagFilters |-> filters]
Advanced(roles) ==
    [assumeRoles |-> Unset, assumeRolesAdvanced |-> roles, regions |-> <<>>, tagFilters |-> Unset]

Unfiltered == Own(<<>>, Unset)
Filtered == Own(<<"east", "west">>, TeamA)
Separated == Advanced(<<Role(Arn("a"), Unset, TeamA), Role(Arn("b"), Unset, TeamB)>>)

\* Configurations that differ in what ParseConfiguration makes of them.
Configurations ==
    {Unfiltered, Filtered, Separated,
     Advanced(<<Role(Arn("a"), <<"east">>, Unset), Role(Arn("b"), <<"west">>, Unset)>>),
     Advanced(<<Role(Arn("a"), Unset, Unset), Role(Arn("b"), Unset, TeamA)>>),
     Advanced(<<Role(Arn("a"), Unset, TeamA), Role(Arn("b"), Unset, Unset)>>),
     Advanced(<<Role(Arn("a"), Unset, {}), Role(Arn("b"), Unset, {})>>),
     Advanced(<<Role(Arn("a"), Unset, TeamA), Role(Arn("a"), Unset, TeamB)>>),
     Simple(<<Arn("a"), Arn("b")>>, Unset),
     Simple(<<Arn("a"), Arn("b")>>, {}),
     Simple(<<Arn("a"), ArnWithPath("b")>>, Unset),
     [Simple(<<Arn("a")>>, Unset) EXCEPT !.assumeRolesAdvanced = <<>>]}

AllLists == {Promised[kind].list : kind \in DOMAIN Promised}
UsingTheCache == {"instance", "zone", "rds"}

\* The template of the second version: a waits for b and c.
Action(after, duration) == [after |-> after, duration |-> duration]
Versions ==
    <<[a |-> Action({}, 1), b |-> Action({"a"}, Unset)],
      [a |-> Action({"b", "c"}, 1), b |-> Action({}, 2), c |-> Action({}, 1)]>>

World(kind, spec) ==
    {[kind |-> kind, spec |-> spec, workers |-> workers,
      rounds |-> IF kind \in {"template", "instance"} /\ spec = Separated /\ ~paged THEN 2 ELSE 1,
      home |-> [r \in Resources |-> <<acct, "east">>],
      tags |-> [r \in Resources |->
                  IF r = r1 THEN {Tag("team", "a"), Tag("env", "prod")}
                  ELSE {Tag("team", "b"), Tag("env", "prod")} \cup own],
      form |-> form, live |-> [r \in Resources |-> r \in live],
      homeless |-> IF live = Resources THEN {} ELSE homeless,
      excluded |-> excluded, all |-> all, paged |-> paged, vpcDisabled |-> vpcDisabled,
      actions |-> Versions] :
        workers \in {2} \cup IF kind \in {"subnet", "template"} THEN {0, 1} ELSE {},
        own \in {{}} \cup IF kind \in {"task", "service"}
                          THEN {{Tag("steadybit.com/discovery-disabled", "true")}} ELSE {},
        form \in CASE kind \in {"alb", "nlb"} -> [Resources -> {"application", "network"}]
                   [] kind = "stage" -> [Resources -> {"rest", "http"}]
                   [] OTHER -> {[r \in Resources |-> "any"]},
        live \in {Resources} \cup IF kind \in {"nat", "task", "msk"} THEN {{r1}} ELSE {},
        homeless \in {{}} \cup IF kind = "nat" THEN {{r2}} ELSE {},
        excluded \in {{}} \cup IF spec = Unfiltered THEN {AllLists} ELSE {},
        all \in {FALSE} \cup IF kind \in {"task", "service"} THEN {TRUE} ELSE {},
        paged \in {FALSE} \cup IF kind = "template" THEN {} ELSE {TRUE},
        vpcDisabled \in {FALSE} \cup IF kind = "rds" /\ spec = Unfiltered THEN {TRUE} ELSE {}}

\* Every kind with some configurations, one kind with all of them.
MCScenarios ==
    UNION {World(kind, spec) : kind \in DOMAIN CallsOf, spec \in {Unfiltered, Filtered, Separated}}
    \cup UNION {World("subnet", spec) : spec \in Configurations}
=============================================================================
