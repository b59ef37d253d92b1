-------------------------------- MODULE Collecting --------------------------------
(***************************************************************************)
(* What the discoveries have in common.  A worker collects the resources   *)
(* of one kind under one AWS access; what it meets is a view v:            *)
(*   v.access    the account, region and role it uses                      *)
(*   v.filters   the tag filters of the access                             *)
(*   v.pages     the resources that the list call returns, page by page    *)
(*   v.down      the calls that fail, <<call>> or <<call, resource>>       *)
(*   v.cached    what the EC2 metadata cache has for account and region    *)
(*   v.excluded  the lists of attribute excludes that name the labels      *)
(*   v.all       DisableDiscoveryExcludes                                  *)
(*   v.homeless  the NAT gateways whose subnet is gone                     *)
(* and v.tags, v.form and v.live say of each resource what AWS knows.      *)
(*                                                                         *)
(* A target is the resource it stands for, the access it was found by and  *)
(* what it shows: of its attributes only those groups that are not part of *)
(* the answer that listed the resource, and the labels.  All others are    *)
(* copied, each if the answer has it.                                      *)
(***************************************************************************)
EXTENDS Naturals, Sequences, FiniteSets

Fine(v, call) == <<call>> \notin v.down
FineFor(v, call, r) == <<call, r>> \notin v.down

\* All pages of a paged call.
Listed(v) == UNION {v.pages[i] : i \in DOMAIN v.pages}

\* What a call that is not paged returns.
FirstPage(v) == IF v.pages = <<>> THEN {} ELSE Head(v.pages)

\* The pages before the first that is empty.
UntilEmptyPage(v) ==
    UNION {v.pages[i] : i \in {j \in DOMAIN v.pages : \A k \in 1 .. j : v.pages[k] # {}}}

\* Mutant: one filter that matches is enough.
MatchesAnyTagFilter(tags, filters) ==
    filters = {} \/ \E f \in filters : \E t \in tags : t.key = f.key /\ t.value \in f.values

\* Every filter matches one of the tags.  The packages have a copy each; AWS
\* answers the same way to a describe call with filters.
MatchesTagFilter(tags, filters) ==
    \A f \in filters : \E t \in tags : t.key = f.key /\ t.value \in f.values

Matches(v, r) == MatchesTagFilter(v.tags[r], v.filters)

\* Without its tags a resource matches only if there is no filter.
MatchesWith(v, r, known) == MatchesTagFilter(IF known THEN v.tags[r] ELSE {}, v.filters)

\* The tag that hides an ECS task or service.
DiscoveryDisabled == [key |-> "steadybit.com/discovery-disabled", value |-> "true"]

\* aws.account, aws.region and extension-aws.discovered-by-role of a target.
Target(v, r, shows) == [of |-> r, by |-> v.access, shows |-> shows]

Failed == [ok |-> FALSE, targets |-> {}]
Found(targets) == [ok |-> TRUE, targets |-> targets]

\* discovery_kit_commons: the attributes of a list are taken off the targets.
ApplyAttributeExcludes(v, list, targets) ==
    IF list \in v.excluded
    THEN {[t EXCEPT !.shows = @ \ {"labels"}] : t \in targets}
    ELSE targets

\* GetZone and GetVpcName add the zone's id and the VPC's name if the cache has
\* them.
GetZone(v) == v.cached \cap {"zone"}
GetVpcName(v) == v.cached \cap {"vpc"}
=============================================================================
