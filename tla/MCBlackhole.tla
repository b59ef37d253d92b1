----------------------------- MODULE MCBlackhole -----------------------------
(* Small instances of Blackhole: subnets spread over the VPCs of the target  *)
(* account and of the accounts of the extension, of its credentials and of   *)
(* the agent.                                                                 *)
EXTENDS Blackhole, TLC

\* s1 and s2 lie in different VPCs of the target account, s3 beside s1; sh, sx
\* and sa lie in the account the extension runs in, in that of its credentials
\* and in that of the agent.
CONSTANTS s1, s2, s3, sh, sx, sa

MCVpcOf ==
    [s \in Subnets |-> CASE s = s2 -> 2 [] s = sx -> 3 [] s = sa -> 4 [] s = sh -> 5
                         [] OTHER -> 1]
MCAccountOf ==
    [v \in Vpcs |-> CASE v = 3 -> "root" [] v = 4 -> "agent" [] v = 5 -> "host"
                      [] OTHER -> "target"]
MCTargetSets == SUBSET Subnets \ {{}}
\* s3 alone is s1 by another name.
MCTargetSetsWithS1 == {T \in MCTargetSets : s3 \in T => s1 \in T}
Symmetry == Permutations(Executions) \cup Permutations(UserAcls)
=============================================================================
