\* Every attack that is not overlapped is undone, and no protected account attacked:
\* the extension runs in another account than that of its credentials.
SPECIFICATION FairSpec
CONSTANTS
    Executions = {e1, e2}
    Subnets = {s1, s3, sh, sx, sa}
    s1 = s1  s2 = s2  s3 = s3  sh = sh  sx = sx  sa = sa
    Vpcs = {1, 3, 4, 5}
    VpcOf <- MCVpcOf
    AccountOf <- MCAccountOf
    UserAcls = {u1}
    TargetSets <- MCTargetSetsWithS1
    HostAccount = "host"
    RootAccount = "root"
    AgentAccount = "agent"
    NoAccount = ""
    MaxFaults = 1
    MaxMoves = 0
    MaxStops = 2
INVARIANT NoLockout
PROPERTY EventuallyRestored
CHECK_DEADLOCK FALSE
