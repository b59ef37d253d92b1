\* Two executions on two VPCs, overlapping in every way.
SPECIFICATION Spec
CONSTANTS
    Executions = {e1, e2}
    Subnets = {s1, s2}
    s1 = s1  s2 = s2  s3 = s3  sh = sh  sx = sx  sa = sa
    Vpcs = {1, 2}
    VpcOf <- MCVpcOf
    AccountOf <- MCAccountOf
    UserAcls = {u1, u2}
    TargetSets <- MCTargetSets
    HostAccount = ""
    RootAccount = "root"
    AgentAccount = "agent"
    NoAccount = ""
    MaxFaults = 1
    MaxMoves = 1
    MaxStops = 2
SYMMETRY Symmetry
INVARIANTS OwnersChoiceKept WayBackKnown StoppedIsClean
PROPERTY DeletedOnlyWhenRestored
CHECK_DEADLOCK FALSE
