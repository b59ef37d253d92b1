SPECIFICATION FairSpec
CONSTANTS
    Unset = Unset
    RootAccount = "111122223333"
    RootRegion = "east"
    Executions = {e1}
    Units = {u1, u2, u3}
    Kinds = {"ec2", "rdsReboot", "rdsStop", "rdsCluster", "elasticache", "msk", "mq", "nodegroup", "task", "fis"}
    Config <- MCConfig
    Percentages = {0, 50, 100, 101}
    MaxFaults = 2
    MaxRestarts = 2
    MaxChanges = 2
INVARIANTS TypeOK AnswersAreTrue BlastRadius StoppedMeansEnding
PROPERTY EventuallyReported
CHECK_DEADLOCK FALSE
