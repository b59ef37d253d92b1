\* Three clients on two services of one cluster and one of another.
SPECIFICATION FairSpec
CONSTANTS
    Clients = {c1, c2, c3}
    Services = {s1, s2, s3}
    s1 = s1  s2 = s2  s3 = s3
    ClusterOf <- MCClusterOf
    Descriptions = {d1}
    Nil = Nil
    MaxRepeats = 1
    MaxRestarts = 1
INVARIANTS TypeOK NoLostWakeup HoldersCounted
PROPERTY EventuallyAnswered
