SPECIFICATION DiscoverySpec
CONSTANTS
    Unset = Unset
    r1 = r1
    r2 = r2
    Resources = {r1, r2}
    RootAccount = "111122223333"
    RootRegion = "east"
    MaxFailures = 1
    MaxUpdates = 1
    Scenarios <- MCScenarios
INVARIANTS SoundTargets CompleteTargets ReportedOnce DurationRight DurationFresh
PROPERTY EventuallyAnswered
CHECK_DEADLOCK FALSE
