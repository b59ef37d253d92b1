\* An attack with two ticks before the timeout and two faults.
SPECIFICATION FairSpec
CONSTANTS
    Duration = 1
    Timeout = 2
    MaxAge = 4
    MaxFaults = 2
    MaxRepeats = 1
INVARIANTS StoppedMeansEnded CalledOffIsQuiet BeatsBounded
PROPERTY HeartbeatEnds
CHECK_DEADLOCK FALSE
