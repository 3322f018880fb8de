\* Two starts and one stop; the second death in a row is one too many.
CONSTANTS
    s1 = s1
    s2 = s2
    x1 = x1
    f1 = f1
    f2 = f2
    f3 = f3
    Supervisors <- TwoStarts
    Stops <- OneStop
    Files <- Inodes
    NoOne = NoOne
    MaxFast = 1

SPECIFICATION DaemonFairSpec

INVARIANTS
    OneDaemon

PROPERTIES
    StoppedMeansStopped
    StopEnds

CHECK_DEADLOCK FALSE
