SPECIFICATION FairSpec
CONSTANTS
    a = a
    Containers = {a}
    MaxStarts = 2
    MaxSignals = 1
    MayLose = FALSE
PROPERTIES
    RunningIsServedAtItsAddress
CHECK_DEADLOCK FALSE
