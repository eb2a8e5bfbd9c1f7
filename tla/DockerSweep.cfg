SPECIFICATION FairSpec
CONSTANTS
    a = a
    Containers = {a}
    MaxStarts = 3
    MaxSignals = 1
    MayLose = TRUE
INVARIANTS
    BooksMatchRegistrar
    CaughtUpIsCurrent
PROPERTIES
    Converges
CHECK_DEADLOCK FALSE
