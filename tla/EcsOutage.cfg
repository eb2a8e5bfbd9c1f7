SPECIFICATION Spec
CONSTANTS
    t1 = t1
    t2 = t2
    x = x
    y = y
    d1 = d1
    d2 = d2
    i1 = i1
    Tasks = {t1, t2}
    Names = {x, y}
    taskDef <- OwnDefs
    labelled <- OneEach
    mode <- AwsvpcAndHost
    instance <- OneHost
    BatchSize = 1
    MaxMoves = 2
INVARIANTS
    BooksMatchRegistrar
    SuccessMeansSwept
PROPERTIES
    OutageDropsNothing
CHECK_DEADLOCK FALSE
