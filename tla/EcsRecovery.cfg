SPECIFICATION FairSpec
CONSTANTS
    t1 = t1
    t2 = t2
    x = x
    y = y
    d1 = d1
    d2 = d2
    i1 = i1
    Tasks = {t1}
    Names = {x, y}
    taskDef <- SharedDef
    labelled <- TwoOfOne
    mode <- Bridge
    instance <- OneHost
    BatchSize = 1
    MaxMoves = 2
PROPERTIES
    Converges
CHECK_DEADLOCK FALSE
