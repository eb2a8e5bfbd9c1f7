SPECIFICATION FairSpec
CONSTANTS
    AwsModes = {"ecs", "lambda"}
    Names = {"", "1", "2", "c", "n"}
    Configs <- Few
    Faults <- FaultKinds
INVARIANTS
    SendsFindRoom
    NoSilentReader
PROPERTIES
    ResultIsTrue
    UnwoundInOrder
    FailureEndsProcess
CHECK_DEADLOCK FALSE
