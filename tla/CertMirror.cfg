SPECIFICATION FairSpec
CONSTANTS
    crt = crt
    key = key
    Files = {crt, key}
    Faults = {"list", "get", "put", "dir", "overflow", "crash"}
    MaxIssues = 2
    MaxStarts = 2
INVARIANTS
    DirtyIsNoticed
    SweptBeforeExit
    RestoredWhatCouldBe
PROPERTIES
    IssuedIsUploaded
CHECK_DEADLOCK FALSE
