SPECIFICATION FairSpec
CONSTANTS
    q1 = q1
    q2 = q2
    b1 = b1
    b2 = b2
    b3 = b3
    Reqs = {q1, q2}
    Backends = {b1, b2, b3}
    InitPools <- OneOrTwo
    Wrap = 2
    MaxChanges = 1
INVARIANTS
    NeverReplayed
    NoMemberTwice
    GivesUpOnlyWhenExhausted
    MetersAreTrue
    EvenlySpread
PROPERTIES
    AbandonedRequestsEnd
CHECK_DEADLOCK FALSE
