SPECIFICATION FairSpec
CONSTANTS
    f1 = f1
    f2 = f2
    s1 = s1
    s2 = s2
    ca = ca
    cb = cb
    q1 = q1
    q2 = q2
    Functions = {f1, f2}
    Services = {s1, s2}
    Caps = {ca, cb}
    Qualifiers = {q1, q2}
    Valid <- FewTags
    Disabled = Disabled
    Invalid = Invalid
    None = None
    MaxRetags = 2
INVARIANTS
    BooksMatchRegistrar
PROPERTIES
    DroppedOnlyWhenRetagged
    ServedAsTagged
CHECK_DEADLOCK FALSE
