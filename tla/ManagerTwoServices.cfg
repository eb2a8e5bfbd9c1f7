SPECIFICATION Spec
CONSTANTS
    c1 = c1
    c2 = c2
    k1 = k1
    k2 = k2
    k3 = k3
    s1 = s1
    s2 = s2
    r1 = r1
    r2 = r2
    r3 = r3
    Main = Main
    NoRec = NoRec
    NoService = NoService
    NoKey = NoKey
    Free = Free
    Callers = {c1, c2}
    Keys = {k1, k2}
    Drives <- PairDrivers
    Services = {s1, s2}
    Defs <- PlainServices
    Recs = {r1, r2, r3}
    AcceptMayFail = TRUE
SYMMETRY RecSymmetry
INVARIANTS
    SerialEdits
    NoOrphanBackend
    ListenNeverRefused
    NothingLeftBehind
PROPERTIES
    ShutdownIsFinal
