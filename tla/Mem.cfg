SPECIFICATION Spec
CONSTANTS
    Threads = {t1, t2}
    Sessions = {s1, s2}
    Objs = {o1, o2, o3}
    Bufs = {b1, b2}
    Foreign = {b2}
    NoSession = NoSession
    NoObj = NoObj
    NoBuf = NoBuf
    MaxFds = 2
    Faults = {"fd", "attach", "vmap", "copy"}
INVARIANTS
    TypeOK
    RefExact
    MappingsExact
    AttachedIsAlive
    OneOwner
CHECK_DEADLOCK FALSE
SYMMETRY Symmetry
