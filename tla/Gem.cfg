SPECIFICATION Spec
CONSTANTS
    Threads = {t1, t2}
    Files = {f1, f2}
    Objs = {o1, o2}
    NoFile = NoFile
    NoObj = NoObj
    Chunks = 2
    Sizes = {1, 2}
    MaxJobs = 1
    Faults = {"domain", "map", "alloc", "handle", "track"}
INVARIANTS
    TypeOK
    RefsExact
    
    DomainExact
\* every object given up on: the pool of identities is empty
CHECK_DEADLOCK FALSE
CONSTRAINT NoStale
VIEW NoLeftovers
SYMMETRY Symmetry
