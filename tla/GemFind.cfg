SPECIFICATION Spec
CONSTANTS
    Threads = {t1, t2}
    Files = {f1, f2}
    Objs = {o1, o2}
    NoFile = NoFile
    NoObj = NoObj
    Chunks = 3
    Sizes = {1, 2}
    MaxJobs = 1
    Faults = {}
INVARIANTS
    FoundIsHeld
SYMMETRY Symmetry
