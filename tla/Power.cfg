SPECIFICATION FairSpec
CONSTANTS
    Users = {u1}
    Debuggers = {d1, d2}
    Worker = Worker
    Delays = {0, 500}
    MaxOn = 3
    MaxRefs = 4
    Faults = {"on_fail", "off_fail"}
INVARIANTS
    TypeOK
    RefcountExact
    PoweredIffReferenced
PROPERTIES
    IdlePowersOff
    PutReturns
