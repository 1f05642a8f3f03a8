SPECIFICATION FairSpec
CONSTANTS
    Buffers = {b1, b2}
    Orders <- TwoOneZero
    NumOrders = 3
    Frames = 8
    Limit = 4
    Lengths = {1, 3, 4}
    MaxViews = 2
    Faults = {"signal", "table", "export", "vmap", "attach", "map", "remap"}
INVARIANTS
    PagesExact
    ViewsAgree
    Below4GB
PROPERTIES
    AllocationEnds
