SPECIFICATION Spec
CONSTANTS
    Tables <- SmallTables
    MemWord = 10
    GemWord = 16
    SramSizes = {0, 2}
    Args <- SmallArgs
INVARIANTS
    SyncExact
