SPECIFICATION FairSpec
CONSTANTS
    Objects = {o1, o2, o3}
    TotalChunks = 5
    ChunkSize = 2
    NoObject = NoObject
INVARIANTS
    TypeOK
    NoSharedChunk
    AccountingExact
PROPERTIES
    SearchEnds
    ImplementsAllocator
