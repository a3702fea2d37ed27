\* Every root of the heap, two Serialize and two Deserialize calls, both
\* JVM builds, asserts on and off, SD and Serde options, one and two
\* device threads (Color[] then runs in two batches).
CONSTANTS
    Classes <- MCClasses
    Heap <- MCHeap
    RegSeq <- MCRegSeq
    Roots <- MCRootsAll
    MaxCalls = 2
    DeviceThreads <- MCDeviceThreads
SPECIFICATION FairSpec
INVARIANTS
    TypeOK
    Framing
    MemberSlots
    FieldIdsResolved
    KernelMatchesWalker
    
PROPERTIES
    SerializeReturns
