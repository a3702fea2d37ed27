\* Roots that hold Color.GREEN as a field or an array element; two calls
\* of each kind are enough to revive the constant twice.
CONSTANTS
    Classes <- MCClasses
    Heap <- MCHeap
    RegSeq <- MCRegSeq
    Roots <- MCRootsEnumMembers
    MaxCalls = 2
    DeviceThreads <- MCDeviceThreads
SPECIFICATION Spec
INVARIANT RoundTrip
