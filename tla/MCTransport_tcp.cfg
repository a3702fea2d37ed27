\* TCP backend: two caller fibers with an RPC each in flight at once,
\* two serve workers, serve() until the peer disconnects; c1 may instead
\* bulk() a buffer (call<Bulk>, then bulk_write on the bulk socket).
CONSTANTS
    c1 = c1
    c2 = c2
    c3 = c3
    Callers <- MCCallers2
    CallerQueueDepth = 2
    QueueDepth = 2
    CallsPerCaller = 1
    SeqMod <- MCSeqMod
    Backend = "TCP"
    StopAllowed = FALSE
    BulkCallers <- MCBulkCallers
SPECIFICATION Spec
INVARIANTS
    TypeOK
    NoCrossTalk
    OutstandingMatchesCaller
    BufferConservation
    NoLeakOnDisconnect
    NoFatal
PROPERTIES
    CallsComplete
    ServeReturns
    RefinesRPC
