\* Comch backend: serve() until the peer disconnects.
\* The worker waiting on a receive that task_cb drops never returns, so
\* the system stops there.
CONSTANTS
    c1 = c1
    c2 = c2
    c3 = c3
    Callers <- MCCallers2
    CallerQueueDepth = 2
    QueueDepth = 2
    CallsPerCaller = 1
    SeqMod <- MCSeqMod
    Backend = "Comch"
    StopAllowed = FALSE
    BulkCallers = {}
SPECIFICATION Spec
CHECK_DEADLOCK FALSE
PROPERTY ServeReturns
