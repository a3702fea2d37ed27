\* TCP backend with a serving predicate that may flip: a receive left
\* posted by a returning worker.
CONSTANTS
    c1 = c1
    c2 = c2
    c3 = c3
    Callers <- MCCallers2
    CallerQueueDepth = 2
    QueueDepth = 2
    CallsPerCaller = 1
    SeqMod <- MCSeqMod
    Backend = "TCP"
    StopAllowed = TRUE
    BulkCallers = {}
SPECIFICATION Spec
CHECK_DEADLOCK FALSE
PROPERTY CompletionTargetsLiveContext
