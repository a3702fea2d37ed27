\* TCP backend, three callers sharing two send and two recv pieces, and the
\* serving application may flip the predicate of serve_until at any time.
\* Unanswered calls then wait forever, so the system may stop.
CONSTANTS
    c1 = c1
    c2 = c2
    c3 = c3
    Callers <- MCCallers3
    CallerQueueDepth = 2
    QueueDepth = 2
    CallsPerCaller = 1
    SeqMod <- MCSeqMod
    Backend = "TCP"
    StopAllowed = TRUE
    BulkCallers = {}
SPECIFICATION Spec
CHECK_DEADLOCK FALSE
INVARIANT NoCrossTalk
INVARIANT BufferConservation
