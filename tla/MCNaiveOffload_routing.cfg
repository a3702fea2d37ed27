\* One partition, one Spill call per host: dpu21's DispatchFn hands
\* partition 0 to the peer, dpu20's keeps it.
CONSTANTS
    NPartition = 1
    Spills <- MCSpills2
    NFibers = 1
    NAgentBufs = 1
    NWorker = 4
    NRdma = 1
SPECIFICATION Spec
INVARIANT PartitionsAtHome
