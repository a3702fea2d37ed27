\* naive_offload_server: one RDMA transport to the peer and one RDMA
\* NaiveSpillWorker, the only producer of rntq (with naive_offload_serde_server's
\* four, their unsynchronised pushes onto the shared SPSC rntq lose a
\* partition; see the hazards).  One partition, two Spill calls on dpu20
\* (partition 0 stays on dpu20's host and also takes the RDMA leg), two
\* do_spill fibers and two bp buffers, so that both spills are in flight
\* together, and the smallest pool the constructor accepts: two local and
\* two remote do_shuffle threads per DPU.
CONSTANTS
    NPartition = 1
    Spills <- MCSpills20
    NFibers = 2
    NAgentBufs = 2
    NWorker = 4
    NRdma = 1
SPECIFICATION Spec
INVARIANTS
    TypeOK
    NoTaskLostOrDuplicated
    SpillSettledOnReturn
    OneActiveBulk
PROPERTIES
    SpillReturns
