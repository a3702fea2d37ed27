\* Spills to and from the peer DPU next to one local spill round: partition 1
\* goes through do_transfer, one spill arrives from the peer, and two host
\* buffers for two partitions make append_or_spill wait in acquire_one.
SPECIFICATION Spec
CONSTANTS
  NParts = 2
  RemoteParts <- MCRemoteParts
  NHostBufs = 2
  NDpuBufs = 3
  QueueDepth = 2
  RemoteDepth = 1
  BufCap = 2
  MaxAppends = 3
  MaxRounds = 1
  RemoteIn = 1
  EmptyAppends = FALSE
INVARIANTS
  TypeOK
  HostBufferConservation
  DpuBufferConservation
  NoSpillLostOrDuplicated
PROPERTIES
  SpillCompletes
