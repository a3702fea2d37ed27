\* Two rounds of the pipeline spill path: two partitions, two serve workers
\* and two bp buffers, three partition buffers spilled, then Destroy.
\* The process may really stop: after a die() and when Destroy's join never
\* returns (see the README), so deadlock is not checked.
SPECIFICATION Spec
CONSTANTS
  NParts = 2
  NBufs = 2
  QueueDepth = 2
  MaxSpills = 3
  MaxRounds = 2
CHECK_DEADLOCK FALSE
INVARIANTS
  TypeOK
  BufferConservation
  NoSpillLostOrDuplicated
PROPERTIES
  WaitForSpillDoneReturns
