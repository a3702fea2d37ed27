\* WaitForSpillDone against the round's spills: is_spilling is only a
\* recent-completion flag, so the files may be closed before they are written.
SPECIFICATION Spec
CONSTANTS
  NParts = 2
  NBufs = 2
  QueueDepth = 2
  MaxSpills = 3
  MaxRounds = 2
CHECK_DEADLOCK FALSE
PROPERTIES
  SpillDurable
