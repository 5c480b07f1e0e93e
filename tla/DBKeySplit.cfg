SPECIFICATION Spec
CONSTANTS
  kNumLevels = 3
  kL0_CompactionTrigger = 2
  kMaxMemCompactLevel = 0
  kTargetFileSize = 1
  kMaxGrandParentOverlapBytes = 3
  kExpandedCompactionByteSizeLimit = 5
  kMaxBytesLevel1 = 2
  Clients = {c1}
  Keys = {1}
  Ranges <- AllKeys
  write_buffer_size = 0
  kL0_SlowdownWritesTrigger = 1
  kL0_StopWritesTrigger = 2
  SmallGroup = 2
  MaxGroup = 3
  Workloads <- MCSnapshots
INVARIANT NewerAbove
CHECK_DEADLOCK FALSE
