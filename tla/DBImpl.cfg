SPECIFICATION RepairSpec
CONSTANTS
  kNumLevels = 3
  kL0_CompactionTrigger = 1
  kMaxMemCompactLevel = 2
  kTargetFileSize = 5
  kMaxGrandParentOverlapBytes = 3
  kExpandedCompactionByteSizeLimit = 5
  kMaxBytesLevel1 = 2
  Clients = {c1}
  Keys = {1, 2}
  Ranges <- AllKeys
  write_buffer_size = 0
  kL0_SlowdownWritesTrigger = 1
  kL0_StopWritesTrigger = 2
  SmallGroup = 2
  MaxGroup = 3
  Workloads <- MCWorkloads
INVARIANTS NeededFilesExist LevelsDisjoint NewerAbove ReadsCorrect SyncedWritesSurvive SequencesCovered OpensAgain
CHECK_DEADLOCK FALSE
