SPECIFICATION Spec
CONSTANTS
  VarintBase = 4
  Fixed32Size = 1
  Fixed64Size = 2
  MaxVarint32 = 3
  MaxVarint64 = 5
  kNumLevels = 3
  kBlockSize = 8
  kHeaderSize = 3
  kMemBlockSize = 5
  Batches <- MCBatches
  Edits <- MCEdits
  MaxRecords = 3
  MaxFailures = 2
INVARIANTS NothingInvented RecoversPrefix TornTailReported
CHECK_DEADLOCK FALSE
