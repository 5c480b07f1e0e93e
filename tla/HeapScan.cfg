CONSTANTS
  Capacity = 2
  DirCapacity = 2
  MaxBlocks = 5
  Record = {r1}
  Blank = Blank
  NoRecord = NoRecord
SPECIFICATION ScanSpec
INVARIANTS FreeSpaceAccurate VacantPageHasSlot ScanSound ScanComplete
PROPERTIES ScanEnds
CHECK_DEADLOCK FALSE
