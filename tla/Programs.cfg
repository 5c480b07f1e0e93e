CONSTANTS
  ATTRIBUTE_SIZE = 2
  NUM_ATTR = 2
  Capacity = 2
  DirCapacity = 2
  MaxBlocks = 5
  Record <- MCRecord
  Blank <- MCBlank
  NoRecord = NoRecord
  Files <- MCFiles
  Values <- MCValues
  Leftovers <- MCLeftovers
  Undefined = Undefined
  PRINT_SIZE = 1
  MaxPrograms = 4
SPECIFICATION ProgramSpec
INVARIANTS TableKept PrintsRows
CHECK_DEADLOCK FALSE
