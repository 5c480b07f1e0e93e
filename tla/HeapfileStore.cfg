CONSTANTS
  Capacity = 1
  DirCapacity = 1
  MaxBlocks = 6
  Record = {r1}
  Blank = Blank
  NoRecord = NoRecord
SPECIFICATION StoreSpec
INVARIANTS ChainIntact BlocksDistinct CallEffects
PROPERTIES OpenReturns ImplementsStore
