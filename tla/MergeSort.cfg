SPECIFICATION Spec
CONSTANTS
  json_value <- MCSchema
  sorting_attributes <- MCSortingAttributes
  Records = {1, 2, 3}
  Compare <- MCCompare
  Uninitialized = 0
  record_size = 5
  Arguments <- MCArguments
  IntBits = 16
INVARIANTS Conserved PointersCurrent PassesSort OutputSorted
PROPERTY Terminates
CHECK_DEADLOCK FALSE
