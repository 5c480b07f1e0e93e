SPECIFICATION Spec
CONSTANTS
  MaxByte = 3
  block_restart_interval = 2
  block_size = 7
  kFilterBase = 3
  bits = 8
  Hash <- MCHash
  Keys <- MCKeys
  Contents <- MCContents
INVARIANTS LookupsAgree
PROPERTIES ImplementsCursor
