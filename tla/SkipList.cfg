SPECIFICATION FairSpec
CONSTANTS
  Keys = {1, 2, 3}
  kMaxHeight = 2
  Readers = {r1}
INVARIANTS ListsSorted ReadersCorrect
PROPERTIES SearchesEnd
