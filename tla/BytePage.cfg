CONSTANTS
  page_size = 11
  slot_size = 1
  Record <- AllOnes
SPECIFICATION Spec
INVARIANTS TypeOK CountMatchesFlags
PROPERTIES ImplementsPage
