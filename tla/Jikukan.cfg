CONSTANTS
  none = none
  added = added
  deleted = deleted
  Keys <- FourKeys
  Entries <- Nodes
  None = none
  Size = 3
  MAXLEVEL = 2
SPECIFICATION FairSpec
INVARIANTS
  TypeOK
  ChainsAreSorted
  SearchStaysInNode
PROPERTIES
  ImplementsMap
  CallsReturn
