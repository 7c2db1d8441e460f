CONSTANTS
  k1 = k1
  k2 = k2
  k3 = k3
  NoKey = NoKey
  Keys <- TwoKeys
  MaxList = 2
  IsLog = TRUE
  PromptMerge = TRUE
  MaxLsn = 2
  MaxWrites = 5
  MaxDeaths = 1
SPECIFICATION FairSpec
INVARIANTS
  TypeOK
  GetIsLatest
PROPERTIES
  MergesInOrder
  LogOutlivesTable
  AddReturns
  RotatedIsMerged
  ReopenFinishes
