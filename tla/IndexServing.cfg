CONSTANTS
  k1 = k1
  k2 = k2
  k3 = k3
  NoKey = NoKey
  Keys <- TwoKeys
  MaxList = 1
  IsLog = TRUE
  PromptMerge = TRUE
  MaxLsn = 4
  MaxWrites = 5
  MaxDeaths = 0
SPECIFICATION Spec
INVARIANTS
  GetIsLatest
  
  
PROPERTIES
  MergesInOrder
