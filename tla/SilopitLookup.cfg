CONSTANTS
  Keys <- TwoKeys
  MaxCount = 1
  Memtables <- AnyList
  Lookups = TRUE
  MaxMerges = 3
  MaxDeaths = 1
  MaxFiles = 3
SPECIFICATION FairSpec
INVARIANT MergesAreComplete
PROPERTIES
  
  MergeEnds
