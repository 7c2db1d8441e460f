CONSTANTS
  Keys <- ThreeKeys
  MaxCount = 1
  Memtables <- Additions
  Lookups = FALSE
  MaxMerges = 2
  MaxDeaths = 0
  MaxFiles = 5
SPECIFICATION Spec
INVARIANTS
  StoredIsFound
