CONSTANTS
  Keys <- FourKeys
  MaxCount = 1
  Memtables <- OneDelete
  Lookups = FALSE
  MaxMerges = 3
  MaxDeaths = 1
  MaxFiles = 6
SPECIFICATION Spec
INVARIANTS
  TypeOK
  TableIsSorted
  MergesAreComplete
  FilesAreSmall
