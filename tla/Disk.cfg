CONSTANTS
  Base = 12
  Word = 1
  Keys <- ThreeKeys
  Values <- TwoValues
  BitsOf <- TwoHashes
  None = None
  Unset = Unset
  MaxWrites = 3
  MaxStops = 2
SPECIFICATION FairSpec
INVARIANTS
  TypeOK
  GetsAreDurable

  
  
