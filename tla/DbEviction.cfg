CONSTANTS
  a = a
  ab = ab
  Garbled = Garbled
  Keys <- TwoKeys
  Longer <- Prefixes
  SizeOf <- TwoSizes
  BufferSize = 1024
  MAXHITS = 3
  MaxWrites = 4
  MaxNodes = 3
SPECIFICATION Spec
INVARIANT FullCacheServes
