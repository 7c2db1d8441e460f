CONSTANTS
  c1 = c1
  c2 = c2
  c3 = c3
  c4 = c4
  k = k
  l = l
  m = m
  None = None
  Clients <- FourClients
  Watched = c2
  Keys <- ThreeKeys
  Values <- TwoValues
  Stores <- OneOfEach
  Messages <- MixedMessages
  SetSize = 3
  FdLimit = 4
  MaxConnects = 4
  MaxSends = 1
SPECIFICATION FairSpec
INVARIANTS
  TypeOK
  
  HandlersHaveTheirOwn
  
  AnswersCanBeRead

  
