CONSTANTS
  Letters <- ThreeLetters
  Commands <- FourCommands
  BufSize = 24
  MaxCommands = 2
SPECIFICATION FairSpec
INVARIANTS
  TypeOK
  ProcessedAsSent
  PatientClientsKeepConnections
PROPERTY PatientClientsAreServed
