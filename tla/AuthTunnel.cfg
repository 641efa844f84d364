SPECIFICATION FairSpec
CONSTANTS
  Schemes <- MCSchemes
  MaxRounds = 4
  MaxHeader = 2
  Chunk = 2
  Fillers <- MCFillers
  Bodies <- MCSmall
  Extras <- MCSmall
  Pages <- MCNothing
  KrbLegs = 4
  MaxPayload = 1
  FaultModes = {TRUE, FALSE}
INVARIANTS
  TypeOK
  ActsOnLastAnswer
  CredentialsOnlyOnChallenge
  TunnelClean
PROPERTIES
  ImplementsService
  Connects
  Terminates
CHECK_DEADLOCK FALSE
