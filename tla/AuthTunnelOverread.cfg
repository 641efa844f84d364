SPECIFICATION FairSpec
CONSTANTS
  Schemes <- MCSchemes
  MaxRounds = 4
  MaxHeader = 4
  Chunk = 3
  Fillers <- MCNothing
  Bodies <- MCNothing
  Extras <- MCNothing
  Pages <- MCPage
  KrbLegs = 2
  MaxPayload = 0
  FaultModes <- MCWellBehaved
PROPERTIES
  DrainLeavesUsable
CHECK_DEADLOCK FALSE
