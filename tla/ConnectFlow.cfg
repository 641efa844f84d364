SPECIFICATION FairSpec
CONSTANTS
  Configs <- MCConfigs
  MaxAttempts = 2
  MaxData = 2
INVARIANTS
  TypeOK
  NoPrivatePeer
  RoutePriority
  OrderlyCloseDelivers
PROPERTIES
  Settles
  Released
CHECK_DEADLOCK FALSE
