SPECIFICATION FairSpec
CONSTANTS
  Configs <- MCConfigs
  MaxBody = 2
INVARIANTS
  TypeOK
  PasswordOnlyToProxy
  ResponseIsFaithful
PROPERTY
  Answered
CHECK_DEADLOCK FALSE
