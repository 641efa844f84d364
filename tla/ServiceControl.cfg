SPECIFICATION Spec
CONSTANTS
  MaxSaves = 4
  Attempts = 3
INVARIANTS
  TypeOK
  BannerWhenOutdated
