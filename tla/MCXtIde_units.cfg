CONSTANTS
  s1 = s1
  s2 = s2
  v1 = v1
  v2 = v2
  NoSrb = NoSrb
  NoData = NoData
  Srbs = {s1, s2}
  Versions = {v1}
  Present = {0, 1}
  Capacity <- TwoCapacity
  UnitTotal <- TwoUnitTotal
  Reach <- TwoReach
  Word = 4
  MaxSectors = 2
  XT_MAX_CHUNK = 1
  XT_COMMIT_WAKES = 2
SPECIFICATION FairSpec
INVARIANTS CommandOnMedium NothingMisplaced
PROPERTIES Answered
