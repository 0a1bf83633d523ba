CONSTANTS
  s1 = s1
  s2 = s2
  v1 = v1
  v2 = v2
  NoSrb = NoSrb
  NoData = NoData
  Srbs = {s1}
  Versions = {v1, v2}
  Present = {0}
  Capacity <- OneCapacity
  UnitTotal <- OneUnitTotal
  Reach <- OneReach
  Word = 4
  MaxSectors = 3
  XT_MAX_CHUNK = 2
  XT_COMMIT_WAKES = 2
SYMMETRY Symmetry
SPECIFICATION Spec
INVARIANTS TypeOK CompletedOnce DataPhaseAlone
PROPERTIES WriteSuccessIsDurable ReadSuccessIsMedia
