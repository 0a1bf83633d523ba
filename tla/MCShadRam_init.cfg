CONSTANTS
  vm1 = vm1
  Vms = {vm1}
  SR_PAGES = 3
  BASIC_FIRST = 1
  BASIC_LAST = 1
  KEEP_ALWAYS = {2}
  COPY_MAX_DIFF = 3
  MaxDiff = 1
  Caching = {TRUE}
SPECIFICATION Spec
INVARIANTS TypeOK BiosAsBefore DonatedIsOwnRam ParityRefusesAll NmiNeverStrikes
CHECK_DEADLOCK FALSE
