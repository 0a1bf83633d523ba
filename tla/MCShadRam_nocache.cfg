CONSTANTS
  vm1 = vm1
  Vms = {vm1}
  SR_PAGES = 2
  BASIC_FIRST = 0
  BASIC_LAST = 0
  KEEP_ALWAYS = {1}
  COPY_MAX_DIFF = 2
  MaxDiff = 1
  Caching = {TRUE, FALSE}
SPECIFICATION Spec
INVARIANT PutBack
CHECK_DEADLOCK FALSE
