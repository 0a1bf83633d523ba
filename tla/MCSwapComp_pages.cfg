SPECIFICATION Spec
CONSTANTS
  t1 = t1  t2 = t2
  zero = zero  short = short  long = long  noise = noise
  Threads = {t1}
  Contents = {zero, short}
  Zero = zero
  NoPage = NoPage
  NoThread = NoThread
  NFilePages = 2
  SC_SLOTS = 1
  PAGE_SECTORS = 2
  SC_MAX_SECTORS = 1
  SC_ZERO = TRUE
  MaxPages = 2
  LzSectors <- LzOfPage
INVARIANTS Sound ReadsReturnLastWrite FailureHasCause
CHECK_DEADLOCK FALSE
