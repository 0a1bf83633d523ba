SPECIFICATION Spec
CONSTANTS
  t1 = t1  t2 = t2
  zero = zero  short = short  long = long  noise = noise
  Threads = {t1}
  Contents = {zero, short, long, noise}
  Zero = zero
  NoPage = NoPage
  NoThread = NoThread
  NFilePages = 1
  SC_SLOTS = 1
  PAGE_SECTORS = 3
  SC_MAX_SECTORS = 2
  SC_ZERO = TRUE
  MaxPages = 1
  LzSectors <- LzOfPage
PROPERTY ImplementsStore
CHECK_DEADLOCK FALSE
