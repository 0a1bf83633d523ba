SPECIFICATION FairSpec
CONSTANTS
  t1 = t1  t2 = t2
  zero = zero  short = short  long = long  noise = noise
  Threads = {t1, t2}
  Contents = {short, noise}
  Zero = short
  NoPage = NoPage
  NoThread = NoThread
  NFilePages = 1
  SC_SLOTS = 1
  PAGE_SECTORS = 2
  SC_MAX_SECTORS = 1
  SC_ZERO = FALSE
  MaxPages = 1
  LzSectors <- LzOfPage
INVARIANTS OneAtATime DisabledOnlyByBypass
PROPERTIES HolderLeaves SomebodyServed
CHECK_DEADLOCK FALSE
