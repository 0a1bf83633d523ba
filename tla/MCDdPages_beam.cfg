CONSTANTS Frame = 6 Blank = 2 PageTicks = 7 Spins = 6 Wrap = 9
SPECIFICATION FairSpec
INVARIANTS TypeOK DrawnUnseen LostFlagNoticed
PROPERTIES FrameShown
