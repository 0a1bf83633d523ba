CONSTANTS Frame = 4 Blank = 2 PageTicks = 4 Spins = 4 Wrap = 6
SPECIFICATION FairSpec
INVARIANT ClearedUnseen
