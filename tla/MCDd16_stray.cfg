SPECIFICATION MCSpec
CONSTANTS
  Black = Black
  White = White
  Programs = {"strays"}
  Width = 4
  Height = 1
  SegW = 2
  Dither = 2
  HashMin = 2
  SolidMin = 2
  HashMem = TRUE
  Colours <- MCColours
  Flat <- MCFlat
  Boxes <- FrameBoxes
  Pictures <- None
  Moves <- None
  Key = Black
  Tris <- OneTri
  LockBoxes <- MCLockBoxes
  GdiBoxes <- WholeBoxes
  EngineFails = FALSE
  PagesFit = TRUE
  DirtyMax = 1
  TrisMax = 1
  BatchMax = 3
  HeldMax = 1
  MaxLocks = 1
INVARIANT FrontShown
