SPECIFICATION MCSpec
CONSTANTS
  Black = Black
  White = White
  Programs = {"copies"}
  Width = 4
  Height = 1
  SegW = 4
  Dither = 2
  HashMin = 2
  SolidMin = 2
  HashMem = TRUE
  Colours <- MCColours
  Flat <- MCFlat
  Boxes <- HalfBoxes
  Pictures <- MCPictures
  Moves <- None
  Key = Black
  Tris <- None
  LockBoxes <- None
  GdiBoxes <- None
  EngineFails = FALSE
  PagesFit = FALSE
  DirtyMax = 1
  TrisMax = 1
  BatchMax = 3
  HeldMax = 1
  MaxLocks = 0
INVARIANT FrontShown
