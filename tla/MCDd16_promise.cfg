SPECIFICATION MCSpec
CONSTANTS
  Black = Black
  White = White
  Programs = {"copies", "locks", "frames"}
  Width = 6
  Height = 1
  SegW = 2
  Dither = 2
  HashMin = 2
  SolidMin = 2
  HashMem = TRUE
  Colours <- MCColours
  Flat <- MCFlat
  Boxes <- ApartBoxes
  Pictures <- None
  Moves <- ApartMoves
  Key = Black
  Tris <- TwoTris
  LockBoxes <- MCLockBoxes
  GdiBoxes <- None
  EngineFails = FALSE
  PagesFit = FALSE
  DirtyMax = 1
  TrisMax = 1
  BatchMax = 3
  HeldMax = 1
  MaxLocks = 1
INVARIANTS OneSelectionWaits
PROPERTY ImplementsBuffers
CONSTRAINT FramesOnly
