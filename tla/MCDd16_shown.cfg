SPECIFICATION MCSpec
CONSTANTS
  Black = Black
  White = White
  Programs = {"copies", "gdi", "ends", "whites", "frames"}
  Width = 4
  Height = 1
  SegW = 2
  Dither = 2
  HashMin = 2
  SolidMin = 2
  HashMem = TRUE
  Colours <- MCColours
  Flat <- MCFlat
  Boxes <- FrameBoxes
  Pictures <- MCPictures
  Moves <- None
  Key = Black
  Tris <- OtherTris
  LockBoxes <- MCLockBoxes
  GdiBoxes <- MCGdiBoxes
  EngineFails = TRUE
  PagesFit = TRUE
  DirtyMax = 1
  TrisMax = 1
  BatchMax = 3
  HeldMax = 1
  MaxLocks = 1
INVARIANTS TypeOK FrontShown Stand FingerprintsTrue SeenIsSo
CONSTRAINT FramesOnly
