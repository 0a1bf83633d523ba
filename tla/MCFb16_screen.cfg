SPECIFICATION Spec
CONSTANTS
  Black = Black
  White = White
  Width = 8
  Height = 1
  SegW = 4
  Dither = 2
  HashMin = 3
  SolidMin = 2
  HashMem = TRUE
  DirtyMax = 2
  MaxDepth = 3
  Colours <- MCColours
  Flat <- MCFlat
  Junk <- MCJunk
  Boxes <- MCBoxes
  Limits <- MCLimits
  Drawings <- MCDrawings
  StripLists <- MCStrips
  SpanLists <- MCSpans
  Moves <- MCMoves
INVARIANTS TypeOK OnlyPendingBehind NamedIsDirty ListBound ScreenShown FingerprintsTrue
