\* A write and the read after it, with a disciplined controller.
CONSTANTS
  Tracks = {h0}
  TrackWords = 3
  ReadSlots = 3
  WriteSlots = 6
  MaxOps = 4
  LinesSettle = TRUE
SPECIFICATION FairSpec
INVARIANT ReadsInOrder
CHECK_DEADLOCK FALSE
