\* The controller steps or changes heads at any time.
CONSTANTS
  Tracks = {h0, h1}
  TrackWords = 2
  ReadSlots = 3
  WriteSlots = 6
  MaxOps = 3
  LinesSettle = FALSE
SPECIFICATION FairSpec
PROPERTY StopAcknowledged
CHECK_DEADLOCK FALSE
