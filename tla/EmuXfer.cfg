\* Two heads, a track whose words and end mark do not fit in the queue, and queues that
\* are small enough for a write to wrap.
CONSTANTS
  Tracks = {h0, h1}
  TrackWords = 3
  ReadSlots = 3
  WriteSlots = 3
  MaxOps = 4
  LinesSettle = TRUE
SPECIFICATION FairSpec
INVARIANTS TypeOK FreshReadsInOrder WritesLand DirtyCoversWrite OneProducer
PROPERTIES StopAcknowledged ExitStopsBoth
CHECK_DEADLOCK FALSE
