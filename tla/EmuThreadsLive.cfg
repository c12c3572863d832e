\* Two drives and the smallest buffer that works: a flush of one track fills it, so
\* the flush of the second drive has to wait for the write thread.
CONSTANTS
  NumDrives = 2
  NumCyl = 2
  NumHead = 1
  BufferCount = 2
  Data = {a}
  Torn = Torn
  NotSaved = NotSaved
  MaxOps = 4
SPECIFICATION FairSpec
PROPERTIES FullBufferClears ExitFlushes
CHECK_DEADLOCK FALSE
