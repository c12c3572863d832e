\* One drive of two cylinders with one track each, the smallest buffer that can wrap
\* while it is neither full nor empty.
CONSTANTS
  NumDrives = 1
  NumCyl = 2
  NumHead = 1
  BufferCount = 3
  Data = {a, b}
  Torn = Torn
  NotSaved = NotSaved
  MaxOps = 6
SPECIFICATION Spec
SYMMETRY DataSymmetry
INVARIANTS TypeOK SemMatchesBuffer
PROPERTIES HeldEntryStable ImplementsTrackStore
CHECK_DEADLOCK FALSE
