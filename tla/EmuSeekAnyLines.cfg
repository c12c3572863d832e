\* A controller that changes its lines whenever it likes, but keeps to the cylinders
\* the drives have; the program may be stopped at any time.
CONSTANTS
  NumDrives = 2
  NumCyl = 3
  MaxOps = 5
  LineChangesDuringSeek = TRUE
  ReversesSeek = TRUE
  StepsPastEnd = FALSE
  LongLaterPulses = TRUE
  EarlyExit = TRUE
SPECIFICATION FairSpec
INVARIANTS HaltAfterAck
PROPERTIES RequestAnswered
CHECK_DEADLOCK FALSE
