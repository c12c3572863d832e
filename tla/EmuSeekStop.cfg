\* The program is stopped during a seek, while a head line or select line changes.
CONSTANTS
  NumDrives = 1
  NumCyl = 3
  MaxOps = 5
  LineChangesDuringSeek = TRUE
  ReversesSeek = FALSE
  StepsPastEnd = FALSE
  LongLaterPulses = FALSE
  EarlyExit = FALSE
SPECIFICATION FairSpec
PROPERTIES ShutdownCompletes
CHECK_DEADLOCK FALSE
