\* The controller steps beyond the last cylinder while a seek is under way.
CONSTANTS
  NumDrives = 1
  NumCyl = 3
  MaxOps = 5
  LineChangesDuringSeek = FALSE
  ReversesSeek = FALSE
  StepsPastEnd = TRUE
  LongLaterPulses = FALSE
  EarlyExit = FALSE
SPECIFICATION Spec
INVARIANTS ArmReadsCylinder
CHECK_DEADLOCK FALSE
