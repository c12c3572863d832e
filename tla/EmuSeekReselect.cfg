\* The controller deselects a drive and selects it again during a seek.
CONSTANTS
  NumDrives = 1
  NumCyl = 3
  MaxOps = 5
  LineChangesDuringSeek = TRUE
  ReversesSeek = FALSE
  StepsPastEnd = FALSE
  LongLaterPulses = FALSE
  EarlyExit = FALSE
SPECIFICATION Spec
INVARIANTS ServesCurrentCylinder
CHECK_DEADLOCK FALSE
