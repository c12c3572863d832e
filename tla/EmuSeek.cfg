\* A disciplined controller of two drives with three cylinders each.
CONSTANTS
  NumDrives = 2
  NumCyl = 3
  MaxOps = 5
  LineChangesDuringSeek = FALSE
  ReversesSeek = FALSE
  StepsPastEnd = FALSE
  LongLaterPulses = FALSE
  EarlyExit = FALSE
SPECIFICATION FairSpec
INVARIANTS TypeOK ServesCurrentCylinder ServesWhileArmWaits WritesStayHome TrackZeroTruthful ArmReadsCylinder DisabledAfterHalt
PROPERTIES ShutdownCompletes SeekServed
CHECK_DEADLOCK FALSE
