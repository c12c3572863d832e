------------------------------ MODULE EmuSeek ------------------------------
(***************************************************************************)
(* Seeking in the drive emulator: the control flow of PRU 0                *)
(* (emu/prucode0.p, the REVC board) from the select and step lines of the  *)
(* disk controller to the request for a cylinder, the read thread of       *)
(* emu/mfm_emu.c that answers it, and the shutdown of the two.             *)
(*                                                                         *)
(* PRU 0 is a set of polling loops: prupc names the loop it is in and each *)
(* action is one exit from a loop.  The lines are polled one after the     *)
(* other, so any exit whose condition holds may be the one taken.          *)
(*                                                                         *)
(* The state of a track is abstracted to its cylinder: ddrCyl[d] is the    *)
(* cylinder whose data the buffer of drive d holds, and dirty[d] the       *)
(* cylinders at which the controller has written since the last flush.     *)
(* PRU 1 appears as an immediate acknowledge of STATE_READ_DONE.           *)
(***************************************************************************)
EXTENDS Integers, FiniteSets

CONSTANTS NumDrives, NumCyl,  \* As in EmuThreads
          MaxOps,    \* Bound on the line changes and writes of the controller
          \* What the controller does, each BOOLEAN:
          LineChangesDuringSeek,  \* It changes select or head before seek complete
          ReversesSeek,  \* It turns back before seek complete
          StepsPastEnd,           \* It steps in beyond the last cylinder
          LongLaterPulses,  \* A pulse after the first is longer than STEP_MAX_LOW_TIME
          \* What the user does:
          EarlyExit  \* The program may be stopped before PRU 0 starts to emulate

ASSUME SizesAssumption == /\ NumDrives \in Nat \ {0}
                          /\ NumCyl \in Nat \ {0}
                          /\ MaxOps \in Nat

ASSUME ProfileAssumption ==
  {LineChangesDuringSeek, ReversesSeek, StepsPastEnd, LongLaterPulses,
   EarlyExit} \subseteq BOOLEAN

Drives == 0 .. NumDrives - 1
Cyls == 0 .. NumCyl - 1
NoDrive == -1     \* No drive selected; DRIVE_DATA 1, CUR_DRIVE_SEL 0
ExitCyl == -1     \* In CUR_CYL the request to exit; in cyl[] its initial value
Partial == -2     \* A cylinder buffer that is being filled

VARIABLES
  \* Lines of the disk controller
  selLine,     \* The drive it selects, or NoDrive
  stepLow,     \* The step line is active
  stepIn,      \* The direction line: inwards, to higher cylinders
  headIrq,     \* A head line changed and PRU 0 has not cleared the interrupt
  ops,         \* What the controller did so far
  \* Memory shared by PRU 0 and the ARM
  cmd, evt, exitFlag,   \* As in EmuThreads
  curCyl,      \* curCyl[d]: PRU0_DRIVEd_CUR_CYL
  ddrCyl,      \* ddrCyl[d]: the cylinder in the buffer of the drive
  dirty,       \* dirty[d]: the cylinders of the writes that are in the buffer only
  \* PRU 0
  prupc,       \* The loop it is in
  driveData,   \* DRIVE_DATA, the drive selected for data
  curSel,      \* CUR_DRIVE_SEL, the drive whose select line is watched
  nextCyl,     \* r3, the cylinder after the step
  waitingCmd,  \* PRU0_WAITING_CMD
  lastArm,     \* lastArm[d]: PRU0_DRIVEd_LAST_ARM_CYL
  seekComplete, trackZero,  \* Its output lines
  \* The read thread
  armpc, drv, cyl, newCyl, sawDirty, done,
  \* shutdown()
  spc

lineVars == <<selLine, stepLow, stepIn, headIrq, ops>>
pruVars == <<prupc, driveData, curSel, nextCyl, waitingCmd, lastArm, seekComplete, trackZero>>
armVars == <<armpc, drv, cyl, newCyl, sawDirty, done>>
vars == <<lineVars, cmd, evt, exitFlag, curCyl, ddrCyl, dirty, pruVars, armVars, spc>>

PruPcs == {"initial", "restart", "selected", "waitsel", "waitcmd", "reading",
           "waitstephigh", "waitstephigh2", "seeklp", "seekdone", "sendarm",
           "exitcmd", "exitcyl0", "exitcyl1", "exitint", "waitarm", "halted"}
ArmPcs == {"fetch", "fill", "cmd", "spin", "wait", "clear", "dirty", "cyl", "undirty",
           "finish", "done", "failed"}

TypeOK ==
  /\ selLine \in Drives \cup {NoDrive} /\ stepLow \in BOOLEAN /\ stepIn \in BOOLEAN
  /\ headIrq \in BOOLEAN
  /\ ops \in 0 .. MaxOps
  /\ cmd \in {"start", "ok"} /\ evt \in BOOLEAN /\ exitFlag \in BOOLEAN
  /\ curCyl \in [Drives -> Nat \cup {ExitCyl}]
  /\ ddrCyl \in [Drives -> Cyls \cup {ExitCyl, Partial}]
  /\ dirty \in [Drives -> SUBSET (Nat \cup {ExitCyl})]
  /\ prupc \in PruPcs
  /\ driveData \in Drives \cup {NoDrive} /\ curSel \in Drives \cup {NoDrive}
  /\ prupc \in PruPcs \ {"initial", "restart", "waitsel", "exitcmd", "exitcyl0",
                         "exitcyl1", "exitint", "waitarm", "halted"}
       => driveData \in Drives /\ curSel = driveData
  /\ nextCyl \in Nat
  /\ waitingCmd \in BOOLEAN
  /\ lastArm \in [Drives -> Nat]
  /\ seekComplete \in BOOLEAN /\ trackZero \in BOOLEAN
  /\ armpc \in ArmPcs /\ drv \in 0 .. NumDrives
  /\ cyl \in [Drives -> Nat \cup {ExitCyl}]
  /\ newCyl \in [Drives -> Nat \cup {ExitCyl}]
  /\ sawDirty \in BOOLEAN /\ done \in BOOLEAN
  /\ spc \in {"running", "join", "waitpru", "down"}

Init ==
  /\ selLine = NoDrive /\ stepLow = FALSE /\ stepIn = FALSE /\ headIrq = FALSE /\ ops = 0
  /\ cmd = "ok" /\ evt = FALSE /\ exitFlag = FALSE
  /\ curCyl = [d \in Drives |-> 0]
  /\ ddrCyl = [d \in Drives |-> ExitCyl]
  /\ dirty = [d \in Drives |-> {}]
  /\ prupc = "initial" /\ driveData = NoDrive /\ curSel = NoDrive
  /\ nextCyl = 0 /\ waitingCmd = FALSE
  /\ lastArm = [d \in Drives |-> 0]
  /\ seekComplete = FALSE /\ trackZero = TRUE
  /\ armpc = "fetch" /\ drv = 0
  /\ cyl = [d \in Drives |-> ExitCyl]
  /\ newCyl = [d \in Drives |-> 0]
  /\ sawDirty = FALSE /\ done = FALSE
  /\ spc = "running"

-----------------------------------------------------------------------------
(***************************************************************************)
(* PRU 0.                                                                  *)
(***************************************************************************)
Deselected == selLine # curSel    \* QBBS select, r31, CUR_DRIVE_SEL

\* wait_initial_cmd to mfm_setup: the first CMD_START
TakeFirstStart ==
  /\ prupc = "initial" /\ cmd = "start"
  /\ cmd' = "ok"
  /\ waitingCmd' = FALSE
  /\ prupc' = "restart"
  /\ UNCHANGED <<lineVars, evt, exitFlag, curCyl, ddrCyl, dirty, driveData, curSel, nextCyl,
                 lastArm, seekComplete, trackZero, armVars, spc>>

\* Faulty variant: the line is turned off and never on again
SetTrack0Off(d) == trackZero' = (trackZero /\ curCyl[d] = 0)

\* set_track0 for drive d
SetTrack0(d) == trackZero' = (curCyl[d] = 0)

\* step_restart, step_restart2, selected0: the drive that the lines select is shown
\* with seek complete, whatever it was doing before
SelectDrive ==
  /\ prupc = "restart" /\ selLine # NoDrive
  /\ driveData' = selLine /\ curSel' = selLine
  /\ SetTrack0(selLine)
  /\ seekComplete' = TRUE
  /\ headIrq' = FALSE
  /\ prupc' = "selected"
  /\ UNCHANGED <<selLine, stepLow, stepIn, ops, cmd, evt, exitFlag, curCyl, ddrCyl, dirty,
                 nextCyl, waitingCmd, lastArm, armVars, spc>>

\* notsel
NotSelected ==
  /\ prupc = "restart" /\ selLine = NoDrive
  /\ driveData' = NoDrive /\ curSel' = NoDrive
  /\ seekComplete' = FALSE /\ trackZero' = FALSE
  /\ prupc' = "waitsel"
  /\ UNCHANGED <<lineVars, cmd, evt, exitFlag, curCyl, ddrCyl, dirty, nextCyl, waitingCmd,
                 lastArm, armVars, spc>>

\* selected: PRU 1 has stopped; go on with what was interrupted
Resume ==
  /\ prupc = "selected" /\ ~exitFlag
  /\ prupc' = IF waitingCmd THEN "waitcmd" ELSE "reading"
  /\ UNCHANGED <<lineVars, cmd, evt, exitFlag, curCyl, ddrCyl, dirty, driveData, curSel,
                 nextCyl, waitingCmd, lastArm, seekComplete, trackZero, armVars, spc>>

\* Faulty variant: the cylinder is noted and the ARM not interrupted
SendArmCylSilent(d) ==
  /\ lastArm' = [lastArm EXCEPT ![d] = curCyl[d]]
  /\ evt' = evt

\* send_arm_cyl for drive d
SendArmCyl(d) ==
  /\ lastArm' = [lastArm EXCEPT ![d] = curCyl[d]]
  /\ evt' = TRUE

\* waitsel: handle_start, the answer to a request while no drive is selected
HandleStart ==
  /\ prupc = "waitsel" /\ cmd = "start"
  /\ cmd' = "ok"
  /\ waitingCmd' = FALSE
  /\ LET moved == {d \in Drives : curCyl[d] # lastArm[d]}
     IN  IF moved = {} THEN UNCHANGED <<lastArm, evt>>
         ELSE SendArmCyl(CHOOSE d \in moved : \A e \in moved : d <= e)
  /\ UNCHANGED <<lineVars, exitFlag, curCyl, ddrCyl, dirty, prupc, driveData, curSel,
                 nextCyl, seekComplete, trackZero, armVars, spc>>

Reselect ==
  /\ prupc = "waitsel" /\ selLine # NoDrive
  /\ prupc' = "restart"
  /\ UNCHANGED <<lineVars, cmd, evt, exitFlag, curCyl, ddrCyl, dirty, driveData, curSel,
                 nextCyl, waitingCmd, lastArm, seekComplete, trackZero, armVars, spc>>

\* Faulty variant: the data is shown without a look at further seeks
TakeStartUnchecked ==
  /\ prupc = "waitcmd" /\ cmd = "start"
  /\ cmd' = "ok"
  /\ waitingCmd' = FALSE
  /\ SetTrack0(driveData)
  /\ seekComplete' = TRUE
  /\ prupc' = "reading"
  /\ UNCHANGED <<lineVars, evt, exitFlag, curCyl, ddrCyl, dirty, driveData, curSel, nextCyl,
                 lastArm, armVars, spc>>

\* wait_cmd: the answer to the request.  A cylinder that was left in the meantime is
\* not shown: the next request is sent instead.
TakeStart ==
  /\ prupc = "waitcmd" /\ cmd = "start"
  /\ cmd' = "ok"
  /\ IF curCyl[driveData] = lastArm[driveData]
     THEN /\ waitingCmd' = FALSE
          /\ SetTrack0(driveData)
          /\ seekComplete' = TRUE
          /\ prupc' = "reading"
          /\ UNCHANGED <<lastArm, evt>>
     ELSE /\ SendArmCyl(driveData)
          /\ waitingCmd' = TRUE
          /\ UNCHANGED <<trackZero, seekComplete, prupc>>
  /\ UNCHANGED <<lineVars, exitFlag, curCyl, ddrCyl, dirty, driveData, curSel, nextCyl,
                 armVars, spc>>

\* Select or head change in one of the loops that look for it
SelectChange ==
  /\ prupc \in {"waitcmd", "reading", "waitstephigh2"} /\ Deselected
  /\ prupc' = "restart"
  /\ UNCHANGED <<lineVars, cmd, evt, exitFlag, curCyl, ddrCyl, dirty, driveData, curSel,
                 nextCyl, waitingCmd, lastArm, seekComplete, trackZero, armVars, spc>>

HandleHead ==
  /\ prupc \in {"waitcmd", "reading", "waitstephigh2"} /\ headIrq
  /\ headIrq' = FALSE
  /\ prupc' = "selected"
  /\ UNCHANGED <<selLine, stepLow, stepIn, ops, cmd, evt, exitFlag, curCyl, ddrCyl, dirty,
                 driveData, curSel, nextCyl, waitingCmd, lastArm, seekComplete, trackZero,
                 armVars, spc>>

\* Faulty variant: a step outwards from cylinder 0 is not ignored
StepUnlimited ==
  /\ prupc \in {"waitcmd", "reading", "seeklp"} /\ stepLow
  /\ seekComplete' = FALSE
  /\ nextCyl' = IF stepIn THEN curCyl[driveData] + 1 ELSE curCyl[driveData] - 1
  /\ prupc' = "waitstephigh"
  /\ UNCHANGED <<lineVars, cmd, evt, exitFlag, curCyl, ddrCyl, dirty, driveData, curSel,
                 waitingCmd, lastArm, trackZero, armVars, spc>>

\* step; that the last cylinder was passed is noticed when the seek is done
Step ==
  /\ prupc \in {"waitcmd", "reading", "seeklp"} /\ stepLow
  /\ seekComplete' = FALSE
  /\ LET c == curCyl[driveData]
     IN  nextCyl' = IF stepIn THEN c + 1 ELSE IF c = 0 THEN 0 ELSE c - 1
  /\ prupc' = "waitstephigh"
  /\ UNCHANGED <<lineVars, cmd, evt, exitFlag, curCyl, ddrCyl, dirty, driveData, curSel,
                 waitingCmd, lastArm, trackZero, armVars, spc>>

StepHigh ==
  /\ prupc = "waitstephigh" /\ ~stepLow
  /\ curCyl' = [curCyl EXCEPT ![driveData] = nextCyl]
  /\ prupc' = "seeklp"
  /\ UNCHANGED <<lineVars, cmd, evt, exitFlag, ddrCyl, dirty, driveData, curSel, nextCyl,
                 waitingCmd, lastArm, seekComplete, trackZero, armVars, spc>>

\* The pulse is longer than STEP_MAX_LOW_TIME: no seek
StepTooLong ==
  /\ prupc = "waitstephigh" /\ stepLow
  /\ LongLaterPulses \/ (curCyl[driveData] = lastArm[driveData] /\ ~waitingCmd)
  /\ seekComplete' = TRUE
  /\ prupc' = "waitstephigh2"
  /\ UNCHANGED <<lineVars, cmd, evt, exitFlag, curCyl, ddrCyl, dirty, driveData, curSel,
                 nextCyl, waitingCmd, lastArm, trackZero, armVars, spc>>

\* limit_cyl and set_track0
LimitCyl ==
  LET c == IF curCyl[driveData] >= NumCyl THEN 0 ELSE curCyl[driveData]
  IN  /\ curCyl' = [curCyl EXCEPT ![driveData] = c]
      /\ trackZero' = (c = 0)

LongStepHigh ==
  /\ prupc = "waitstephigh2" /\ ~stepLow
  /\ LimitCyl
  /\ prupc' = "restart"
  /\ UNCHANGED <<lineVars, cmd, evt, exitFlag, ddrCyl, dirty, driveData, curSel, nextCyl,
                 waitingCmd, lastArm, seekComplete, armVars, spc>>

\* seek_lp: no pulse for SEEK_FINISH_TIME, or the drive is deselected
LastPulse ==
  /\ prupc = "seeklp"
  /\ prupc' = "seekdone"
  /\ UNCHANGED <<lineVars, cmd, evt, exitFlag, curCyl, ddrCyl, dirty, driveData, curSel,
                 nextCyl, waitingCmd, lastArm, seekComplete, trackZero, armVars, spc>>

\* Faulty variant: a second request is sent before the first is answered
SeekDoneAsk ==
  /\ prupc = "seekdone"
  /\ LimitCyl
  /\ prupc' = "sendarm"
  /\ UNCHANGED <<lineVars, cmd, evt, exitFlag, ddrCyl, dirty, driveData, curSel, nextCyl,
                 waitingCmd, lastArm, seekComplete, armVars, spc>>

\* seek_wait_done: with a request under way the new one has to wait for its answer
SeekDone ==
  /\ prupc = "seekdone"
  /\ LimitCyl
  /\ prupc' = IF waitingCmd THEN "waitcmd" ELSE "sendarm"
  /\ UNCHANGED <<lineVars, cmd, evt, exitFlag, ddrCyl, dirty, driveData, curSel, nextCyl,
                 waitingCmd, lastArm, seekComplete, armVars, spc>>

RequestCyl ==
  /\ prupc = "sendarm"
  /\ SendArmCyl(driveData)
  /\ waitingCmd' = TRUE
  /\ prupc' = "waitcmd"
  /\ UNCHANGED <<lineVars, cmd, exitFlag, curCyl, ddrCyl, dirty, driveData, curSel, nextCyl,
                 seekComplete, trackZero, armVars, spc>>

\* The places where PRU0_EXIT is looked at
SeeExit ==
  /\ prupc \in {"initial", "selected", "waitsel", "waitstephigh2", "reading"} /\ exitFlag
  /\ seekComplete' = FALSE /\ trackZero' = FALSE
  /\ prupc' = "exitcmd"
  /\ UNCHANGED <<lineVars, cmd, evt, exitFlag, curCyl, ddrCyl, dirty, driveData, curSel,
                 nextCyl, waitingCmd, lastArm, armVars, spc>>

\* Faulty variant: PRU 0 halts without waiting for the ARM
ExitAtOnce ==
  /\ \/ /\ prupc = "exitcmd"
        /\ cmd' = "ok"
        /\ prupc' = "exitcyl0"
        /\ UNCHANGED <<curCyl, evt>>
     \/ /\ prupc = "exitcyl0"
        /\ curCyl' = [d \in Drives |-> ExitCyl]
        /\ prupc' = "exitint"
        /\ UNCHANGED <<cmd, evt>>
     \/ /\ prupc = "exitint"
        /\ evt' = TRUE
        /\ prupc' = "halted"
        /\ UNCHANGED <<cmd, curCyl>>
  /\ UNCHANGED <<lineVars, exitFlag, ddrCyl, dirty, driveData, curSel, nextCyl, waitingCmd,
                 lastArm, seekComplete, trackZero, armVars, spc>>

\* EXIT: the command word, CUR_CYL of the drives, the interrupt, and the second one
\* once the ARM has cleared CUR_CYL of drive 0
Exit ==
  /\ \/ /\ prupc = "exitcmd"
        /\ cmd' = "ok"
        /\ prupc' = "exitcyl0"
        /\ UNCHANGED <<curCyl, evt>>
     \/ /\ prupc = "exitcyl0"
        /\ curCyl' = [curCyl EXCEPT ![0] = ExitCyl]
        /\ prupc' = "exitcyl1"
        /\ UNCHANGED <<cmd, evt>>
     \/ /\ prupc = "exitcyl1"
        /\ curCyl' = [d \in Drives |-> IF d = 0 THEN curCyl[d] ELSE ExitCyl]
        /\ prupc' = "exitint"
        /\ UNCHANGED <<cmd, evt>>
     \/ /\ prupc = "exitint"
        /\ evt' = TRUE
        /\ prupc' = "waitarm"
        /\ UNCHANGED <<cmd, curCyl>>
     \/ /\ prupc = "waitarm" /\ curCyl[0] # ExitCyl
        /\ evt' = TRUE
        /\ prupc' = "halted"
        /\ UNCHANGED <<cmd, curCyl>>
  /\ UNCHANGED <<lineVars, exitFlag, ddrCyl, dirty, driveData, curSel, nextCyl, waitingCmd,
                 lastArm, seekComplete, trackZero, armVars, spc>>

Pru0 ==
  \/ TakeFirstStart \/ SelectDrive \/ NotSelected \/ Resume \/ HandleStart \/ Reselect
  \/ TakeStart \/ SelectChange \/ HandleHead \/ Step \/ StepHigh \/ StepTooLong
  \/ LongStepHigh \/ LastPulse \/ SeekDone \/ RequestCyl \/ SeeExit \/ Exit
-----------------------------------------------------------------------------
(***************************************************************************)
(* The read thread, emu_proc().                                            *)
(***************************************************************************)
FetchCyl ==
  /\ armpc = "fetch" /\ drv < NumDrives
  /\ IF newCyl[drv] # cyl[drv]
     THEN /\ cyl' = [cyl EXCEPT ![drv] = newCyl[drv]]
          /\ IF newCyl[drv] \in Cyls
             THEN armpc' = "fill" /\ ddrCyl' = [ddrCyl EXCEPT ![drv] = Partial]
             ELSE armpc' = "failed" /\ UNCHANGED ddrCyl  \* emu_file_read_cyl: exit(1)
          /\ UNCHANGED drv
     ELSE drv' = drv + 1 /\ UNCHANGED <<cyl, armpc, ddrCyl>>
  /\ UNCHANGED <<lineVars, cmd, evt, exitFlag, curCyl, dirty, pruVars, newCyl, sawDirty,
                 done, spc>>

\* send_PRU_cyl_data() has copied the whole cylinder
FillDone ==
  /\ armpc = "fill"
  /\ ddrCyl' = [ddrCyl EXCEPT ![drv] = cyl[drv]]
  /\ drv' = drv + 1
  /\ armpc' = "fetch"
  /\ UNCHANGED <<lineVars, cmd, evt, exitFlag, curCyl, dirty, pruVars, cyl, newCyl,
                 sawDirty, done, spc>>

\* pru_exec_cmd(CMD_START): write it and spin until the word changes
ExecCmd ==
  /\ armpc = "fetch" /\ drv = NumDrives
  /\ cmd' = "start"
  /\ armpc' = "spin"
  /\ UNCHANGED <<lineVars, evt, exitFlag, curCyl, ddrCyl, dirty, pruVars, drv, cyl, newCyl,
                 sawDirty, done, spc>>

CmdTaken ==
  /\ armpc = "spin" /\ cmd # "start"
  /\ armpc' = "wait"
  /\ UNCHANGED <<lineVars, cmd, evt, exitFlag, curCyl, ddrCyl, dirty, pruVars, drv, cyl,
                 newCyl, sawDirty, done, spc>>

WaitEvent ==
  /\ armpc = "wait" /\ evt
  /\ armpc' = "clear"
  /\ UNCHANGED <<lineVars, cmd, evt, exitFlag, curCyl, ddrCyl, dirty, pruVars, drv, cyl,
                 newCyl, sawDirty, done, spc>>

ClearEvent ==
  /\ armpc = "clear"
  /\ evt' = FALSE
  /\ drv' = 0
  /\ armpc' = "dirty"
  /\ UNCHANGED <<lineVars, cmd, exitFlag, curCyl, ddrCyl, dirty, pruVars, cyl, newCyl,
                 sawDirty, done, spc>>

\* Faulty variant: the dirty bits of the first drive are used for every drive
ReadDirtyFirst ==
  /\ armpc = "dirty" /\ drv < NumDrives
  /\ sawDirty' = (dirty[0] # {})
  /\ armpc' = "cyl"
  /\ UNCHANGED <<lineVars, cmd, evt, exitFlag, curCyl, ddrCyl, dirty, pruVars, drv, cyl,
                 newCyl, done, spc>>

ReadDirty ==
  /\ armpc = "dirty" /\ drv < NumDrives
  /\ sawDirty' = (dirty[drv] # {})
  /\ armpc' = "cyl"
  /\ UNCHANGED <<lineVars, cmd, evt, exitFlag, curCyl, ddrCyl, dirty, pruVars, drv, cyl,
                 newCyl, done, spc>>

ReadCurCyl ==
  /\ armpc = "cyl"
  /\ newCyl' = [newCyl EXCEPT ![drv] = curCyl[drv]]
  /\ done' = (done \/ curCyl[drv] = ExitCyl)
  /\ IF sawDirty THEN armpc' = "undirty" /\ UNCHANGED drv
                 ELSE armpc' = "dirty" /\ drv' = drv + 1
  /\ UNCHANGED <<lineVars, cmd, evt, exitFlag, curCyl, ddrCyl, dirty, pruVars, cyl,
                 sawDirty, spc>>

\* The bits are cleared and the tracks put in the track buffer as cylinder cyl[drv]
FlushDirty ==
  /\ armpc = "undirty"
  /\ dirty' = [dirty EXCEPT ![drv] = {}]
  /\ sawDirty' = FALSE
  /\ drv' = drv + 1
  /\ armpc' = "dirty"
  /\ UNCHANGED <<lineVars, cmd, evt, exitFlag, curCyl, ddrCyl, pruVars, cyl, newCyl, done,
                 spc>>

\* Faulty variant: the loop goes on after the PRU asked to exit
DrivesDoneAlways ==
  /\ armpc = "dirty" /\ drv = NumDrives
  /\ armpc' = "fetch" /\ drv' = 0
  /\ UNCHANGED <<lineVars, cmd, evt, exitFlag, curCyl, ddrCyl, dirty, pruVars, cyl, newCyl,
                 sawDirty, spc, done>>

DrivesDone ==
  /\ armpc = "dirty" /\ drv = NumDrives
  /\ IF done THEN armpc' = "finish" /\ UNCHANGED drv
             ELSE armpc' = "fetch" /\ drv' = 0
  /\ UNCHANGED <<lineVars, cmd, evt, exitFlag, curCyl, ddrCyl, dirty, pruVars, cyl, newCyl,
                 sawDirty, spc, done>>

AckExit ==
  /\ armpc = "finish"
  /\ curCyl' = [curCyl EXCEPT ![0] = 0]
  /\ armpc' = "done"
  /\ UNCHANGED <<lineVars, cmd, evt, exitFlag, ddrCyl, dirty, pruVars, drv, cyl, newCyl,
                 sawDirty, done, spc>>

ReadThread ==
  \/ FetchCyl \/ FillDone \/ ExecCmd \/ CmdTaken \/ WaitEvent \/ ClearEvent
  \/ ReadDirty \/ ReadCurCyl \/ FlushDirty \/ DrivesDone \/ AckExit
-----------------------------------------------------------------------------
(***************************************************************************)
(* The disk controller.  A disciplined one changes the select and head     *)
(* lines of a selected drive only while it shows seek complete.  A step    *)
(* pulse is long enough for PRU 0 to see it, as the lines are polled every *)
(* few hundred nanoseconds.                                                *)
(***************************************************************************)
Operate == ops < MaxOps /\ ops' = ops + 1

MayChangeLines ==
  LineChangesDuringSeek \/ selLine = NoDrive \/ (seekComplete /\ ~stepLow)

ChangeSelect ==
  /\ Operate /\ MayChangeLines
  /\ \E s \in (Drives \cup {NoDrive}) \ {selLine} : selLine' = s
  /\ stepLow' = FALSE
  /\ UNCHANGED <<stepIn, headIrq, cmd, evt, exitFlag, curCyl, ddrCyl, dirty, pruVars,
                 armVars, spc>>

ChangeHead ==
  /\ Operate /\ MayChangeLines /\ ~headIrq
  /\ headIrq' = TRUE
  /\ UNCHANGED <<selLine, stepLow, stepIn, cmd, evt, exitFlag, curCyl, ddrCyl, dirty,
                 pruVars, armVars, spc>>

StepFalls ==
  /\ prupc \in {"waitcmd", "reading", "seeklp"} /\ ~Deselected /\ ~stepLow
  /\ LineChangesDuringSeek \/ ~headIrq
  /\ Operate
  /\ stepLow' = TRUE
  /\ stepIn' \in IF ReversesSeek \/ seekComplete THEN BOOLEAN ELSE {stepIn}
  /\ stepIn' => StepsPastEnd \/ curCyl[driveData] < NumCyl - 1
  /\ UNCHANGED <<selLine, headIrq, cmd, evt, exitFlag, curCyl, ddrCyl, dirty, pruVars,
                 armVars, spc>>

StepRises ==
  /\ prupc \in {"waitstephigh", "waitstephigh2"} /\ stepLow
  /\ stepLow' = FALSE
  /\ UNCHANGED <<selLine, stepIn, headIrq, ops, cmd, evt, exitFlag, curCyl, ddrCyl, dirty,
                 pruVars, armVars, spc>>

\* The write gate from on to off; PRU 0 looks at no other line meanwhile
Write ==
  /\ prupc = "reading" /\ ~Deselected
  /\ Operate
  /\ dirty' = [dirty EXCEPT ![driveData] = @ \cup {curCyl[driveData]}]
  /\ UNCHANGED <<selLine, stepLow, stepIn, headIrq, cmd, evt, exitFlag, curCyl, ddrCyl,
                 pruVars, armVars, spc>>

Controller == ChangeSelect \/ ChangeHead \/ StepFalls \/ Write
-----------------------------------------------------------------------------
RequestExit ==
  /\ spc = "running" /\ (EarlyExit \/ prupc # "initial")
  /\ exitFlag' = TRUE
  /\ spc' = "join"
  /\ UNCHANGED <<lineVars, cmd, evt, curCyl, ddrCyl, dirty, pruVars, armVars>>

\* Faulty variant: the read thread is not joined
JoinNothing ==
  /\ spc = "join"
  /\ spc' = "waitpru"
  /\ UNCHANGED <<lineVars, cmd, evt, exitFlag, curCyl, ddrCyl, dirty, pruVars, armVars>>

\* shutdown() joins the threads (the write thread stops after the read thread)
Join ==
  /\ spc = "join" /\ armpc = "done"
  /\ spc' = "waitpru"
  /\ UNCHANGED <<lineVars, cmd, evt, exitFlag, curCyl, ddrCyl, dirty, pruVars, armVars>>

PruShutdown ==
  /\ spc = "waitpru" /\ evt
  /\ evt' = FALSE
  /\ spc' = "down"
  /\ UNCHANGED <<lineVars, cmd, exitFlag, curCyl, ddrCyl, dirty, pruVars, armVars>>

Next == \/ Pru0 \/ ReadThread \/ Controller \/ StepRises
        \/ RequestExit \/ Join \/ PruShutdown

Spec == Init /\ [][Next]_vars

\* The threads and PRU 0 run, and the controller ends the step pulses it begins;
\* nothing else obliges it to act.
Fairness == /\ WF_vars(Pru0) /\ WF_vars(ReadThread) /\ WF_vars(StepRises)
            /\ WF_vars(Join) /\ WF_vars(PruShutdown)

FairSpec == Spec /\ Fairness
-----------------------------------------------------------------------------
(***************************************************************************)
(* Properties.                                                             *)
(***************************************************************************)

\* While a drive shows data to the controller, its buffer holds the cylinder the heads
\* are on.
ServesCurrentCylinder ==
  prupc = "reading" => ddrCyl[driveData] = curCyl[driveData]

\* PRU 0 shows data only while the ARM waits for the next request: the contract under
\* which the read thread uses the buffers and dirty bits without a lock.
ServesWhileArmWaits == prupc = "reading" => armpc \in {"spin", "wait"}

\* What the controller wrote at one cylinder is never in the buffer of another: the
\* flush files it under the cylinder it was written at.
WritesStayHome == \A d \in Drives : dirty[d] \subseteq {cyl[d]}

\* A selected drive that shows seek complete shows track zero exactly on cylinder 0.
TrackZeroTruthful ==
  (seekComplete /\ prupc \in {"reading", "waitcmd", "waitstephigh2"})
    => trackZero = (curCyl[driveData] = 0)

\* The ARM is never asked for a cylinder that the image does not have.
ArmReadsCylinder == armpc # "failed"

\* A requested shutdown ends.
ShutdownCompletes == (spc = "join") ~> (spc = "down")

\* A seek ends: the drive shows data again, unless it is stopped.
SeekServed == (prupc = "sendarm") ~> (prupc \in {"reading", "exitcmd"})

\* No request for a cylinder is lost, even when interrupts coalesce or are cleared with
\* an earlier one: PRU 0 does not wait for its answer for ever.
RequestAnswered == waitingCmd ~> (~waitingCmd \/ exitFlag)

\* PRU 0 reports completion only after the read thread has left its loop.
HaltAfterAck == prupc = "halted" => armpc = "done"

\* The PRUs are only disabled once PRU 0 has halted.
DisabledAfterHalt == spc = "down" => prupc = "halted"
=============================================================================
