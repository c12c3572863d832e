---------------------------- MODULE EmuSeekProofs ----------------------------
(***************************************************************************)
(* Seeking for any number of drives, cylinders and operations.  PRU 0 and  *)
(* the read thread take turns: between a request for a cylinder and its    *)
(* answer the ARM is at work, and otherwise it waits.  The turns hold as   *)
(* long as the controller leaves select and head lines alone during a seek *)
(* and its later pulses are short; the contents of the buffers also need a *)
(* seek that goes in one direction and ends on the disk.                   *)
(***************************************************************************)
EXTENDS EmuSeek, TLAPS

Exiting == {"exitcmd", "exitcyl0", "exitcyl1", "exitint", "waitarm", "halted"}
SeekPcs == {"waitcmd", "waitstephigh", "seeklp", "seekdone", "sendarm"}
Live == SeekPcs \cup {"restart", "selected", "waitsel", "reading", "waitstephigh2"}
Busy == {"dirty", "cyl", "undirty", "fetch", "fill", "failed"}

-----------------------------------------------------------------------------
\* Types, and the stop: these hold for any controller and user.

\* The drives the read thread is at, and the cylinder it copies.
ArmInv ==
  /\ armpc \in {"fill", "cyl", "undirty"} => drv \in Drives
  /\ armpc = "fill" => cyl[drv] \in Cyls

\* -1 is only in CUR_CYL when PRU 0 has left its loops.
HeadsOnDisk == prupc \notin Exiting => \A d \in Drives : curCyl[d] \in Nat

\* The parts of TypeOK.
LineTypes ==
  /\ selLine \in Drives \cup {NoDrive} /\ stepLow \in BOOLEAN /\ stepIn \in BOOLEAN
  /\ headIrq \in BOOLEAN
  /\ ops \in 0 .. MaxOps

SharedTypes ==
  /\ cmd \in {"start", "ok"} /\ evt \in BOOLEAN /\ exitFlag \in BOOLEAN
  /\ curCyl \in [Drives -> Nat \cup {ExitCyl}]
  /\ spc \in {"running", "join", "waitpru", "down"}

PruTypes ==
  /\ prupc \in PruPcs
  /\ driveData \in Drives \cup {NoDrive} /\ curSel \in Drives \cup {NoDrive}
  /\ prupc \notin {"initial", "restart", "waitsel"} \cup Exiting
       => driveData \in Drives /\ curSel = driveData
  /\ nextCyl \in Nat
  /\ waitingCmd \in BOOLEAN
  /\ lastArm \in [Drives -> Nat]
  /\ seekComplete \in BOOLEAN /\ trackZero \in BOOLEAN

BufferTypes ==
  /\ ddrCyl \in [Drives -> Cyls \cup {ExitCyl, Partial}]
  /\ dirty \in [Drives -> SUBSET (Nat \cup {ExitCyl})]

ArmTypes ==
  /\ armpc \in ArmPcs /\ drv \in 0 .. NumDrives
  /\ cyl \in [Drives -> Nat \cup {ExitCyl}]
  /\ newCyl \in [Drives -> Nat \cup {ExitCyl}]
  /\ sawDirty \in BOOLEAN /\ done \in BOOLEAN

TypeInv == /\ LineTypes /\ SharedTypes /\ PruTypes /\ BufferTypes /\ ArmTypes
           /\ ArmInv /\ HeadsOnDisk

\* PRU 0 waits for the ARM to clear CUR_CYL of drive 0, which only AckExit does.
HaltInv ==
  /\ prupc \in {"exitcyl1", "exitint", "waitarm"} => curCyl[0] = ExitCyl \/ armpc = "done"
  /\ prupc = "halted" => armpc = "done"

-----------------------------------------------------------------------------
\* Whose turn it is.

\* The request of waitingCmd is sent, seen, or its answer is being prepared.
Turns ==
  /\ prupc = "initial" =>
       /\ ~waitingCmd /\ ~evt
       /\ armpc \in {"fetch", "fill", "failed"} \/ (armpc = "spin" /\ cmd = "start")
  /\ prupc \in Live /\ ~waitingCmd => armpc \in {"spin", "wait"} /\ ~evt /\ cmd = "ok"
  /\ prupc \in Live /\ waitingCmd => \/ evt /\ cmd = "ok" /\ armpc \in {"spin", "wait", "clear"}
                                     \/ ~evt /\ armpc \in Busy
                                     \/ ~evt /\ cmd = "start" /\ armpc = "spin"
  /\ cmd = "start" => armpc = "spin" \/ prupc \in Exiting
  /\ armpc \in {"finish", "done"} => done
  /\ done => prupc \in Exiting
  /\ spc \in {"waitpru", "down"} => armpc = "done"

\* Only a seek has a request under way, and during a seek the lines stay.
Disciplined ==
  /\ prupc = "waitcmd" => waitingCmd
  /\ prupc \in Live \ {"waitcmd", "waitstephigh", "seeklp", "seekdone"} => ~waitingCmd
  /\ prupc \in SeekPcs => ~seekComplete /\ selLine = curSel /\ ~headIrq
  /\ prupc \in Live /\ stepLow => /\ prupc \notin {"restart", "selected", "waitsel"}
                                  /\ selLine = curSel /\ ~headIrq
  /\ prupc = "initial" => ~stepLow

TurnInv == Turns /\ Disciplined

-----------------------------------------------------------------------------
\* Where the heads are, and what the buffers hold.

\* From cylinder a to b in the direction of the seek.
Onward(a, b) == IF stepIn THEN a <= b ELSE b <= a

Settled(d) == newCyl[d] = lastArm[d] /\ curCyl[d] = lastArm[d]

\* The read thread has read the cylinder of the request under way.
HasRead(d) ==
  /\ ~evt
  /\ \/ armpc \in {"fetch", "fill", "spin"}
     \/ armpc \in {"dirty", "cyl"} /\ drv > d
     \/ armpc = "undirty" /\ drv >= d

DiskInv ==
  \A d \in Drives : lastArm[d] \in Cyls /\ curCyl[d] \in Cyls \cup {ExitCyl}

\* A drive that does not seek is where the ARM was last asked to be.
RestInv ==
  prupc \notin Exiting =>
    \A d \in Drives : (prupc \in SeekPcs /\ d = driveData) \/ Settled(d)

\* What the ARM loads for the drive that seeks lies between what it was asked for
\* and where the heads are now, so it is right if these two are the same.
SeekInv ==
  prupc \in SeekPcs =>
    /\ ~waitingCmd => newCyl[driveData] = lastArm[driveData]
    /\ waitingCmd => Onward(lastArm[driveData], curCyl[driveData])
    /\ waitingCmd /\ HasRead(driveData) =>
         /\ Onward(lastArm[driveData], newCyl[driveData])
         /\ Onward(newCyl[driveData], curCyl[driveData])
    /\ prupc = "waitstephigh" => nextCyl \in Cyls /\ Onward(curCyl[driveData], nextCyl)

\* A step inwards begins before the last cylinder.
RoomInv ==
  stepLow /\ stepIn /\ prupc \in {"waitcmd", "reading", "seeklp", "seekdone", "sendarm"}
    => curCyl[driveData] < NumCyl - 1

CylsInv ==
  /\ \A d \in Drives : newCyl[d] \in Cyls \/ (newCyl[d] = ExitCyl /\ done)
  /\ done => armpc \in {"dirty", "cyl", "undirty", "finish", "done"}
  /\ armpc # "failed"

Loaded(d) == ddrCyl[d] = cyl[d] /\ cyl[d] = newCyl[d]

BufferInv ==
  /\ \A d \in Drives : ddrCyl[d] = cyl[d] \/ (armpc \in {"fill", "failed"} /\ d = drv)
  /\ armpc \in {"spin", "wait", "clear"} => \A d \in Drives : Loaded(d)
  /\ armpc \in {"fetch", "fill"} => \A d \in Drives : d < drv => Loaded(d)
  /\ armpc = "fill" => cyl[drv] = newCyl[drv]

DirtyInv ==
  /\ \A d \in Drives : dirty[d] \subseteq {cyl[d]}
  /\ armpc \in {"fetch", "fill"} => \A d \in Drives : dirty[d] = {}
  /\ armpc \in {"dirty", "cyl", "undirty"} => \A d \in Drives : d < drv => dirty[d] = {}
  /\ armpc = "cyl" /\ ~sawDirty => dirty[drv] = {}

DataInv == /\ DiskInv /\ RestInv /\ SeekInv /\ RoomInv
           /\ CylsInv /\ BufferInv /\ DirtyInv
-----------------------------------------------------------------------------
\* PRU 0 keeps the types: it leaves its loops before it stores -1.
LEMMA TypePru ==
  ASSUME TypeInv,
         TakeFirstStart \/ SelectDrive \/ NotSelected \/ Resume \/ HandleStart
         \/ Reselect \/ TakeStart \/ SelectChange \/ HandleHead \/ Step \/ StepHigh
         \/ StepTooLong \/ LongStepHigh \/ LastPulse \/ SeekDone \/ RequestCyl
         \/ SeeExit \/ Exit
  PROVE  TypeInv'
<1> USE SizesAssumption DEF TypeInv, Exiting, Drives, NoDrive, ExitCyl
<1>1. UNCHANGED <<ddrCyl, dirty, armVars>>
  BY DEF TakeFirstStart, SelectDrive, NotSelected, Resume, HandleStart, Reselect,
         TakeStart, SelectChange, HandleHead, Step, StepHigh, StepTooLong, LongStepHigh,
         LastPulse, SeekDone, RequestCyl, SeeExit, Exit, SetTrack0, SendArmCyl, Deselected,
         LimitCyl, lineVars, armVars
<1>2. BufferTypes' /\ ArmTypes' /\ ArmInv'
  BY <1>1 DEF BufferTypes, ArmTypes, ArmInv, armVars
<1>3. CASE TakeFirstStart
  <2> USE <1>3 DEF TakeFirstStart, lineVars, armVars
  <2>1. LineTypes'
    BY DEF LineTypes
  <2>2. (SharedTypes /\ HeadsOnDisk)'
    BY DEF SharedTypes, HeadsOnDisk, PruTypes, ArmTypes
  <2>3. PruTypes'
    BY DEF PruTypes, SharedTypes, LineTypes, HeadsOnDisk, PruPcs
  <2> QED BY <1>2, <2>1, <2>2, <2>3
<1>4. CASE SelectDrive
  <2> USE <1>4 DEF SelectDrive, SetTrack0, lineVars, armVars
  <2>1. LineTypes'
    BY DEF LineTypes
  <2>2. (SharedTypes /\ HeadsOnDisk)'
    BY DEF SharedTypes, HeadsOnDisk, PruTypes, ArmTypes
  <2>3. PruTypes'
    BY DEF PruTypes, SharedTypes, LineTypes, HeadsOnDisk, PruPcs
  <2> QED BY <1>2, <2>1, <2>2, <2>3
<1>5. CASE NotSelected
  <2> USE <1>5 DEF NotSelected, lineVars, armVars
  <2>1. LineTypes'
    BY DEF LineTypes
  <2>2. (SharedTypes /\ HeadsOnDisk)'
    BY DEF SharedTypes, HeadsOnDisk, PruTypes, ArmTypes
  <2>3. PruTypes'
    BY DEF PruTypes, SharedTypes, LineTypes, HeadsOnDisk, PruPcs
  <2> QED BY <1>2, <2>1, <2>2, <2>3
<1>6. CASE Resume
  BY <1>2, <1>6 DEF Resume, lineVars, armVars, LineTypes, SharedTypes, HeadsOnDisk,
                    PruTypes, ArmTypes, PruPcs
<1>7. CASE HandleStart
  <2> USE <1>7 DEF HandleStart, SendArmCyl, lineVars, armVars
  <2>1. LineTypes'
    BY DEF LineTypes
  <2>2. (SharedTypes /\ HeadsOnDisk)'
    BY DEF SharedTypes, HeadsOnDisk, PruTypes, ArmTypes
  <2>3. PruTypes'
    BY DEF PruTypes, SharedTypes, LineTypes, HeadsOnDisk, PruPcs
  <2> QED BY <1>2, <2>1, <2>2, <2>3
<1>8. CASE Reselect
  BY <1>2, <1>8 DEF Reselect, lineVars, armVars, LineTypes, SharedTypes, HeadsOnDisk,
                    PruTypes, ArmTypes, PruPcs
<1>9. CASE TakeStart
  <2> USE <1>9 DEF TakeStart, SetTrack0, SendArmCyl, lineVars, armVars
  <2>1. LineTypes'
    BY DEF LineTypes
  <2>2. (SharedTypes /\ HeadsOnDisk)'
    BY DEF SharedTypes, HeadsOnDisk, PruTypes, ArmTypes
  <2>3. PruTypes'
    BY DEF PruTypes, SharedTypes, LineTypes, HeadsOnDisk, PruPcs
  <2> QED BY <1>2, <2>1, <2>2, <2>3
<1>10. CASE SelectChange
  BY <1>2, <1>10 DEF SelectChange, Deselected, lineVars, armVars, LineTypes, SharedTypes,
                     HeadsOnDisk, PruTypes, ArmTypes, PruPcs
<1>11. CASE HandleHead
  <2> USE <1>11 DEF HandleHead, lineVars, armVars
  <2>1. LineTypes'
    BY DEF LineTypes
  <2>2. (SharedTypes /\ HeadsOnDisk)'
    BY DEF SharedTypes, HeadsOnDisk, PruTypes, ArmTypes
  <2>3. PruTypes'
    BY DEF PruTypes, SharedTypes, LineTypes, HeadsOnDisk, PruPcs
  <2> QED BY <1>2, <2>1, <2>2, <2>3
<1>12. CASE Step
  <2> USE <1>12 DEF Step, lineVars, armVars
  <2>1. LineTypes'
    BY DEF LineTypes
  <2>2. (SharedTypes /\ HeadsOnDisk)'
    BY DEF SharedTypes, HeadsOnDisk, PruTypes, ArmTypes
  <2>3. PruTypes'
    <3>1. curCyl[driveData] \in Nat
      BY DEF PruTypes, HeadsOnDisk
    <3>2. nextCyl' \in Nat
      BY <3>1
    <3> QED BY <3>2 DEF PruTypes, PruPcs
  <2> QED BY <1>2, <2>1, <2>2, <2>3
<1>13. CASE StepHigh
  <2> USE <1>13 DEF StepHigh, lineVars, armVars
  <2>1. LineTypes'
    BY DEF LineTypes
  <2>2. (SharedTypes /\ HeadsOnDisk)'
    BY DEF SharedTypes, HeadsOnDisk, PruTypes, ArmTypes
  <2>3. PruTypes'
    BY DEF PruTypes, SharedTypes, LineTypes, HeadsOnDisk, PruPcs
  <2> QED BY <1>2, <2>1, <2>2, <2>3
<1>14. CASE StepTooLong
  BY <1>2, <1>14 DEF StepTooLong, lineVars, armVars, LineTypes, SharedTypes, HeadsOnDisk,
                     PruTypes, ArmTypes, PruPcs
<1>15. CASE LongStepHigh
  <2> USE <1>15 DEF LongStepHigh, LimitCyl, lineVars, armVars
  <2>1. LineTypes'
    BY DEF LineTypes
  <2>2. (SharedTypes /\ HeadsOnDisk)'
    BY DEF SharedTypes, HeadsOnDisk, PruTypes, ArmTypes
  <2>3. PruTypes'
    BY DEF PruTypes, SharedTypes, LineTypes, HeadsOnDisk, PruPcs
  <2> QED BY <1>2, <2>1, <2>2, <2>3
<1>16. CASE LastPulse
  BY <1>2, <1>16 DEF LastPulse, lineVars, armVars, LineTypes, SharedTypes, HeadsOnDisk,
                     PruTypes, ArmTypes, PruPcs
<1>17. CASE SeekDone
  <2> USE <1>17 DEF SeekDone, LimitCyl, lineVars, armVars
  <2>1. LineTypes'
    BY DEF LineTypes
  <2>2. (SharedTypes /\ HeadsOnDisk)'
    BY DEF SharedTypes, HeadsOnDisk, PruTypes, ArmTypes
  <2>3. PruTypes'
    BY DEF PruTypes, SharedTypes, LineTypes, HeadsOnDisk, PruPcs
  <2> QED BY <1>2, <2>1, <2>2, <2>3
<1>18. CASE RequestCyl
  BY <1>2, <1>18 DEF RequestCyl, SendArmCyl, lineVars, armVars, LineTypes, SharedTypes,
                     HeadsOnDisk, PruTypes, ArmTypes, PruPcs
<1>19. CASE SeeExit
  <2> USE <1>19 DEF SeeExit, lineVars, armVars
  <2>1. LineTypes'
    BY DEF LineTypes
  <2>2. (SharedTypes /\ HeadsOnDisk)'
    BY DEF SharedTypes, HeadsOnDisk, PruTypes, ArmTypes
  <2>3. PruTypes'
    BY DEF PruTypes, SharedTypes, LineTypes, HeadsOnDisk, PruPcs
  <2> QED BY <1>2, <2>1, <2>2, <2>3
<1>20. CASE Exit
  <2> USE <1>20 DEF Exit, lineVars, armVars
  <2>1. LineTypes'
    BY DEF LineTypes
  <2>2. (SharedTypes /\ HeadsOnDisk)'
    BY DEF SharedTypes, HeadsOnDisk, PruTypes, ArmTypes
  <2>3. PruTypes'
    BY DEF PruTypes, SharedTypes, LineTypes, HeadsOnDisk, PruPcs
  <2> QED BY <1>2, <2>1, <2>2, <2>3
<1> QED BY <1>3, <1>4, <1>5, <1>6, <1>7, <1>8, <1>9, <1>10, <1>11, <1>12, <1>13, <1>14,
         <1>15, <1>16, <1>17, <1>18, <1>19, <1>20

\* The read thread keeps them.
LEMMA TypeArm ==
  ASSUME TypeInv,
         FetchCyl \/ FillDone \/ ExecCmd \/ CmdTaken \/ WaitEvent \/ ClearEvent
         \/ ReadDirty \/ ReadCurCyl \/ FlushDirty \/ DrivesDone \/ AckExit
  PROVE  TypeInv'
<1> USE SizesAssumption DEF TypeInv, Exiting, Drives, NoDrive, ExitCyl
<1>1. UNCHANGED <<lineVars, pruVars>>
  BY DEF FetchCyl, FillDone, ExecCmd, CmdTaken, WaitEvent, ClearEvent, ReadDirty,
         ReadCurCyl, FlushDirty, DrivesDone, AckExit, lineVars, pruVars
<1>2. LineTypes' /\ PruTypes'
  BY <1>1 DEF LineTypes, PruTypes, lineVars, pruVars
<1>3. CASE FetchCyl
  <2> USE <1>3 DEF FetchCyl, lineVars, pruVars
  <2>1. (SharedTypes /\ HeadsOnDisk)'
    BY DEF SharedTypes, HeadsOnDisk, PruTypes, ArmTypes
  <2>2. BufferTypes'
    BY DEF BufferTypes, SharedTypes, PruTypes, ArmTypes, ArmInv, Cyls, Partial
  <2>3. (ArmTypes /\ ArmInv)'
    <3>1. CASE newCyl[drv] # cyl[drv]
      BY <3>1 DEF ArmTypes, ArmInv, ArmPcs, Cyls
    <3>2. CASE newCyl[drv] = cyl[drv]
      BY <3>2 DEF ArmTypes, ArmInv, ArmPcs
    <3> QED BY <3>1, <3>2
  <2> QED BY <1>2, <2>1, <2>2, <2>3
<1>4. CASE FillDone
  BY <1>2, <1>4 DEF FillDone, lineVars, pruVars, SharedTypes, HeadsOnDisk, PruTypes,
                    ArmTypes, BufferTypes, ArmInv, Cyls, Partial, ArmPcs
<1>5. CASE ExecCmd
  BY <1>2, <1>5 DEF ExecCmd, lineVars, pruVars, SharedTypes, HeadsOnDisk, PruTypes,
                    ArmTypes, BufferTypes, ArmInv, Cyls, Partial, ArmPcs
<1>6. CASE CmdTaken
  BY <1>2, <1>6 DEF CmdTaken, lineVars, pruVars, SharedTypes, HeadsOnDisk, PruTypes,
                    ArmTypes, BufferTypes, ArmInv, Cyls, Partial, ArmPcs
<1>7. CASE WaitEvent
  BY <1>2, <1>7 DEF WaitEvent, lineVars, pruVars, SharedTypes, HeadsOnDisk, PruTypes,
                    ArmTypes, BufferTypes, ArmInv, Cyls, Partial, ArmPcs
<1>8. CASE ClearEvent
  <2> USE <1>8 DEF ClearEvent, lineVars, pruVars
  <2>1. (SharedTypes /\ HeadsOnDisk)'
    BY DEF SharedTypes, HeadsOnDisk, PruTypes, ArmTypes
  <2>2. BufferTypes'
    BY DEF BufferTypes, SharedTypes, PruTypes, ArmTypes, ArmInv, Cyls, Partial
  <2>3. (ArmTypes /\ ArmInv)'
    BY DEF ArmTypes, ArmInv, SharedTypes, ArmPcs, Cyls
  <2> QED BY <1>2, <2>1, <2>2, <2>3
<1>9. CASE ReadDirty
  BY <1>2, <1>9 DEF ReadDirty, lineVars, pruVars, SharedTypes, HeadsOnDisk, PruTypes,
                    ArmTypes, BufferTypes, ArmInv, Cyls, Partial, ArmPcs
<1>10. CASE ReadCurCyl
  <2> USE <1>10 DEF ReadCurCyl, lineVars, pruVars
  <2>1. (SharedTypes /\ HeadsOnDisk)'
    BY DEF SharedTypes, HeadsOnDisk, PruTypes, ArmTypes
  <2>2. BufferTypes'
    BY DEF BufferTypes, SharedTypes, PruTypes, ArmTypes, ArmInv, Cyls, Partial
  <2>3. (ArmTypes /\ ArmInv)'
    BY DEF ArmTypes, ArmInv, SharedTypes, ArmPcs, Cyls
  <2> QED BY <1>2, <2>1, <2>2, <2>3
<1>11. CASE FlushDirty
  <2> USE <1>11 DEF FlushDirty, lineVars, pruVars
  <2>1. (SharedTypes /\ HeadsOnDisk)'
    BY DEF SharedTypes, HeadsOnDisk, PruTypes, ArmTypes
  <2>2. BufferTypes'
    BY DEF BufferTypes, SharedTypes, PruTypes, ArmTypes, ArmInv, Cyls, Partial
  <2>3. (ArmTypes /\ ArmInv)'
    <3>1. drv + 1 \in 0 .. NumDrives
      BY DEF ArmTypes, ArmInv
    <3> QED BY <3>1 DEF ArmTypes, ArmInv, ArmPcs
  <2> QED BY <1>2, <2>1, <2>2, <2>3
<1>12. CASE DrivesDone
  BY <1>2, <1>12 DEF DrivesDone, lineVars, pruVars, SharedTypes, HeadsOnDisk, PruTypes,
                     ArmTypes, BufferTypes, ArmInv, Cyls, Partial, ArmPcs
<1>13. CASE AckExit
  BY <1>2, <1>13 DEF AckExit, lineVars, pruVars, SharedTypes, HeadsOnDisk, PruTypes,
                     ArmTypes, BufferTypes, ArmInv, Cyls, Partial, ArmPcs
<1> QED BY <1>3, <1>4, <1>5, <1>6, <1>7, <1>8, <1>9, <1>10, <1>11, <1>12, <1>13

\* The controller and the user keep them.
LEMMA TypeOther ==
  ASSUME TypeInv,
         ChangeSelect \/ ChangeHead \/ StepFalls \/ Write \/ StepRises \/ RequestExit
         \/ Join \/ PruShutdown
  PROVE  TypeInv'
<1> USE SizesAssumption DEF TypeInv, Exiting, Drives, NoDrive, ExitCyl
<1>1. UNCHANGED <<pruVars, armVars>>
  BY DEF ChangeSelect, ChangeHead, StepFalls, Write, StepRises, RequestExit, Join,
         PruShutdown, Operate, MayChangeLines, Deselected, lineVars, pruVars, armVars
<1>2. PruTypes' /\ ArmTypes' /\ ArmInv'
  BY <1>1 DEF PruTypes, ArmTypes, ArmInv, pruVars, armVars
<1>3. CASE ChangeSelect
  <2> USE <1>3 DEF ChangeSelect, Operate, MayChangeLines, lineVars, pruVars, armVars
  <2>1. LineTypes'
    <3>1. selLine' \in Drives \cup {NoDrive}
      <4> HIDE DEF Drives, NoDrive
      <4> QED OBVIOUS
    <3>2. ops' \in 0 .. MaxOps
      BY DEF LineTypes
    <3>3. UNCHANGED <<stepIn, headIrq>> /\ stepLow' = FALSE
      OBVIOUS
    <3> HIDE <1>3 DEF Drives, NoDrive
    <3> QED BY <3>1, <3>2, <3>3 DEF LineTypes
  <2>2. (SharedTypes /\ HeadsOnDisk)'
    BY DEF SharedTypes, HeadsOnDisk, PruTypes, ArmTypes
  <2>3. BufferTypes'
    BY DEF BufferTypes, SharedTypes, PruTypes, ArmTypes, ArmInv, Cyls, Partial
  <2> QED BY <1>2, <2>1, <2>2, <2>3
<1>4. CASE ChangeHead
  BY <1>2, <1>4 DEF ChangeHead, Operate, MayChangeLines, lineVars, pruVars, armVars,
                    LineTypes, SharedTypes, HeadsOnDisk, PruTypes, ArmTypes, BufferTypes,
                    ArmInv, Cyls, Partial
<1>5. CASE StepFalls
  BY <1>2, <1>5 DEF StepFalls, Operate, Deselected, lineVars, pruVars, armVars, LineTypes,
                    SharedTypes, HeadsOnDisk, PruTypes, ArmTypes, BufferTypes, ArmInv,
                    Cyls, Partial
<1>6. CASE Write
  BY <1>2, <1>6 DEF Write, Operate, Deselected, lineVars, pruVars, armVars, LineTypes,
                    SharedTypes, HeadsOnDisk, PruTypes, ArmTypes, BufferTypes, ArmInv,
                    Cyls, Partial
<1>7. CASE StepRises
  <2> USE <1>7 DEF StepRises, lineVars, pruVars, armVars
  <2>1. LineTypes'
    BY DEF LineTypes
  <2>2. (SharedTypes /\ HeadsOnDisk)'
    BY DEF SharedTypes, HeadsOnDisk, PruTypes, ArmTypes
  <2>3. BufferTypes'
    BY DEF BufferTypes, SharedTypes, PruTypes, ArmTypes, ArmInv, Cyls, Partial
  <2> QED BY <1>2, <2>1, <2>2, <2>3
<1>8. CASE RequestExit
  BY <1>2, <1>8 DEF RequestExit, lineVars, pruVars, armVars, LineTypes, SharedTypes,
                    HeadsOnDisk, PruTypes, ArmTypes, BufferTypes, ArmInv, Cyls, Partial
<1>9. CASE Join
  BY <1>2, <1>9 DEF Join, lineVars, pruVars, armVars, LineTypes, SharedTypes, HeadsOnDisk,
                    PruTypes, ArmTypes, BufferTypes, ArmInv, Cyls, Partial
<1>10. CASE PruShutdown
  <2> USE <1>10 DEF PruShutdown, lineVars, pruVars, armVars
  <2>1. LineTypes'
    BY DEF LineTypes
  <2>2. (SharedTypes /\ HeadsOnDisk)'
    BY DEF SharedTypes, HeadsOnDisk, PruTypes, ArmTypes
  <2>3. BufferTypes'
    BY DEF BufferTypes, SharedTypes, PruTypes, ArmTypes, ArmInv, Cyls, Partial
  <2> QED BY <1>2, <2>1, <2>2, <2>3
<1> QED BY <1>3, <1>4, <1>5, <1>6, <1>7, <1>8, <1>9, <1>10

\* Before the first action everything has its type.
LEMMA TypeInit == Init => TypeInv
<1> SUFFICES ASSUME Init PROVE TypeInv
  OBVIOUS
<1>0. 0 \in 0 .. MaxOps /\ 0 \in 0 .. NumDrives
  BY SizesAssumption
<1> USE DEF Init, Exiting, NoDrive, ExitCyl
<1>1. LineTypes
  <2> HIDE DEF NoDrive
  <2> QED BY <1>0 DEF LineTypes
<1>2. SharedTypes
  BY DEF SharedTypes
<1>3. HeadsOnDisk
  BY DEF HeadsOnDisk
<1>4. PruTypes
  BY DEF PruTypes, PruPcs
<1>5. BufferTypes
  BY DEF BufferTypes
<1>6. ArmTypes /\ ArmInv
  BY <1>0 DEF ArmTypes, ArmInv, ArmPcs
<1> QED BY <1>1, <1>2, <1>3, <1>4, <1>5, <1>6 DEF TypeInv

\* A step of anybody keeps the types.
LEMMA TypeNext == TypeInv /\ [Next]_vars => TypeInv'
<1> SUFFICES ASSUME TypeInv, [Next]_vars PROVE TypeInv'
  OBVIOUS
<1>1. CASE Pru0
  BY <1>1, TypePru DEF Pru0
<1>2. CASE ReadThread
  BY <1>2, TypeArm DEF ReadThread
<1>3. CASE Controller \/ StepRises \/ RequestExit \/ Join \/ PruShutdown
  BY <1>3, TypeOther DEF Controller
<1>4. CASE UNCHANGED vars
  <2> USE <1>4 DEF TypeInv, vars, lineVars, pruVars, armVars
  <2>1. (LineTypes /\ SharedTypes /\ HeadsOnDisk)'
    BY DEF LineTypes, SharedTypes, HeadsOnDisk
  <2>2. (PruTypes /\ BufferTypes)'
    BY DEF PruTypes, BufferTypes
  <2>3. (ArmTypes /\ ArmInv)'
    BY DEF ArmTypes, ArmInv
  <2> QED BY <2>1, <2>2, <2>3
<1> QED BY <1>1, <1>2, <1>3, <1>4 DEF Next

\* They hold always.
LEMMA TypeAlways == Spec => []TypeInv
  BY TypeInit, TypeNext, PTL DEF Spec

\* The variables have their types under any controller, and whatever loop PRU 0 is in it
\* works for the drive whose select line it watches.
THEOREM TypeCorrect == Spec => []TypeOK
<1>1. TypeInv => TypeOK
  BY DEF TypeInv, TypeOK, LineTypes, SharedTypes, PruTypes, BufferTypes, ArmTypes, Exiting,
         PruPcs
<1> QED BY <1>1, TypeAlways, PTL

-----------------------------------------------------------------------------
\* The stop.  Only the exit sequence of PRU 0 and the last step of the read thread
\* touch what HaltInv is about.
LEMMA HaltNext == TypeInv /\ HaltInv /\ [Next]_vars => HaltInv'
<1> SUFFICES ASSUME TypeInv, HaltInv, [Next]_vars PROVE HaltInv'
  OBVIOUS
<1> USE DEF HaltInv
<1>1. CASE Exit
  <2>1. 0 \in Drives
    BY SizesAssumption DEF Drives
  <2> QED BY <1>1, <2>1 DEF Exit, armVars, TypeInv, SharedTypes
<1>2. CASE Pru0 /\ ~Exit
  <2>1. prupc' \notin {"exitcyl1", "exitint", "waitarm", "halted"}
    BY <1>2 DEF Pru0, TakeFirstStart, SelectDrive, NotSelected, Resume, HandleStart, Reselect,
                TakeStart, SelectChange, HandleHead, Step, StepHigh, StepTooLong,
                LongStepHigh, LastPulse, SeekDone, RequestCyl, SeeExit
  <2> QED BY <2>1
<1>3. CASE ReadThread
  <2>1. armpc' = "done" \/ (armpc # "done" /\ UNCHANGED <<prupc, curCyl>>)
    BY <1>3 DEF ReadThread, FetchCyl, FillDone, ExecCmd, CmdTaken, WaitEvent, ClearEvent,
                ReadDirty, ReadCurCyl, FlushDirty, DrivesDone, AckExit, pruVars
  <2> QED BY <2>1
<1>4. CASE Controller \/ StepRises \/ RequestExit \/ Join \/ PruShutdown \/ UNCHANGED vars
  <2>1. UNCHANGED <<armpc, prupc, curCyl>>
    BY <1>4 DEF Controller, ChangeSelect, ChangeHead, StepFalls, Write, StepRises,
                RequestExit, Join, PruShutdown, vars, pruVars, armVars
  <2> QED BY <2>1
<1> QED BY <1>1, <1>2, <1>3, <1>4 DEF Next

\* Under any controller, and a stop at any time, PRU 0 reports that it has halted only
\* after the read thread has left its loop.
THEOREM HaltAfterAckAlways == Spec => []HaltAfterAck
<1>1. Init => HaltInv
  BY DEF Init, HaltInv
<1>2. HaltInv => HaltAfterAck
  BY DEF HaltInv, HaltAfterAck
<1> QED BY <1>1, <1>2, HaltNext, TypeAlways, PTL DEF Spec

-----------------------------------------------------------------------------
\* PRU 0 shows data only with no request under way.
LEMMA TurnsPru ==
  ASSUME TypeInv, TurnInv, ~LineChangesDuringSeek, ~LongLaterPulses,
         TakeFirstStart \/ SelectDrive \/ NotSelected \/ Resume \/ HandleStart
         \/ Reselect \/ TakeStart \/ SelectChange \/ HandleHead \/ Step \/ StepHigh
         \/ StepTooLong \/ LongStepHigh \/ LastPulse \/ SeekDone \/ RequestCyl
         \/ SeeExit \/ Exit
  PROVE  TurnInv'
<1> USE DEF TurnInv, Live, SeekPcs, Exiting, Busy, Deselected
<1>1. /\ evt \in BOOLEAN /\ waitingCmd \in BOOLEAN /\ done \in BOOLEAN
      /\ cmd \in {"start", "ok"} /\ seekComplete \in BOOLEAN /\ stepLow \in BOOLEAN
      /\ prupc \in PruPcs /\ armpc \in ArmPcs
  BY DEF TypeInv, SharedTypes, PruTypes, ArmTypes, LineTypes, PruPcs, ArmPcs
<1>2. CASE TakeFirstStart
  BY <1>1, <1>2 DEF TakeFirstStart, lineVars, armVars, Turns, Disciplined
<1>3. CASE SelectDrive
  BY <1>1, <1>3 DEF SelectDrive, SetTrack0, lineVars, armVars, Turns, Disciplined
<1>4. CASE NotSelected
  BY <1>1, <1>4 DEF NotSelected, lineVars, armVars, Turns, Disciplined
<1>5. CASE Resume
  BY <1>1, <1>5 DEF Resume, lineVars, armVars, Turns, Disciplined
<1>6. CASE HandleStart
  BY <1>1, <1>6 DEF HandleStart, SendArmCyl, lineVars, armVars, Turns, Disciplined
<1>7. CASE Reselect
  BY <1>1, <1>7 DEF Reselect, lineVars, armVars, Turns, Disciplined
<1>8. CASE TakeStart
  BY <1>1, <1>8 DEF TakeStart, SetTrack0, SendArmCyl, lineVars, armVars, Turns, Disciplined
<1>9. CASE SelectChange
  BY <1>1, <1>9 DEF SelectChange, lineVars, armVars, Turns, Disciplined
<1>10. CASE HandleHead
  BY <1>1, <1>10 DEF HandleHead, lineVars, armVars, Turns, Disciplined
<1>11. CASE Step
  BY <1>1, <1>11 DEF Step, lineVars, armVars, Turns, Disciplined
<1>12. CASE StepHigh
  BY <1>1, <1>12 DEF StepHigh, lineVars, armVars, Turns, Disciplined
<1>13. CASE StepTooLong
  BY <1>1, <1>13 DEF StepTooLong, lineVars, armVars, Turns, Disciplined
<1>14. CASE LongStepHigh
  BY <1>1, <1>14 DEF LongStepHigh, LimitCyl, lineVars, armVars, Turns, Disciplined
<1>15. CASE LastPulse
  BY <1>1, <1>15 DEF LastPulse, lineVars, armVars, Turns, Disciplined
<1>16. CASE SeekDone
  BY <1>1, <1>16 DEF SeekDone, LimitCyl, lineVars, armVars, Turns, Disciplined
<1>17. CASE RequestCyl
  BY <1>1, <1>17 DEF RequestCyl, SendArmCyl, lineVars, armVars, Turns, Disciplined
<1>18. CASE SeeExit
  BY <1>1, <1>18 DEF SeeExit, lineVars, armVars, Turns, Disciplined
<1>19. CASE Exit
  BY <1>1, <1>19 DEF Exit, lineVars, armVars, Turns, Disciplined
<1> QED BY <1>2, <1>3, <1>4, <1>5, <1>6, <1>7, <1>8, <1>9, <1>10, <1>11, <1>12, <1>13,
         <1>14, <1>15, <1>16, <1>17, <1>18, <1>19

\* The read thread works only on a request.
LEMMA TurnsArm ==
  ASSUME TypeInv, TurnInv, ~LineChangesDuringSeek, ~LongLaterPulses,
         FetchCyl \/ FillDone \/ ExecCmd \/ CmdTaken \/ WaitEvent \/ ClearEvent
         \/ ReadDirty \/ ReadCurCyl \/ FlushDirty \/ DrivesDone \/ AckExit
  PROVE  TurnInv'
<1> USE DEF TurnInv, Live, SeekPcs, Exiting, Busy, Deselected
<1>1. /\ evt \in BOOLEAN /\ waitingCmd \in BOOLEAN /\ done \in BOOLEAN
      /\ cmd \in {"start", "ok"} /\ seekComplete \in BOOLEAN /\ stepLow \in BOOLEAN
      /\ prupc \in PruPcs /\ armpc \in ArmPcs
  BY DEF TypeInv, SharedTypes, PruTypes, ArmTypes, LineTypes, PruPcs, ArmPcs
<1>2. CASE FetchCyl
  BY <1>1, <1>2 DEF FetchCyl, lineVars, pruVars, Turns, Disciplined
<1>3. CASE FillDone
  BY <1>1, <1>3 DEF FillDone, lineVars, pruVars, Turns, Disciplined
<1>4. CASE ExecCmd
  BY <1>1, <1>4 DEF ExecCmd, lineVars, pruVars, Turns, Disciplined
<1>5. CASE CmdTaken
  BY <1>1, <1>5 DEF CmdTaken, lineVars, pruVars, Turns, Disciplined
<1>6. CASE WaitEvent
  BY <1>1, <1>6 DEF WaitEvent, lineVars, pruVars, Turns, Disciplined
<1>7. CASE ClearEvent
  BY <1>1, <1>7 DEF ClearEvent, lineVars, pruVars, Turns, Disciplined
<1>8. CASE ReadDirty
  BY <1>1, <1>8 DEF ReadDirty, lineVars, pruVars, Turns, Disciplined
<1>9. CASE ReadCurCyl
  <2> USE <1>1, <1>9 DEF ReadCurCyl, lineVars, pruVars
  <2>0. prupc \notin Exiting => curCyl[drv] # ExitCyl
    BY DEF TypeInv, HeadsOnDisk, ArmInv, ExitCyl
  <2>1. Turns'
    BY <2>0 DEF Turns, Disciplined
  <2>2. Disciplined'
    BY <2>0 DEF Turns, Disciplined
  <2> QED BY <2>1, <2>2
<1>10. CASE FlushDirty
  BY <1>1, <1>10 DEF FlushDirty, lineVars, pruVars, Turns, Disciplined
<1>11. CASE DrivesDone
  BY <1>1, <1>11 DEF DrivesDone, lineVars, pruVars, Turns, Disciplined
<1>12. CASE AckExit
  BY <1>1, <1>12 DEF AckExit, lineVars, pruVars, Turns, Disciplined
<1> QED BY <1>2, <1>3, <1>4, <1>5, <1>6, <1>7, <1>8, <1>9, <1>10, <1>11, <1>12

\* The controller waits for seek complete, and a seek for the end of its pulses.
LEMMA TurnsOther ==
  ASSUME TypeInv, TurnInv, ~LineChangesDuringSeek, ~LongLaterPulses,
         ChangeSelect \/ ChangeHead \/ StepFalls \/ Write \/ StepRises \/ RequestExit
         \/ Join \/ PruShutdown
  PROVE  TurnInv'
<1> USE DEF TurnInv, Live, SeekPcs, Exiting, Busy, Deselected
<1>1. /\ evt \in BOOLEAN /\ waitingCmd \in BOOLEAN /\ done \in BOOLEAN
      /\ cmd \in {"start", "ok"} /\ seekComplete \in BOOLEAN /\ stepLow \in BOOLEAN
      /\ prupc \in PruPcs /\ armpc \in ArmPcs
  BY DEF TypeInv, SharedTypes, PruTypes, ArmTypes, LineTypes, PruPcs, ArmPcs
<1>2. CASE ChangeSelect
  <2> USE <1>1, <1>2 DEF ChangeSelect, Operate, MayChangeLines, lineVars, pruVars, armVars
  <2>0. prupc \notin {"initial", "restart", "waitsel"} \cup Exiting => curSel # NoDrive
    BY DEF TypeInv, PruTypes, Drives, NoDrive
  <2>1. Turns'
    BY <2>0 DEF Turns, Disciplined
  <2>2. Disciplined'
    BY <2>0 DEF Turns, Disciplined
  <2> QED BY <2>1, <2>2
<1>3. CASE ChangeHead
  <2> USE <1>1, <1>3 DEF ChangeHead, Operate, MayChangeLines, lineVars, pruVars, armVars
  <2>0. prupc \notin {"initial", "restart", "waitsel"} \cup Exiting => curSel # NoDrive
    BY DEF TypeInv, PruTypes, Drives, NoDrive
  <2>1. Turns'
    BY <2>0 DEF Turns, Disciplined
  <2>2. Disciplined'
    BY <2>0 DEF Turns, Disciplined
  <2> QED BY <2>1, <2>2
<1>4. CASE StepFalls
  BY <1>1, <1>4 DEF StepFalls, Operate, lineVars, pruVars, armVars, Turns, Disciplined
<1>5. CASE Write
  BY <1>1, <1>5 DEF Write, Operate, lineVars, pruVars, armVars, Turns, Disciplined
<1>6. CASE StepRises
  BY <1>1, <1>6 DEF StepRises, lineVars, pruVars, armVars, Turns, Disciplined
<1>7. CASE RequestExit
  BY <1>1, <1>7 DEF RequestExit, lineVars, pruVars, armVars, Turns, Disciplined
<1>8. CASE Join
  BY <1>1, <1>8 DEF Join, lineVars, pruVars, armVars, Turns, Disciplined
<1>9. CASE PruShutdown
  BY <1>1, <1>9 DEF PruShutdown, lineVars, pruVars, armVars, Turns, Disciplined
<1> QED BY <1>2, <1>3, <1>4, <1>5, <1>6, <1>7, <1>8, <1>9

\* A step of anybody keeps the turns, and the lines still during a seek.
LEMMA TurnsNext ==
  ASSUME ~LineChangesDuringSeek, ~LongLaterPulses
  PROVE  TypeInv /\ TurnInv /\ [Next]_vars => TurnInv'
<1> SUFFICES ASSUME TypeInv, TurnInv, [Next]_vars PROVE TurnInv'
  OBVIOUS
<1>1. CASE Pru0
  BY <1>1, TurnsPru DEF Pru0
<1>2. CASE ReadThread
  BY <1>2, TurnsArm DEF ReadThread
<1>3. CASE Controller \/ StepRises \/ RequestExit \/ Join \/ PruShutdown
  BY <1>3, TurnsOther DEF Controller
<1>4. CASE UNCHANGED vars
  BY <1>4 DEF vars, lineVars, pruVars, armVars, TurnInv, Turns, Disciplined
<1> QED BY <1>1, <1>2, <1>3, <1>4 DEF Next

\* They hold always, as the read thread begins with a load of its own accord.
LEMMA TurnsAlways ==
  ASSUME ~LineChangesDuringSeek, ~LongLaterPulses
  PROVE  Spec => []TurnInv
<1>1. Init => TurnInv
  BY DEF Init, TurnInv, Turns, Disciplined, Live, SeekPcs, Exiting, Busy
<1> QED BY <1>1, TurnsNext, TypeAlways, PTL DEF Spec

\* The lock that is not there: with a controller that leaves select and head lines alone
\* during a seek and whose later pulses are short, PRU 0 uses the buffers and the dirty
\* bits only while the read thread waits for a request.
THEOREM ServesWhileArmWaitsAlways ==
  ASSUME ~LineChangesDuringSeek, ~LongLaterPulses
  PROVE  Spec => []ServesWhileArmWaits
<1>1. TurnInv => ServesWhileArmWaits
  BY DEF TurnInv, Turns, Disciplined, Live, SeekPcs, ServesWhileArmWaits
<1> QED BY <1>1, TurnsAlways, PTL

-----------------------------------------------------------------------------
\* The data.  The controller of these lemmas leaves the lines alone during a seek, seeks
\* in one direction and stays on the disk.
Careful == ~LineChangesDuringSeek /\ ~LongLaterPulses /\ ~ReversesSeek /\ ~StepsPastEnd

AllInv == TypeInv /\ TurnInv /\ DataInv

\* PRU 0 works for a drive in every loop that watches a select line; the numbers of drives
\* and cylinders.
LEMMA AtDrive ==
  ASSUME TypeInv
  PROVE  /\ prupc \notin {"initial", "restart", "waitsel"} \cup Exiting
              => driveData \in Drives /\ curSel = driveData
         /\ 0 \in Drives
         /\ \A d \in Drives : d \in Int /\ d >= 0 /\ d < NumDrives
         /\ \A c \in Cyls : c \in Int /\ c # ExitCyl /\ c < NumCyl /\ c >= 0
<1> USE SizesAssumption DEF TypeInv, PruTypes, Drives, Cyls, ExitCyl
<1> QED OBVIOUS

\* The limit of the cylinder leaves heads on the disk where they are.
LEMMA LimitOnDisk ==
  ASSUME TypeInv, DiskInv, LimitCyl, driveData \in Drives, prupc \notin Exiting
  PROVE  curCyl' = curCyl
<1>1. curCyl[driveData] \in Cyls
  BY DEF DiskInv, TypeInv, HeadsOnDisk, ExitCyl
<1>2. ~(curCyl[driveData] >= NumCyl)
  BY <1>1, SizesAssumption DEF Cyls
<1>3. curCyl' = [curCyl EXCEPT ![driveData] = curCyl[driveData]]
  BY <1>2 DEF LimitCyl
<1> QED BY <1>3 DEF TypeInv, SharedTypes

\* The heads move to the cylinder that the step was for, and the request is for the
\* cylinder they are on.
LEMMA DiskNext ==
  ASSUME Careful, AllInv, [Next]_vars
  PROVE  DiskInv'
<1> USE DEF AllInv, DataInv
<1> DEFINE Sent(d) == lastArm' = [lastArm EXCEPT ![d] = curCyl[d]] /\ curCyl' = curCyl
<1>1. CASE UNCHANGED <<curCyl, lastArm>>
  BY <1>1 DEF DiskInv
<1>2. ASSUME NEW d \in Drives, Sent(d), prupc \notin Exiting
      PROVE  DiskInv'
  BY <1>2 DEF DiskInv, TypeInv, PruTypes, HeadsOnDisk, ExitCyl
<1>3. CASE HandleStart
  BY <1>3 DEF HandleStart, TurnInv, Turns, Disciplined, Live
<1>4. CASE TakeStart \/ RequestCyl
  <2>1. UNCHANGED <<curCyl, lastArm>> \/ Sent(driveData)
    BY <1>4 DEF TakeStart, RequestCyl, SendArmCyl
  <2>2. driveData \in Drives /\ prupc \notin Exiting
    BY <1>4, AtDrive DEF TakeStart, RequestCyl, Exiting
  <2> QED BY <1>1, <1>2, <2>1, <2>2
<1>5. CASE StepHigh
  BY <1>5, AtDrive DEF StepHigh, DiskInv, SeekInv, SeekPcs, Exiting, TypeInv, SharedTypes
<1>6. CASE LongStepHigh \/ SeekDone
  <2>1. driveData \in Drives /\ prupc \notin Exiting /\ LimitCyl /\ UNCHANGED lastArm
    BY <1>6, AtDrive DEF LongStepHigh, SeekDone, Exiting
  <2> QED BY <1>1, <2>1, LimitOnDisk
<1>7. CASE Exit \/ AckExit
  <2>1. lastArm' = lastArm
    BY <1>7 DEF Exit, AckExit, pruVars
  <2>2. \A d \in Drives : curCyl'[d] \in {curCyl[d], ExitCyl, 0}
    BY <1>7, AtDrive DEF Exit, AckExit, TypeInv, SharedTypes
  <2>3. 0 \in Cyls
    BY SizesAssumption DEF Cyls
  <2> QED BY <2>1, <2>2, <2>3 DEF DiskInv
<1>8. CASE Pru0 /\ ~HandleStart /\ ~TakeStart /\ ~RequestCyl /\ ~StepHigh /\ ~LongStepHigh
           /\ ~SeekDone /\ ~Exit
  BY <1>1, <1>8 DEF Pru0, TakeFirstStart, SelectDrive, NotSelected, Resume, Reselect,
     SelectChange, HandleHead, Step, StepTooLong, LastPulse, SeeExit
<1>9. CASE ReadThread /\ ~AckExit
  BY <1>1, <1>9 DEF ReadThread, FetchCyl, FillDone, ExecCmd, CmdTaken, WaitEvent, ClearEvent,
     ReadDirty, ReadCurCyl, FlushDirty, DrivesDone, pruVars
<1>10. CASE Controller \/ StepRises \/ RequestExit \/ Join \/ PruShutdown \/ UNCHANGED vars
  BY <1>1, <1>10 DEF Controller, ChangeSelect, ChangeHead, StepFalls, Write, StepRises,
     RequestExit, Join, PruShutdown, vars, pruVars
<1> QED BY <1>3, <1>4, <1>5, <1>6, <1>7, <1>8, <1>9, <1>10 DEF Next, Pru0, ReadThread

\* A seek begins where the drive rests, and an answered request for the cylinder the
\* heads are on ends it.
LEMMA RestNext ==
  ASSUME Careful, AllInv, [Next]_vars
  PROVE  RestInv'
<1> USE DEF AllInv, DataInv
<1> DEFINE Same == UNCHANGED <<curCyl, lastArm, newCyl>>
<1>1. CASE Same /\ prupc \notin SeekPcs /\ (prupc \in Exiting => prupc' \in Exiting)
  BY <1>1 DEF RestInv, Settled
<1>2. CASE Same /\ prupc' \in SeekPcs /\ prupc \in SeekPcs /\ driveData' = driveData
  BY <1>2 DEF RestInv, Settled, SeekPcs, Exiting
<1>3. ASSUME NEW d \in Drives, d = driveData, d = driveData',
             prupc \in SeekPcs, prupc' \in SeekPcs, newCyl' = newCyl,
             \A e \in Drives : e # d => curCyl'[e] = curCyl[e] /\ lastArm'[e] = lastArm[e]
      PROVE  RestInv'
  BY <1>3 DEF RestInv, Settled, SeekPcs, Exiting
<1>4. CASE TakeStart
  <2>1. driveData \in Drives /\ prupc \in SeekPcs /\ prupc \notin Exiting
    BY <1>4, AtDrive DEF TakeStart, SeekPcs, Exiting
  <2>2. CASE curCyl[driveData] = lastArm[driveData]
    <3>1. waitingCmd /\ HasRead(driveData)
      BY <1>4 DEF TakeStart, TurnInv, Turns, Disciplined, Live, SeekPcs, HasRead, Busy, Exiting
    <3>2. /\ Onward(lastArm[driveData], newCyl[driveData])
          /\ Onward(newCyl[driveData], curCyl[driveData])
      BY <2>1, <3>1 DEF SeekInv
    <3>3. lastArm[driveData] \in Int /\ newCyl[driveData] \in Int
      BY <2>1, AtDrive DEF DiskInv, CylsInv, ExitCyl
    <3>4. Settled(driveData)
      BY <2>2, <3>2, <3>3 DEF Onward, Settled
    <3>5. Same
      BY <1>4, <2>2 DEF TakeStart, armVars
    <3> QED BY <2>1, <3>4, <3>5 DEF RestInv, Settled
  <2>3. CASE curCyl[driveData] # lastArm[driveData]
    BY <1>3, <1>4, <2>1, <2>3 DEF TakeStart, SendArmCyl, armVars, TypeInv, PruTypes
  <2> QED BY <2>2, <2>3
<1>5. CASE StepHigh
  BY <1>3, <1>5, AtDrive DEF StepHigh, SeekPcs, Exiting, armVars, TypeInv, SharedTypes
<1>6. CASE RequestCyl
  BY <1>3, <1>6, AtDrive DEF RequestCyl, SendArmCyl, SeekPcs, Exiting, armVars, TypeInv,
     PruTypes
<1>7. CASE StepTooLong
  <2>1. Settled(driveData)
    BY <1>7, AtDrive DEF StepTooLong, Careful, SeekInv, SeekPcs, Settled
  <2> QED BY <1>7, <2>1 DEF StepTooLong, RestInv, Settled, SeekPcs, Exiting, armVars
<1>8. CASE LongStepHigh \/ SeekDone
  <2>1. driveData \in Drives /\ prupc \notin Exiting /\ LimitCyl
    BY <1>8, AtDrive DEF LongStepHigh, SeekDone, Exiting
  <2>2. Same
    BY <1>8, <2>1, LimitOnDisk DEF LongStepHigh, SeekDone, armVars
  <2> QED BY <1>1, <1>2, <1>8, <2>2 DEF LongStepHigh, SeekDone, SeekPcs, Exiting
<1>9. CASE Exit \/ SeeExit
  BY <1>9 DEF Exit, SeeExit, RestInv, Exiting
<1>10. CASE HandleStart
  BY <1>10 DEF HandleStart, TurnInv, Turns, Disciplined, Live
<1>11. CASE SelectChange \/ HandleHead
  <2>1. prupc \notin SeekPcs /\ Same /\ prupc \notin Exiting
    BY <1>11 DEF SelectChange, HandleHead, Deselected, TurnInv, Disciplined, SeekPcs, Exiting,
       armVars
  <2> QED BY <1>1, <2>1
<1>12. CASE TakeFirstStart \/ SelectDrive \/ NotSelected \/ Resume \/ Reselect \/ Step
            \/ LastPulse
  BY <1>1, <1>2, <1>12 DEF TakeFirstStart, SelectDrive, NotSelected, Resume, Reselect, Step,
     LastPulse, SeekPcs, Exiting, armVars, TurnInv, Disciplined, Live
<1>13. CASE ReadCurCyl
  BY <1>13 DEF ReadCurCyl, RestInv, Settled, pruVars, TypeInv, ArmTypes, ArmInv
<1>14. CASE AckExit
  BY <1>14 DEF AckExit, pruVars, TurnInv, Turns, RestInv
<1>15. CASE ReadThread /\ ~ReadCurCyl /\ ~AckExit
  BY <1>15 DEF ReadThread, FetchCyl, FillDone, ExecCmd, CmdTaken, WaitEvent, ClearEvent,
     ReadDirty, FlushDirty, DrivesDone, pruVars, RestInv, Settled
<1>16. CASE Controller \/ StepRises \/ RequestExit \/ Join \/ PruShutdown \/ UNCHANGED vars
  BY <1>16 DEF Controller, ChangeSelect, ChangeHead, StepFalls, Write, StepRises,
     RequestExit, Join, PruShutdown, vars, pruVars, armVars, RestInv, Settled
<1> QED BY <1>4, <1>5, <1>6, <1>7, <1>8, <1>9, <1>10, <1>11, <1>12, <1>13, <1>14, <1>15, <1>16
     DEF Next, Pru0

\* What the read thread loads for a drive that seeks stays between the request and the
\* heads.
LEMMA SeekNext ==
  ASSUME Careful, AllInv, [Next]_vars
  PROVE  SeekInv'
<1> USE DEF AllInv, DataInv
<1>1. CASE prupc' \notin SeekPcs
  BY <1>1 DEF SeekInv
<1>2. ASSUME prupc \in SeekPcs, prupc' = "waitstephigh" => prupc = "waitstephigh",
             UNCHANGED <<driveData, lastArm, curCyl, newCyl, waitingCmd, nextCyl, stepIn>>,
             HasRead(driveData)' => HasRead(driveData)
      PROVE  SeekInv'
  BY <1>2 DEF SeekInv, Onward
<1>3. prupc \in SeekPcs \cup {"reading"} =>
        /\ driveData \in Drives /\ curCyl[driveData] \in Cyls /\ lastArm[driveData] \in Cyls
        /\ \A c \in Cyls : c \in Int
  BY AtDrive DEF SeekPcs, Exiting, DiskInv, TypeInv, HeadsOnDisk, ExitCyl
<1>4. CASE Step
  <2>1. nextCyl' \in Cyls /\ Onward(curCyl[driveData], nextCyl')
    BY <1>3, <1>4, SizesAssumption DEF Step, SeekPcs, Cyls, Onward, RoomInv
  <2>2. UNCHANGED <<driveData, lastArm, curCyl, newCyl, waitingCmd, stepIn>>
        /\ (HasRead(driveData)' => HasRead(driveData))
    BY <1>4 DEF Step, lineVars, armVars, HasRead
  <2>3. CASE prupc = "reading"
    <3>1. ~waitingCmd /\ newCyl[driveData] = lastArm[driveData]
      BY <2>3, <1>3 DEF TurnInv, Disciplined, Live, RestInv, Settled, SeekPcs, Exiting
    <3> QED BY <2>1, <2>2, <3>1 DEF SeekInv, Onward
  <2>4. CASE prupc \in SeekPcs
    BY <2>1, <2>2, <2>4 DEF SeekInv, Onward
  <2> QED BY <1>4, <2>3, <2>4 DEF Step, SeekPcs
<1>5. CASE StepHigh
  <2>1. prupc = "waitstephigh" /\ prupc' = "seeklp" /\ driveData \in Drives
    BY <1>3, <1>5 DEF StepHigh, SeekPcs
  <2>2. curCyl'[driveData] = nextCyl
    BY <1>5, <2>1 DEF StepHigh, TypeInv, SharedTypes
  <2>3. UNCHANGED <<driveData, lastArm, newCyl, waitingCmd, stepIn>>
        /\ (HasRead(driveData)' => HasRead(driveData))
    BY <1>5 DEF StepHigh, lineVars, armVars, HasRead
  <2>4. newCyl[driveData] \in Int
    BY <1>3, <2>1 DEF CylsInv, ExitCyl, SeekPcs
  <2>5. /\ nextCyl \in Int /\ curCyl[driveData] \in Int /\ lastArm[driveData] \in Int
        /\ Onward(curCyl[driveData], nextCyl)
    BY <1>3, <2>1 DEF SeekInv, SeekPcs
  <2>6. \A a \in Int : Onward(a, curCyl[driveData]) => Onward(a, nextCyl)
    BY <2>5 DEF Onward
  <2>7. /\ ~waitingCmd => newCyl[driveData] = lastArm[driveData]
        /\ waitingCmd => Onward(lastArm[driveData], nextCyl)
        /\ waitingCmd /\ HasRead(driveData) =>
             /\ Onward(lastArm[driveData], newCyl[driveData])
             /\ Onward(newCyl[driveData], nextCyl)
    BY <2>1, <2>4, <2>5, <2>6 DEF SeekInv, SeekPcs
  <2> QED BY <2>1, <2>2, <2>3, <2>7 DEF SeekInv, Onward
<1>6. CASE SeekDone
  <2>1. curCyl' = curCyl
    BY <1>3, <1>6, LimitOnDisk DEF SeekDone, SeekPcs, Exiting
  <2> QED BY <1>2, <1>6, <2>1 DEF SeekDone, SeekPcs, lineVars, armVars, HasRead
<1>7. CASE RequestCyl \/ TakeStart
  <2>1. CASE prupc' \in SeekPcs
    <3>1. driveData \in Drives /\ curCyl[driveData] \in Int
      BY <1>3, <1>7 DEF RequestCyl, TakeStart, SeekPcs
    <3>2. lastArm'[driveData] = curCyl[driveData]
      BY <1>7, <2>1, <3>1 DEF RequestCyl, TakeStart, SendArmCyl, SeekPcs, TypeInv, PruTypes
    <3>3. prupc' = "waitcmd" /\ waitingCmd' /\ evt' /\ UNCHANGED <<driveData, curCyl, stepIn>>
      BY <1>7, <2>1 DEF RequestCyl, TakeStart, SendArmCyl, SeekPcs, lineVars
    <3> QED BY <3>1, <3>2, <3>3 DEF SeekInv, Onward, HasRead
  <2> QED BY <1>1, <2>1
<1>8. CASE LastPulse
  BY <1>2, <1>8 DEF LastPulse, SeekPcs, lineVars, armVars, HasRead
<1>9. CASE SelectChange \/ HandleHead \/ TakeFirstStart \/ SelectDrive \/ NotSelected \/ Resume
           \/ Reselect \/ HandleStart \/ StepTooLong \/ LongStepHigh \/ SeeExit \/ Exit
  <2>1. CASE prupc' \in SeekPcs
    BY <1>9, <2>1 DEF SelectChange, HandleHead, TakeFirstStart, SelectDrive, NotSelected,
       Resume, Reselect, HandleStart, StepTooLong, LongStepHigh, SeeExit, Exit, SeekPcs,
       TurnInv, Disciplined, Live
  <2> QED BY <1>1, <2>1
<1>10. CASE ReadThread
  <2>1. CASE prupc \in SeekPcs
    <3>1. \A d \in Drives : d \in Int /\ d < NumDrives /\ ~(0 > d)
      BY AtDrive
    <3>2. prupc \in Live /\ ~done
      BY <2>1 DEF TurnInv, Turns, Live, SeekPcs, Exiting
    <3>3. CASE ReadCurCyl
      <4>1. waitingCmd
        BY <1>3, <3>2, <3>3 DEF ReadCurCyl, TurnInv, Turns
      <4>2. drv \in Drives /\ driveData \in Drives
        BY <1>3, <2>1, <3>3 DEF ReadCurCyl, TypeInv, ArmInv
      <4>3. UNCHANGED <<prupc, driveData, lastArm, curCyl, waitingCmd, nextCyl, stepIn, evt>>
        BY <3>3 DEF ReadCurCyl, pruVars, lineVars
      <4>4. CASE drv = driveData
        <5>1. newCyl'[driveData] = curCyl[driveData]
          BY <3>3, <4>2, <4>4 DEF ReadCurCyl, TypeInv, ArmTypes
        <5>2. Onward(curCyl[driveData], curCyl[driveData])
          BY <1>3, <2>1 DEF Onward
        <5> QED BY <2>1, <4>1, <4>3, <5>1, <5>2 DEF SeekInv, Onward
      <4>5. CASE drv # driveData
        <5>1. newCyl'[driveData] = newCyl[driveData]
          BY <3>3, <4>2, <4>5 DEF ReadCurCyl, TypeInv, ArmTypes
        <5>2. HasRead(driveData)' => HasRead(driveData)
          BY <3>1, <3>3, <4>2, <4>3, <4>5 DEF ReadCurCyl, HasRead
        <5> QED BY <2>1, <4>3, <5>1, <5>2 DEF SeekInv, Onward
      <4> QED BY <4>4, <4>5
    <3>4. CASE AckExit
      BY <3>2, <3>4 DEF AckExit, TurnInv, Turns
    <3>5. CASE ~ReadCurCyl /\ ~AckExit
      <4>1. /\ UNCHANGED <<driveData, lastArm, curCyl, newCyl, waitingCmd, nextCyl, stepIn>>
            /\ prupc' = prupc
        BY <1>10, <3>5 DEF ReadThread, FetchCyl, FillDone, ExecCmd, CmdTaken, WaitEvent,
           ClearEvent, ReadDirty, FlushDirty, DrivesDone, pruVars, lineVars
      <4>2. driveData \in Drives /\ drv \in Int
        BY <1>3, <2>1, SizesAssumption DEF TypeInv, ArmTypes
      <4>3. HasRead(driveData)' => HasRead(driveData)
        BY <1>10, <3>1, <3>2, <3>5, <4>1, <4>2 DEF ReadThread, FetchCyl, FillDone, ExecCmd,
           CmdTaken, WaitEvent, ClearEvent, ReadDirty, FlushDirty, DrivesDone, HasRead
      <4> QED BY <1>2, <2>1, <4>1, <4>3
    <3> QED BY <3>3, <3>4, <3>5
  <2>2. CASE prupc \notin SeekPcs
    BY <1>1, <1>10, <2>2 DEF ReadThread, FetchCyl, FillDone, ExecCmd, CmdTaken, WaitEvent,
       ClearEvent, ReadDirty, ReadCurCyl, FlushDirty, DrivesDone, AckExit, pruVars
  <2> QED BY <2>1, <2>2
<1>11. CASE Controller \/ StepRises \/ RequestExit \/ Join \/ PruShutdown \/ UNCHANGED vars
  <2>1. CASE prupc \in SeekPcs
    <3>1. ~seekComplete /\ evt' = evt
      BY <1>11, <2>1 DEF TurnInv, Turns, Disciplined, Controller, ChangeSelect, ChangeHead,
         StepFalls, Write, StepRises, RequestExit, Join, PruShutdown, vars, SeekPcs, Exiting
    <3>2. /\ UNCHANGED <<driveData, lastArm, curCyl, newCyl, waitingCmd, nextCyl, stepIn>>
          /\ prupc' = prupc /\ UNCHANGED <<armpc, drv>>
      BY <1>11, <3>1 DEF Careful, Controller, ChangeSelect, ChangeHead, StepFalls, Write,
         StepRises, RequestExit, Join, PruShutdown, vars, pruVars, armVars, lineVars
    <3> QED BY <1>2, <2>1, <3>1, <3>2 DEF HasRead
  <2>2. CASE prupc \notin SeekPcs
    BY <1>1, <1>11, <2>2 DEF Controller, ChangeSelect, ChangeHead, StepFalls, Write, StepRises,
       RequestExit, Join, PruShutdown, vars, pruVars
  <2> QED BY <2>1, <2>2
<1> QED BY <1>4, <1>5, <1>6, <1>7, <1>8, <1>9, <1>10, <1>11 DEF Next, Pru0

\* The controller steps inwards only before the last cylinder, and PRU 0 moves the heads
\* only when the pulse is over.
LEMMA RoomNext ==
  ASSUME Careful, AllInv, [Next]_vars
  PROVE  RoomInv'
<1> USE DEF AllInv, DataInv
<1> DEFINE Places == {"waitcmd", "reading", "seeklp", "seekdone", "sendarm"}
<1>1. CASE ~stepLow' \/ prupc' \notin Places
  BY <1>1 DEF RoomInv
<1>2. CASE prupc \in Places /\ UNCHANGED <<stepLow, stepIn, driveData, curCyl>>
  BY <1>2 DEF RoomInv
<1>3. CASE StepFalls
  BY <1>3 DEF StepFalls, Careful, RoomInv, pruVars
<1>4. CASE SeekDone
  <2>1. curCyl' = curCyl
    BY <1>4, AtDrive, LimitOnDisk DEF SeekDone, Exiting
  <2> QED BY <1>2, <1>4, <2>1 DEF SeekDone, lineVars
<1>5. CASE Pru0 /\ ~SeekDone
  BY <1>1, <1>2, <1>5 DEF Pru0, TakeFirstStart, SelectDrive, NotSelected, Resume, HandleStart,
     Reselect, TakeStart, SelectChange, HandleHead, Step, StepHigh, StepTooLong, LongStepHigh,
     LastPulse, RequestCyl, SeeExit, Exit, SendArmCyl, lineVars, TurnInv, Disciplined, Live
<1>6. CASE ReadThread
  <2>1. CASE AckExit
    BY <1>1, <2>1 DEF AckExit, TurnInv, Turns, Exiting, pruVars
  <2>2. CASE ~AckExit
    <3>1. UNCHANGED <<stepLow, stepIn, driveData, curCyl, prupc>>
      BY <1>6, <2>2 DEF ReadThread, FetchCyl, FillDone, ExecCmd, CmdTaken, WaitEvent,
         ClearEvent, ReadDirty, ReadCurCyl, FlushDirty, DrivesDone, pruVars, lineVars
    <3> QED BY <3>1 DEF RoomInv
  <2> QED BY <2>1, <2>2
<1>7. CASE ChangeSelect \/ StepRises
  BY <1>1, <1>7 DEF ChangeSelect, StepRises
<1>8. CASE ChangeHead \/ Write \/ RequestExit \/ Join \/ PruShutdown \/ UNCHANGED vars
  <2>1. UNCHANGED <<stepLow, stepIn, driveData, curCyl, prupc>>
    BY <1>8 DEF ChangeHead, Write, RequestExit, Join, PruShutdown, vars, pruVars, lineVars
  <2> QED BY <2>1 DEF RoomInv
<1> QED BY <1>3, <1>4, <1>5, <1>6, <1>7, <1>8 DEF Next, Controller

\* PRU 0 touches nothing that the read thread keeps, and the controller only the dirty
\* bits.
LEMMA OnlyReadThread ==
  ASSUME [Next]_vars
  PROVE  \/ ReadThread
         \/ UNCHANGED armVars /\ UNCHANGED ddrCyl /\ (Write \/ UNCHANGED dirty)
<1>1. CASE Pru0
  BY <1>1 DEF Pru0, TakeFirstStart, SelectDrive, NotSelected, Resume, HandleStart, Reselect,
     TakeStart, SelectChange, HandleHead, Step, StepHigh, StepTooLong, LongStepHigh, LastPulse,
     SeekDone, RequestCyl, SeeExit, Exit
<1>2. CASE Controller \/ StepRises \/ RequestExit \/ Join \/ PruShutdown
  <2>1. CASE Write
    BY <2>1 DEF Write
  <2> QED BY <1>2, <2>1 DEF Controller, ChangeSelect, ChangeHead, StepFalls, StepRises,
          RequestExit, Join, PruShutdown
<1>3. CASE UNCHANGED vars
  BY <1>3 DEF vars
<1> QED BY <1>1, <1>2, <1>3 DEF Next

\* The read thread is asked for cylinders of the image, or to leave.
LEMMA CylsNext ==
  ASSUME Careful, AllInv, [Next]_vars
  PROVE  CylsInv'
<1> USE DEF AllInv, DataInv
<1>1. CASE UNCHANGED armVars
  BY <1>1 DEF CylsInv, armVars
<1>2. CASE ReadCurCyl
  <2>1. drv \in Drives /\ curCyl[drv] \in Cyls \cup {ExitCyl}
    BY <1>2 DEF ReadCurCyl, TypeInv, ArmInv, DiskInv
  <2>2. /\ newCyl' = [newCyl EXCEPT ![drv] = curCyl[drv]]
        /\ done' = (done \/ curCyl[drv] = ExitCyl)
        /\ armpc' \in {"dirty", "undirty"}
    BY <1>2 DEF ReadCurCyl
  <2> QED BY <2>1, <2>2 DEF CylsInv, TypeInv, ArmTypes
<1>3. CASE FetchCyl
  <2>1. ~done /\ drv \in Drives
    BY <1>3, SizesAssumption DEF FetchCyl, CylsInv, TypeInv, ArmTypes, Drives
  <2> QED BY <1>3, <2>1 DEF FetchCyl, CylsInv
<1>4. CASE ReadThread /\ ~ReadCurCyl /\ ~FetchCyl
  BY <1>4 DEF ReadThread, FillDone, ExecCmd, CmdTaken, WaitEvent, ClearEvent, ReadDirty,
     FlushDirty, DrivesDone, AckExit, CylsInv
<1> QED BY <1>1, <1>2, <1>3, <1>4, OnlyReadThread DEF ReadThread

\* Before it answers, the read thread loads every drive with the cylinder it read.
LEMMA BufferNext ==
  ASSUME Careful, AllInv, [Next]_vars
  PROVE  BufferInv'
<1> USE DEF AllInv, DataInv
<1>1. CASE UNCHANGED armVars /\ UNCHANGED ddrCyl
  BY <1>1 DEF BufferInv, Loaded, armVars
<1>2. \A d \in Drives : d \in Int /\ d >= 0 /\ d < NumDrives
  BY AtDrive
<1>3. drv \in Int /\ drv <= NumDrives /\ drv >= 0 /\ (drv < NumDrives => drv \in Drives)
  BY SizesAssumption DEF TypeInv, ArmTypes, Drives
<1>4. CASE FetchCyl
  <2>1. armpc = "fetch" /\ drv \in Drives /\ newCyl' = newCyl
    BY <1>3, <1>4 DEF FetchCyl
  <2>2. CASE newCyl[drv] # cyl[drv]
    <3>1. cyl' = [cyl EXCEPT ![drv] = newCyl[drv]] /\ drv' = drv
          /\ armpc' \in {"fill", "failed"}
      BY <1>4, <2>2 DEF FetchCyl
    <3>2. \A d \in Drives : d # drv => ddrCyl'[d] = ddrCyl[d] /\ cyl'[d] = cyl[d]
      BY <1>4, <2>2 DEF FetchCyl, TypeInv, ArmTypes, BufferTypes
    <3>3. cyl'[drv] = newCyl[drv]
      BY <2>1, <3>1 DEF TypeInv, ArmTypes
    <3> QED BY <1>2, <1>3, <2>1, <3>1, <3>2, <3>3 DEF BufferInv, Loaded
  <2>3. CASE newCyl[drv] = cyl[drv]
    <3>1. drv' = drv + 1 /\ UNCHANGED <<cyl, armpc, ddrCyl>>
      BY <1>4, <2>3 DEF FetchCyl
    <3>2. Loaded(drv)
      BY <2>1, <2>3 DEF BufferInv, Loaded
    <3> QED BY <1>2, <1>3, <2>1, <3>1, <3>2 DEF BufferInv, Loaded
  <2> QED BY <2>2, <2>3
<1>5. CASE FillDone
  BY <1>2, <1>3, <1>5 DEF FillDone, BufferInv, Loaded, TypeInv, BufferTypes, ArmInv
<1>6. CASE ExecCmd
  BY <1>2, <1>6 DEF ExecCmd, BufferInv, Loaded
<1>7. CASE ReadThread /\ ~FetchCyl /\ ~FillDone /\ ~ExecCmd
  BY <1>2, <1>7 DEF ReadThread, CmdTaken, WaitEvent, ClearEvent, ReadDirty, ReadCurCyl,
     FlushDirty, DrivesDone, AckExit, BufferInv, Loaded
<1> QED BY <1>1, <1>4, <1>5, <1>6, <1>7, OnlyReadThread

\* The dirty bits of a drive are of the cylinder in its buffer, and they are flushed
\* before another is loaded.
LEMMA DirtyNext ==
  ASSUME Careful, AllInv, [Next]_vars
  PROVE  DirtyInv'
<1> USE DEF AllInv, DataInv
<1>1. CASE UNCHANGED armVars /\ UNCHANGED dirty
  BY <1>1 DEF DirtyInv, armVars
<1>2. \A d \in Drives : d \in Int /\ d >= 0 /\ d < NumDrives
  BY AtDrive
<1>3. drv \in Int /\ drv <= NumDrives /\ drv >= 0 /\ (drv < NumDrives => drv \in Drives)
  BY SizesAssumption DEF TypeInv, ArmTypes, Drives
<1>4. CASE Write
  <2>1. prupc = "reading" /\ driveData \in Drives /\ armpc \in {"spin", "wait"}
        /\ UNCHANGED armVars
    BY <1>4, AtDrive DEF Write, Exiting, TurnInv, Turns, Disciplined, Live, SeekPcs
  <2>2. curCyl[driveData] = cyl[driveData]
    BY <2>1 DEF BufferInv, Loaded, RestInv, Settled, SeekPcs, Exiting
  <2>3. dirty' = [dirty EXCEPT ![driveData] = dirty[driveData] \cup {cyl[driveData]}]
    BY <1>4, <2>2 DEF Write
  <2> QED BY <2>1, <2>3 DEF DirtyInv, armVars, TypeInv, BufferTypes
<1>5. CASE FetchCyl
  BY <1>2, <1>3, <1>5 DEF FetchCyl, DirtyInv, TypeInv, ArmTypes
<1>6. CASE ClearEvent
  BY <1>2, <1>6 DEF ClearEvent, DirtyInv
<1>7. CASE ReadDirty
  BY <1>2, <1>3, <1>7 DEF ReadDirty, DirtyInv
<1>8. CASE ReadCurCyl
  BY <1>2, <1>3, <1>8 DEF ReadCurCyl, DirtyInv
<1>9. CASE FlushDirty
  BY <1>2, <1>3, <1>9 DEF FlushDirty, DirtyInv, TypeInv, BufferTypes
<1>10. CASE DrivesDone
  BY <1>2, <1>10 DEF DrivesDone, DirtyInv
<1>11. CASE FillDone \/ ExecCmd \/ CmdTaken \/ WaitEvent \/ AckExit
  BY <1>11 DEF FillDone, ExecCmd, CmdTaken, WaitEvent, AckExit, DirtyInv
<1> QED BY <1>1, <1>4, <1>5, <1>6, <1>7, <1>8, <1>9, <1>10, <1>11, OnlyReadThread
     DEF ReadThread

\* With a careful controller the buffers stay as the invariant says.
LEMMA DataAlways ==
  ASSUME Careful
  PROVE  Spec => []DataInv
<1>1. Init => DataInv
  <2> SUFFICES ASSUME Init PROVE DataInv
    OBVIOUS
  <2>1. 0 \in Cyls
    BY SizesAssumption DEF Cyls
  <2>2. DiskInv /\ RestInv /\ SeekInv /\ RoomInv
    BY <2>1 DEF Init, DiskInv, RestInv, SeekInv, RoomInv, Settled, SeekPcs
  <2>3. CylsInv
    BY <2>1 DEF Init, CylsInv
  <2>4. \A d \in Drives : ~(d < 0)
    BY DEF Drives
  <2>5. BufferInv /\ DirtyInv
    BY <2>4 DEF Init, BufferInv, DirtyInv
  <2> QED BY <2>2, <2>3, <2>5 DEF DataInv
<1>2. TypeInv /\ TurnInv /\ DataInv /\ [Next]_vars => DataInv'
  BY DiskNext, RestNext, SeekNext, RoomNext, CylsNext, BufferNext, DirtyNext
     DEF AllInv, DataInv
<1>3. Spec => []TurnInv
  BY TurnsAlways DEF Careful
<1> QED BY <1>1, <1>2, <1>3, TypeAlways, PTL DEF Spec

\* With a careful controller a drive shows the data of the cylinder its heads are on: no
\* interleaving of requests, answers and further seeks shows it another one.
THEOREM ServesCurrentCylinderAlways ==
  ASSUME ~LineChangesDuringSeek, ~LongLaterPulses, ~ReversesSeek, ~StepsPastEnd
  PROVE  Spec => []ServesCurrentCylinder
<1>1. Careful
  BY DEF Careful
<1>2. TypeInv /\ TurnInv /\ DataInv => ServesCurrentCylinder
  <2> SUFFICES ASSUME TypeInv, TurnInv, DataInv, prupc = "reading"
               PROVE  ddrCyl[driveData] = curCyl[driveData]
    BY DEF ServesCurrentCylinder
  <2>1. driveData \in Drives /\ armpc \in {"spin", "wait"}
    BY AtDrive DEF Exiting, TurnInv, Turns, Disciplined, Live, SeekPcs
  <2> QED BY <2>1 DEF DataInv, BufferInv, Loaded, RestInv, Settled, SeekPcs, Exiting
<1>3. Spec => []TurnInv
  BY TurnsAlways
<1>4. Spec => []DataInv
  BY <1>1, DataAlways
<1> QED BY <1>2, <1>3, <1>4, TypeAlways, PTL

\* With a careful controller what was written at one cylinder is filed under it: the
\* buffer is never handed to another cylinder with dirty bits left.
THEOREM WritesStayHomeAlways ==
  ASSUME ~LineChangesDuringSeek, ~LongLaterPulses, ~ReversesSeek, ~StepsPastEnd
  PROVE  Spec => []WritesStayHome
<1>1. Careful
  BY DEF Careful
<1>2. DataInv => WritesStayHome
  BY DEF DataInv, DirtyInv, WritesStayHome
<1>3. Spec => []DataInv
  BY <1>1, DataAlways
<1> QED BY <1>2, <1>3, PTL

\* With a careful controller the read thread is never asked for a cylinder that the image
\* does not have, so that it does not end the program.
THEOREM ArmReadsCylinderAlways ==
  ASSUME ~LineChangesDuringSeek, ~LongLaterPulses, ~ReversesSeek, ~StepsPastEnd
  PROVE  Spec => []ArmReadsCylinder
<1>1. Careful
  BY DEF Careful
<1>2. DataInv => ArmReadsCylinder
  BY DEF DataInv, CylsInv, ArmReadsCylinder
<1>3. Spec => []DataInv
  BY <1>1, DataAlways
<1> QED BY <1>2, <1>3, PTL

-----------------------------------------------------------------------------
\* The stop and the track zero line need no more of the controller than the turns do.

\* When PRU 0 leaves its loops no interrupt is pending, so the read thread waits until the
\* one of the exit sequence; by the time it has left its loop it has cleared that one too.
StopInv ==
  /\ prupc \in {"exitcmd", "exitcyl0", "exitcyl1", "exitint"} =>
       ~evt /\ armpc \in {"fetch", "fill", "failed", "spin", "wait"}
  /\ prupc = "waitarm" /\ evt => armpc \in {"fetch", "fill", "failed", "spin", "wait", "clear"}
  /\ spc = "down" => prupc = "halted"

\* The line tells where drive d was when the ARM was last asked.
ZeroOf(d) == trackZero = (lastArm[d] = 0)

\* A drive that does not seek is where the ARM was last asked to be, and that is not
\* past the last cylinder; the line tells of that cylinder until the seek is done.
ZeroInv ==
  /\ \A d \in Drives : lastArm[d] < NumCyl
  /\ prupc \notin Exiting =>
       \A d \in Drives : (prupc \in SeekPcs /\ d = driveData) \/ curCyl[d] = lastArm[d]
  /\ prupc \in {"selected", "reading", "waitstephigh2"} => ZeroOf(driveData)
  /\ prupc \in {"waitstephigh", "seeklp"} /\ ~waitingCmd => ZeroOf(driveData)
  /\ prupc \in {"sendarm", "waitcmd"} => curCyl[driveData] < NumCyl

\* Nobody but the exit sequence interrupts the read thread once PRU 0 has left its loops.
LEMMA StopNext ==
  TypeInv /\ TurnInv /\ StopInv /\ [Next]_vars => StopInv'
<1> SUFFICES ASSUME TypeInv, TurnInv, StopInv, [Next]_vars PROVE StopInv'
  OBVIOUS
<1> USE DEF StopInv
<1>1. /\ prupc \in PruPcs /\ armpc \in ArmPcs
      /\ evt \in BOOLEAN /\ done \in BOOLEAN /\ waitingCmd \in BOOLEAN
  BY DEF TypeInv, SharedTypes, PruTypes, ArmTypes
<1>2. CASE Exit
  BY <1>2 DEF Exit, armVars
<1>3. CASE SeeExit
  <2>1. ~evt /\ armpc \in {"fetch", "fill", "failed", "spin", "wait"}
    BY <1>1, <1>3 DEF SeeExit, TurnInv, Turns, Disciplined, Live, SeekPcs
  <2> QED BY <1>3, <2>1 DEF SeeExit, armVars
<1>4. CASE Pru0 /\ ~Exit /\ ~SeeExit
  <2>1. /\ prupc' \notin Exiting /\ prupc # "halted" /\ spc' = spc
    BY <1>4 DEF Pru0, TakeFirstStart, SelectDrive, NotSelected, Resume, HandleStart, Reselect,
       TakeStart, SelectChange, HandleHead, Step, StepHigh, StepTooLong, LongStepHigh, LastPulse,
       SeekDone, RequestCyl, Exiting
  <2> QED BY <2>1 DEF Exiting
<1>5. CASE ReadThread
  BY <1>1, <1>5 DEF ReadThread, FetchCyl, FillDone, ExecCmd, CmdTaken, WaitEvent, ClearEvent,
     ReadDirty, ReadCurCyl, FlushDirty, DrivesDone, AckExit, pruVars, ArmPcs
<1>6. CASE PruShutdown
  <2>1. evt /\ armpc = "done" /\ prupc \in Exiting
    BY <1>6 DEF PruShutdown, TurnInv, Turns
  <2>2. prupc = "halted"
    BY <2>1 DEF Exiting
  <2> QED BY <1>6, <2>2 DEF PruShutdown, pruVars
<1>7. CASE Controller \/ StepRises \/ RequestExit \/ Join \/ UNCHANGED vars
  BY <1>7 DEF Controller, ChangeSelect, ChangeHead, StepFalls, Write, StepRises, RequestExit,
     Join, vars, pruVars, armVars
<1> QED BY <1>2, <1>3, <1>4, <1>5, <1>6, <1>7 DEF Next

\* The PRUs are disabled only when PRU 0 has halted: with a controller that leaves select and
\* head lines alone during a seek and whose later pulses are short, the event that ends the
\* wait of pru_shutdown() is the one PRU 0 sends last, whenever the stop comes.
THEOREM DisabledAfterHaltAlways ==
  ASSUME ~LineChangesDuringSeek, ~LongLaterPulses
  PROVE  Spec => []DisabledAfterHalt
<1>1. Init => StopInv
  BY DEF Init, StopInv
<1>2. StopInv => DisabledAfterHalt
  BY DEF StopInv, DisabledAfterHalt
<1> QED BY <1>1, <1>2, StopNext, TurnsAlways, TypeAlways, PTL DEF Spec

\* The limit of the cylinder touches the drive that is selected, and only beyond the disk.
LEMMA LimitAtRest ==
  ASSUME TypeInv, LimitCyl, driveData \in Drives, prupc \notin Exiting
  PROVE  /\ curCyl'[driveData] < NumCyl
         /\ \A d \in Drives : d # driveData => curCyl'[d] = curCyl[d]
         /\ curCyl[driveData] < NumCyl => curCyl'[driveData] = curCyl[driveData]
         /\ trackZero' = (curCyl'[driveData] = 0)
<1>1. curCyl[driveData] \in Nat
  BY DEF TypeInv, HeadsOnDisk
<1> DEFINE c == IF curCyl[driveData] >= NumCyl THEN 0 ELSE curCyl[driveData]
<1>2. c < NumCyl /\ (curCyl[driveData] < NumCyl => c = curCyl[driveData])
  BY <1>1, SizesAssumption
<1>3. curCyl' = [curCyl EXCEPT ![driveData] = c] /\ trackZero' = (c = 0)
  BY DEF LimitCyl
<1>4. DOMAIN curCyl = Drives
  BY DEF TypeInv, SharedTypes
<1> HIDE DEF c
<1>5. curCyl'[driveData] = c /\ \A d \in Drives : d # driveData => curCyl'[d] = curCyl[d]
  BY <1>3, <1>4
<1> QED BY <1>2, <1>3, <1>5

\* The line is set whenever a drive is shown, and a pulse that is no seek leaves the heads
\* where the line was set.
LEMMA ZeroNext ==
  ASSUME ~LongLaterPulses
  PROVE  TypeInv /\ TurnInv /\ ZeroInv /\ [Next]_vars => ZeroInv'
<1> SUFFICES ASSUME TypeInv, TurnInv, ZeroInv, [Next]_vars PROVE ZeroInv'
  OBVIOUS
<1>0. /\ prupc \in PruPcs /\ DOMAIN lastArm = Drives /\ DOMAIN curCyl = Drives
      /\ waitingCmd \in BOOLEAN
      /\ \A d \in Drives : lastArm[d] \in Int
  BY DEF TypeInv, SharedTypes, PruTypes
<1>1. prupc \in SeekPcs \cup {"selected", "reading", "waitstephigh2"} => driveData \in Drives
  BY AtDrive DEF SeekPcs, Exiting
<1> DEFINE Same == UNCHANGED <<curCyl, lastArm>>
<1>2. CASE Same /\ UNCHANGED <<prupc, driveData, waitingCmd, trackZero>>
  BY <1>2 DEF ZeroInv, ZeroOf
<1>3. ASSUME NEW d \in Drives, d = driveData, d = driveData',
             prupc \in SeekPcs, prupc' \in SeekPcs,
             prupc' \in {"waitstephigh", "seeklp"} /\ ~waitingCmd' => ZeroOf(driveData)',
             prupc' \in {"sendarm", "waitcmd"} => curCyl'[driveData] < NumCyl,
             lastArm'[d] < NumCyl,
             \A e \in Drives : e # d => curCyl'[e] = curCyl[e] /\ lastArm'[e] = lastArm[e]
      PROVE  ZeroInv'
  BY <1>3 DEF ZeroInv, SeekPcs, Exiting
<1>4. CASE Exit \/ SeeExit
  BY <1>4 DEF Exit, SeeExit, ZeroInv, SeekPcs, Exiting
<1>5. CASE TakeFirstStart
  BY <1>5 DEF TakeFirstStart, ZeroInv, SeekPcs, Exiting
<1>6. CASE SelectDrive
  <2>1. selLine \in Drives
    BY <1>6 DEF SelectDrive, TypeInv, LineTypes
  <2>2. curCyl[selLine] = lastArm[selLine]
    BY <1>6, <2>1 DEF SelectDrive, ZeroInv, SeekPcs, Exiting
  <2> QED BY <1>6, <2>1, <2>2 DEF SelectDrive, SetTrack0, ZeroInv, ZeroOf, SeekPcs, Exiting
<1>7. CASE NotSelected
  BY <1>7 DEF NotSelected, ZeroInv, SeekPcs, Exiting
<1>8. CASE Resume
  BY <1>8 DEF Resume, TurnInv, Disciplined, Live, ZeroInv, ZeroOf, SeekPcs, Exiting
<1>9. CASE HandleStart
  BY <1>9 DEF HandleStart, TurnInv, Turns, Disciplined, Live
<1>10. CASE Reselect
  BY <1>10 DEF Reselect, ZeroInv, SeekPcs, Exiting
<1>11. CASE TakeStart
  <2>1. CASE curCyl[driveData] = lastArm[driveData]
    BY <1>1, <1>11, <2>1 DEF TakeStart, SetTrack0, ZeroInv, ZeroOf, SeekPcs, Exiting
  <2>2. CASE curCyl[driveData] # lastArm[driveData]
    <3>1. driveData \in Drives /\ prupc \in SeekPcs /\ curCyl[driveData] < NumCyl
      BY <1>1, <1>11 DEF TakeStart, SeekPcs, ZeroInv
    <3>2. lastArm' = [lastArm EXCEPT ![driveData] = curCyl[driveData]]
          /\ UNCHANGED <<curCyl, prupc, driveData>> /\ prupc = "waitcmd"
      BY <1>11, <2>2 DEF TakeStart, SendArmCyl
    <3> QED BY <1>0, <1>3, <3>1, <3>2
  <2> QED BY <2>1, <2>2
<1>12. CASE SelectChange \/ HandleHead
  BY <1>12 DEF SelectChange, HandleHead, Deselected, TurnInv, Disciplined, SeekPcs, Exiting,
     ZeroInv, ZeroOf
<1>13. CASE Step
  <2>1. CASE prupc = "reading"
    BY <1>13, <2>1 DEF Step, ZeroInv, ZeroOf, SeekPcs, Exiting
  <2>2. CASE prupc \in {"waitcmd", "seeklp"}
    BY <1>13, <2>2 DEF Step, ZeroInv, ZeroOf, SeekPcs, Exiting, TurnInv, Disciplined
  <2> QED BY <1>13, <2>1, <2>2 DEF Step
<1>14. CASE StepHigh
  <2>1. driveData \in Drives /\ prupc = "waitstephigh" /\ prupc' = "seeklp"
        /\ UNCHANGED <<driveData, lastArm, waitingCmd, trackZero>>
        /\ curCyl' = [curCyl EXCEPT ![driveData] = nextCyl]
    BY <1>1, <1>14 DEF StepHigh, SeekPcs
  <2>2. ~waitingCmd' => ZeroOf(driveData)'
    BY <2>1 DEF ZeroInv, ZeroOf
  <2>3. lastArm'[driveData] < NumCyl
    BY <2>1 DEF ZeroInv
  <2> QED BY <1>0, <1>3, <2>1, <2>2, <2>3 DEF SeekPcs
<1>15. CASE StepTooLong
  BY <1>1, <1>15 DEF StepTooLong, ZeroInv, ZeroOf, SeekPcs, Exiting
<1>16. CASE LongStepHigh
  <2>1. driveData \in Drives /\ prupc = "waitstephigh2" /\ prupc' = "restart"
        /\ UNCHANGED <<driveData, lastArm>> /\ LimitCyl
    BY <1>1, <1>16 DEF LongStepHigh
  <2>2. curCyl[driveData] = lastArm[driveData] /\ lastArm[driveData] < NumCyl
    BY <2>1 DEF ZeroInv, SeekPcs, Exiting
  <2>3. \A d \in Drives : curCyl'[d] = curCyl[d]
    BY <2>1, <2>2, LimitAtRest DEF Exiting
  <2> QED BY <2>1, <2>2, <2>3 DEF ZeroInv, SeekPcs, Exiting
<1>17. CASE LastPulse
  BY <1>17 DEF LastPulse, ZeroInv, ZeroOf, SeekPcs, Exiting
<1>18. CASE SeekDone
  <2>1. driveData \in Drives /\ prupc = "seekdone" /\ prupc' \in {"sendarm", "waitcmd"}
        /\ UNCHANGED <<driveData, lastArm>> /\ LimitCyl
    BY <1>1, <1>18 DEF SeekDone, SeekPcs
  <2>2. /\ curCyl'[driveData] < NumCyl
        /\ \A d \in Drives : d # driveData => curCyl'[d] = curCyl[d]
    BY <2>1, LimitAtRest DEF Exiting
  <2>3. lastArm'[driveData] < NumCyl
    BY <2>1 DEF ZeroInv
  <2> QED BY <1>3, <2>1, <2>2, <2>3 DEF SeekPcs
<1>19. CASE RequestCyl
  <2>1. driveData \in Drives /\ prupc = "sendarm" /\ prupc' = "waitcmd"
        /\ UNCHANGED <<driveData, curCyl>>
        /\ lastArm' = [lastArm EXCEPT ![driveData] = curCyl[driveData]]
        /\ curCyl[driveData] < NumCyl
    BY <1>1, <1>19 DEF RequestCyl, SendArmCyl, SeekPcs, ZeroInv
  <2> QED BY <1>0, <1>3, <2>1 DEF SeekPcs
<1>20. CASE ReadThread
  <2>1. CASE AckExit
    BY <2>1 DEF AckExit, pruVars, TurnInv, Turns, ZeroInv, SeekPcs, Exiting
  <2>2. CASE ~AckExit
    BY <1>2, <1>20, <2>2 DEF ReadThread, FetchCyl, FillDone, ExecCmd, CmdTaken, WaitEvent,
       ClearEvent, ReadDirty, ReadCurCyl, FlushDirty, DrivesDone, pruVars
  <2> QED BY <2>1, <2>2
<1>21. CASE Controller \/ StepRises \/ RequestExit \/ Join \/ PruShutdown \/ UNCHANGED vars
  BY <1>2, <1>21 DEF Controller, ChangeSelect, ChangeHead, StepFalls, Write, StepRises,
     RequestExit, Join, PruShutdown, vars, pruVars
<1> QED BY <1>4, <1>5, <1>6, <1>7, <1>8, <1>9, <1>10, <1>11, <1>12, <1>13, <1>14, <1>15, <1>16,
         <1>17, <1>18, <1>19, <1>20, <1>21 DEF Next, Pru0

\* A selected drive that shows seek complete shows track zero exactly on cylinder 0, for
\* the same controllers: also after a pulse that was too long to be a step, and wherever
\* they seek.
THEOREM TrackZeroTruthfulAlways ==
  ASSUME ~LineChangesDuringSeek, ~LongLaterPulses
  PROVE  Spec => []TrackZeroTruthful
<1>1. Init => ZeroInv
  BY SizesAssumption DEF Init, ZeroInv, SeekPcs, Exiting
<1>2. TypeInv /\ TurnInv /\ ZeroInv => TrackZeroTruthful
  <2> SUFFICES ASSUME TypeInv, TurnInv, ZeroInv, seekComplete,
                      prupc \in {"reading", "waitcmd", "waitstephigh2"}
               PROVE  trackZero = (curCyl[driveData] = 0)
    BY DEF TrackZeroTruthful
  <2>1. prupc # "waitcmd" /\ driveData \in Drives
    BY AtDrive DEF TurnInv, Disciplined, SeekPcs, Exiting
  <2> QED BY <2>1 DEF ZeroInv, ZeroOf, SeekPcs, Exiting
<1> QED BY <1>1, <1>2, ZeroNext, TurnsAlways, TypeAlways, PTL DEF Spec
=============================================================================
