------------------------------ MODULE EmuXfer ------------------------------
(***************************************************************************)
(* Data transfer in the drive emulator: PRU 0 (emu/prucode0.p) exchanges   *)
(* track data with the disk controller and PRU 1 (emu/prucode1.p) with the *)
(* DDR memory.  They talk through two scratchpad registers, each written   *)
(* by one PRU with its state and its offset in the queue, through the      *)
(* register TRACK_BIT, and through the shared RAM, which holds the queue   *)
(* of PWM words from PRU 1 while reading and the queue of deltas from      *)
(* PRU 0 while writing.                                                    *)
(*                                                                         *)
(* A word of the queue stands for a word of the track and is tagged with   *)
(* the place it comes from or is meant for; Zero ends a track or a write.  *)
(* A drive and a head are one track.  Seeks and the wait for the ARM       *)
(* (module EmuSeek) are the state "idle" of PRU 0.                         *)
(*                                                                         *)
(* Timing the code relies on is in the guards, by name: PRU 1 fills the    *)
(* queue long after PRU 0 has seen TRACK_BIT (FillIsSlow), it keeps ahead  *)
(* of the PWM output (WordReady) and of the controller's data              *)
(* (RoomForDelta), and it is done with a read that was broken off by the   *)
(* time a seek is over (ReadOver).                                         *)
(***************************************************************************)
EXTENDS Integers, FiniteSets

CONSTANTS Tracks,       \* The tracks of the cylinder the drives are on
          TrackWords,   \* Words of a track
          ReadSlots,    \* Words in SHARED_PWM_READ_MASK
          WriteSlots,   \* Words in SHARED_DELTAS_WRITE_MASK
          MaxOps,       \* Bound on the actions of the controller
          LinesSettle   \* The controller does not change the head, select and step
                        \* lines while it writes or right after that

ASSUME QueueAssumption == /\ TrackWords \in Nat \ {0}
                          /\ ReadSlots \in Nat \ 0 .. 2
                          /\ WriteSlots \in Nat \ {0}
                          /\ WriteSlots % ReadSlots = 0
                          /\ MaxOps \in Nat /\ LinesSettle \in BOOLEAN

VARIABLES
  selLine, stepLow, exitFlag, ops,  \* The controller's lines, PRU0_EXIT, and a bound
  ram,         \* The shared RAM
  p0state, p0off,  \* PRU0_STATE and PRU0_BUF_OFFSET as PRU 1 sees them
  p1state, p1off,  \* PRU1_STATE and PRU1_BUF_OFFSET
  bitReg,      \* The scratchpad copy of TRACK_BIT, in words
  curTrk,      \* PRU0_CUR_HEAD and the DRIVE_DATA sent: the track PRU 0 selected
  p0pc, off0,  \* Where PRU 0 is, and its own copy of its offset
  trackBit,    \* TRACK_BIT of PRU 0: the word it is at
  p1pc, p1trk, p1word,  \* Where PRU 1 is, TRACK_OFFSET, and the word it is at
  dirty,       \* The tracks whose PRU1_DRIVEd_TRK_DIRTY bit is set
  restarted    \* The read under way was started by the end of a write

lineVars == <<selLine, stepLow, exitFlag, ops>>
p0Vars == <<p0state, p0off, curTrk, p0pc, off0, trackBit>>
p1Vars == <<p1state, p1off, p1pc, p1trk, p1word, dirty, restarted>>
vars == <<lineVars, ram, bitReg, p0Vars, p1Vars>>

Words == 0 .. TrackWords - 1
Zero == [kind |-> "zero", trk |-> CHOOSE t \in Tracks : TRUE, word |-> 0]
Pwm(t, w) == [kind |-> "pwm", trk |-> t, word |-> w]
Delta(t, w) == [kind |-> "delta", trk |-> t, word |-> w]

TypeOK ==
  /\ selLine \in Tracks /\ stepLow \in BOOLEAN /\ exitFlag \in BOOLEAN /\ ops \in 0 .. MaxOps
  /\ ram \in [0 .. WriteSlots - 1 -> [kind : {"zero", "pwm", "delta"}, trk : Tracks, word : Words]]
  /\ p0state \in {"idle", "read", "readdone", "writewait", "write", "exit"}
  /\ p1state \in {"readdone", "bitset", "filled", "writewait", "write", "writedone"}
  /\ p0off \in 0 .. WriteSlots - 1 /\ off0 \in 0 .. WriteSlots - 1
  /\ p1off \in 0 .. WriteSlots - 1
  /\ p1pc \in {"bits", "free"} /\ ~restarted => p1off < ReadSlots
  /\ bitReg \in Words /\ trackBit \in 0 .. TrackWords
  /\ curTrk \in Tracks /\ p1trk \in Tracks /\ p1word \in Words
  /\ p0pc \in {"idle", "next", "waitbit", "waitfill", "read", "stopping", "stepping",
               "waitwrite", "capture", "writedone", "halted"}
  /\ p1pc \in {"waitread", "start", "setbit", "bits", "free", "finished", "writewait",
               "delta", "writedone", "done"}
  /\ dirty \in SUBSET Tracks /\ restarted \in BOOLEAN

\* The shared RAM starts with anything in it; zeros are the worst.
Init ==
  /\ selLine \in Tracks /\ stepLow = FALSE /\ exitFlag = FALSE /\ ops = 0
  /\ ram = [s \in 0 .. WriteSlots - 1 |-> Zero]
  /\ p0state = "idle" /\ p0off = 0 /\ p1state = "readdone" /\ p1off = 0
  /\ bitReg = 0 /\ curTrk = selLine
  /\ p0pc = "idle" /\ off0 = 0 /\ trackBit = 0
  /\ p1pc = "waitread" /\ p1trk = selLine /\ p1word = 0
  /\ dirty = {} /\ restarted = FALSE

NextReadNoWrap(s) == s + 1
NextRead(s) == (s + 1) % ReadSlots
NextWrite(s) == (s + 1) % WriteSlots
-----------------------------------------------------------------------------
(***************************************************************************)
(* PRU 0.                                                                  *)
(***************************************************************************)
\* XOUT 10, PRU0_BUF_STATE
Send0(state, off) == p0state' = state /\ p0off' = off /\ off0' = off

\* The ARM has answered, or a drive is selected
Proceed ==
  /\ p0pc = "idle"
  /\ p0pc' = "next"
  /\ UNCHANGED <<lineVars, ram, bitReg, p0state, p0off, off0, curTrk, trackBit, p1Vars>>

ReadOver == p1pc \in {"waitread", "writedone"}

\* next_mfmb found no line changed; sendtrack
SendTrack ==
  /\ p0pc = "next" /\ ReadOver
  /\ ~stepLow /\ selLine = curTrk
  /\ Send0("read", 0)
  /\ p0pc' = "waitbit"
  /\ UNCHANGED <<lineVars, ram, bitReg, curTrk, trackBit, p1Vars>>

\* wait_bit_set
GetTrackBit ==
  /\ p0pc = "waitbit" /\ p1state = "bitset"
  /\ trackBit' = bitReg
  /\ p0pc' = "waitfill"
  /\ UNCHANGED <<lineVars, ram, bitReg, p0state, p0off, off0, curTrk, p1Vars>>

\* no_time_err: the time of the first word has come
StartOutput ==
  /\ p0pc = "waitfill" /\ p1state = "filled"
  /\ p0pc' = "read"
  /\ UNCHANGED <<lineVars, ram, bitReg, p0state, p0off, off0, curTrk, trackBit, p1Vars>>

\* PRU 1 keeps at least one word ahead, so that equal offsets always mean a full queue
WordReady == NextRead(off0) # p1off

\* read: the next word goes to the PWM unit and adds its bits to TRACK_BIT; a stale delta
\* has none.  At the end mark the offset is not sent, and PRU0_EXIT is looked at.
OutputWord ==
  /\ p0pc = "read" /\ WordReady
  /\ off0' = NextRead(off0)
  /\ trackBit' = CASE ram[off0].kind = "zero" -> 0
                   [] ram[off0].kind = "pwm" -> trackBit + 1
                   [] OTHER -> trackBit
  /\ IF ram[off0].kind = "zero" /\ ~exitFlag
     THEN UNCHANGED p0off ELSE p0off' = NextRead(off0)
  /\ IF ram[off0].kind = "zero" /\ exitFlag
     THEN p0state' = "exit" /\ p0pc' = "halted" ELSE UNCHANGED <<p0state, p0pc>>
  /\ UNCHANGED <<lineVars, ram, bitReg, curTrk, p1Vars>>

\* select and handle_head: PRU 1 is told to stop and the new head is read
SelectChange ==
  /\ p0pc \in {"next", "read"} /\ selLine # curTrk
  /\ p0state' = "readdone" /\ p0off' = off0
  /\ curTrk' = selLine
  /\ p0pc' = "stopping"
  /\ UNCHANGED <<lineVars, ram, bitReg, off0, trackBit, p1Vars>>

\* selected: until PRU 1 has stopped; then data, or the command waited for
Stopped ==
  /\ p0pc = "stopping" /\ p1state = "readdone"
  /\ p0pc' \in {"next", "idle"}
  /\ UNCHANGED <<lineVars, ram, bitReg, p0state, p0off, off0, curTrk, trackBit, p1Vars>>

\* step
Step ==
  /\ p0pc \in {"next", "waitbit", "waitfill", "read"} /\ stepLow
  /\ p0state' = "readdone" /\ p0off' = off0
  /\ p0pc' = "stepping"
  /\ UNCHANGED <<lineVars, ram, bitReg, off0, curTrk, trackBit, p1Vars>>

\* step_done_lp, then the seek
StepDone ==
  /\ p0pc = "stepping" /\ p1state = "readdone"
  /\ stepLow' = FALSE
  /\ p0pc' = "idle"
  /\ UNCHANGED <<selLine, exitFlag, ops, ram, bitReg, p0state, p0off, off0, curTrk, trackBit,
                 p1Vars>>

\* EXIT
SeeExit ==
  /\ p0pc \in {"idle", "stopping"} /\ exitFlag
  /\ Send0("exit", off0)
  /\ p0pc' = "halted"
  /\ UNCHANGED <<lineVars, ram, bitReg, curTrk, trackBit, p1Vars>>

\* Faulty variant: deltas are sent before PRU 1 has stopped to send PWM words
WriteReadyAtOnce ==
  /\ p0pc = "waitwrite"
  /\ p0state' = "write"
  /\ p0pc' = "capture"
  /\ UNCHANGED <<lineVars, ram, bitReg, p0off, off0, curTrk, trackBit, p1Vars>>

\* wait_pru1_write
WriteReady ==
  /\ p0pc = "waitwrite" /\ p1state = "writewait"
  /\ p0state' = "write"
  /\ p0pc' = "capture"
  /\ UNCHANGED <<lineVars, ram, bitReg, p0off, off0, curTrk, trackBit, p1Vars>>

\* sendwrite
Push(item) ==
  /\ ram' = [ram EXCEPT ![off0] = item]
  /\ off0' = NextWrite(off0) /\ p0off' = NextWrite(off0)

RoomForDelta == NextWrite(off0) # p1off

\* write_done: the write gate has gone off, and the end of the data is sent
EndWrite ==
  /\ p0pc = "capture" /\ RoomForDelta
  /\ Push(Zero)
  /\ p0pc' = "writedone"
  /\ UNCHANGED <<lineVars, bitReg, p0state, curTrk, trackBit, p1Vars>>

\* write_done_lp
WriteDone ==
  /\ p0pc = "writedone" /\ p1state = "writedone"
  /\ p0pc' = "next"
  /\ UNCHANGED <<lineVars, ram, bitReg, p0state, p0off, off0, curTrk, trackBit, p1Vars>>

Pru0 == \/ Proceed \/ SendTrack \/ GetTrackBit \/ StartOutput \/ OutputWord
        \/ SelectChange \/ Stopped \/ Step \/ StepDone \/ SeeExit
        \/ WriteReady \/ EndWrite \/ WriteDone
-----------------------------------------------------------------------------
(***************************************************************************)
(* PRU 1.                                                                  *)
(***************************************************************************)
\* Faulty variant: only a read ends the wait
WaitReadOnly ==
  /\ p1pc = "waitread" /\ p0state = "read"
  /\ p1pc' = "start"
  /\ UNCHANGED <<lineVars, ram, bitReg, p0Vars, p1state, p1off, p1trk, p1word, dirty, restarted>>

\* wait_read_lp
WaitRead ==
  /\ p1pc = "waitread"
  /\ \/ p0state = "read" /\ p1pc' = "start"
     \/ p0state = "exit" /\ p1pc' = "done"
  /\ UNCHANGED <<lineVars, ram, bitReg, p0Vars, p1state, p1off, p1trk, p1word, dirty, restarted>>

\* DRIVE_DATA and PRU0_CUR_HEAD give the track
GetTrack ==
  /\ p1pc = "start"
  /\ p1trk' = curTrk
  /\ p1pc' = "setbit"
  /\ UNCHANGED <<lineVars, ram, bitReg, p0Vars, p1state, p1off, p1word, dirty, restarted>>

\* The rotation time, any word of the track, gives the place where to start
SetTrackBit ==
  /\ p1pc = "setbit"
  /\ \E w \in Words : p1word' = w /\ bitReg' = w
  /\ p1state' = "bitset" /\ p1off' = 0
  /\ p1pc' = "bits"
  /\ restarted' = FALSE
  /\ UNCHANGED <<lineVars, ram, p0Vars, p1trk, dirty>>

\* bitloop: look up and store the PWM word; the last word of the track is followed by
\* the end mark
StoreWord ==
  /\ p1pc = "bits"
  /\ ram' = [ram EXCEPT ![p1off] = Pwm(p1trk, p1word)]
  /\ p1off' = NextRead(p1off)
  /\ p1word' = (p1word + 1) % TrackWords
  /\ p1pc' = IF p1word = TrackWords - 1 THEN "finished" ELSE "free"
  /\ UNCHANGED <<lineVars, bitReg, p0Vars, p1state, p1trk, dirty, restarted>>

\* Equal offsets mean a full queue here.  PRU 0 polls for TRACK_BIT in a few cycles,
\* DMA and the first words take PRU 1 microseconds.
FillIsSlow == p0pc # "waitbit"

\* Faulty variant: the queue is filled one word further
WaitFreeAnyway ==
  /\ p1pc = "free" /\ p0state = "read"
  /\ p1pc' = "bits"
  /\ p1state' = IF p0off = p1off /\ FillIsSlow THEN "filled" ELSE p1state
  /\ UNCHANGED <<lineVars, ram, bitReg, p0Vars, p1off, p1trk, p1word, dirty, restarted>>

\* waitfree
WaitFree ==
  /\ p1pc = "free" /\ p0state = "read"
  /\ IF p0off # p1off
     THEN p1pc' = "bits" /\ UNCHANGED p1state
     ELSE FillIsSlow /\ p1state # "filled" /\ p1state' = "filled" /\ UNCHANGED p1pc
  /\ UNCHANGED <<lineVars, ram, bitReg, p0Vars, p1off, p1trk, p1word, dirty, restarted>>

\* finished
StoreEnd ==
  /\ p1pc = "finished" /\ p0state = "read"
  /\ IF p0off # p1off
     THEN /\ ram' = [ram EXCEPT ![p1off] = Zero]
          /\ p1off' = NextRead(p1off)
          /\ p1pc' = "free"
          /\ UNCHANGED p1state
     ELSE /\ FillIsSlow /\ p1state # "filled"
          /\ p1state' = "filled"
          /\ UNCHANGED <<ram, p1off, p1pc>>
  /\ UNCHANGED <<lineVars, bitReg, p0Vars, p1trk, p1word, dirty, restarted>>

\* Faulty variant: PRU 1 goes on waiting for room when the read is broken off
LeaveReadExitOnly ==
  /\ p1pc \in {"free", "finished"} /\ p0state = "exit"
  /\ p1pc' = "done"
  /\ UNCHANGED <<lineVars, ram, bitReg, p0Vars, p1state, p1off, p1trk, p1word, dirty, restarted>>

\* check_write: PRU 0 broke off the read or exits
LeaveRead ==
  /\ p1pc \in {"free", "finished"}
  /\ \/ p0state = "exit" /\ p1pc' = "done" /\ UNCHANGED <<p1state, p1off>>
     \/ p0state = "readdone" /\ p1pc' = "waitread" /\ p1state' = "readdone" /\ p1off' = 0
  /\ UNCHANGED <<lineVars, ram, bitReg, p0Vars, p1trk, p1word, dirty, restarted>>

\* Faulty variant: the dirty bit is not set
DoWriteClean ==
  /\ p1pc \in {"free", "finished"} /\ p0state = "writewait"
  /\ p1word' = bitReg
  /\ p1off' = 0
  /\ p1state' = "writewait"
  /\ p1pc' = "writewait"
  /\ UNCHANGED <<lineVars, ram, bitReg, p0Vars, p1trk, dirty, restarted>>

\* Faulty variant: the offset stays where the PWM words ended
DoWriteOffset ==
  /\ p1pc \in {"free", "finished"} /\ p0state = "writewait"
  /\ dirty' = dirty \cup {curTrk}
  /\ p1word' = bitReg
  /\ p1state' = "writewait"
  /\ p1pc' = "writewait"
  /\ UNCHANGED <<lineVars, ram, bitReg, p0Vars, p1trk, p1off, restarted>>

\* do_write
DoWrite ==
  /\ p1pc \in {"free", "finished"} /\ p0state = "writewait"
  /\ dirty' = dirty \cup {curTrk}
  /\ p1word' = bitReg
  /\ p1off' = 0
  /\ p1state' = "writewait"
  /\ p1pc' = "writewait"
  /\ UNCHANGED <<lineVars, ram, bitReg, p0Vars, p1trk, restarted>>

\* write_wait_lp
StartWrite ==
  /\ p1pc = "writewait" /\ p0state = "write"
  /\ p1state' = "write"
  /\ p1pc' = "delta"
  /\ UNCHANGED <<lineVars, ram, bitReg, p0Vars, p1off, p1trk, p1word, dirty, restarted>>

\* delta_loop: store the data at the word PRU 1 is at, wrapping at the end of the track
TakeDelta ==
  /\ p1pc = "delta" /\ p0off # p1off
  /\ IF ram[p1off].kind = "zero"
     THEN /\ p1state' = "writedone"
          /\ p1pc' = "writedone"
          /\ UNCHANGED <<p1off, p1word>>
     ELSE /\ p1off' = NextWrite(p1off)
          /\ p1word' = (p1word + 1) % TrackWords
          /\ UNCHANGED <<p1state, p1pc>>
  /\ UNCHANGED <<lineVars, ram, bitReg, p0Vars, p1trk, dirty, restarted>>

\* write_done_wait: PRU 0 reads again, from where the disk has turned to by now
RestartRead ==
  /\ p1pc = "writedone" /\ p0state = "read"
  /\ \E w \in Words : p1word' = w /\ bitReg' = w
  /\ p1state' = "bitset"
  /\ p1pc' = "bits"
  /\ restarted' = TRUE
  /\ UNCHANGED <<lineVars, ram, p0Vars, p1off, p1trk, dirty>>

Pru1 == \/ WaitRead \/ GetTrack \/ SetTrackBit \/ StoreWord \/ WaitFree \/ StoreEnd
        \/ LeaveRead \/ DoWrite \/ StartWrite \/ TakeDelta \/ RestartRead
-----------------------------------------------------------------------------
(***************************************************************************)
(* The disk controller and the user.                                       *)
(***************************************************************************)
Operate == ops < MaxOps /\ ops' = ops + 1

\* A controller that lets the lines settle gives the drive time to go back to reading
\* after a write
MayChangeLines ==
  LinesSettle => p0pc \notin {"waitwrite", "capture", "writedone"} /\ p1pc # "writedone"

ChangeTrack ==
  /\ Operate /\ ~stepLow /\ MayChangeLines
  /\ \E t \in Tracks \ {selLine} : selLine' = t
  /\ UNCHANGED <<stepLow, exitFlag, ram, bitReg, p0Vars, p1Vars>>

StepFalls ==
  /\ Operate /\ ~stepLow /\ MayChangeLines
  /\ p0pc # "idle" /\ selLine = curTrk
  /\ stepLow' = TRUE
  /\ UNCHANGED <<selLine, exitFlag, ram, bitReg, p0Vars, p1Vars>>

\* The write gate goes on while data is sent, after PRU 0 has seen the other lines.  The
\* end mark follows the last word at once, with no look at the lines in between.
BeginWrite ==
  /\ Operate /\ p0pc = "read" /\ trackBit < TrackWords
  /\ selLine = curTrk /\ ~stepLow
  /\ bitReg' = trackBit
  /\ Send0("writewait", 0)
  /\ p0pc' = "waitwrite"
  /\ UNCHANGED <<selLine, stepLow, exitFlag, ram, curTrk, trackBit, p1Vars>>

WriteData ==
  /\ Operate /\ p0pc = "capture" /\ RoomForDelta
  /\ Push(Delta(curTrk, trackBit))
  /\ trackBit' = (trackBit + 1) % TrackWords
  /\ UNCHANGED <<selLine, stepLow, exitFlag, bitReg, p0state, curTrk, p0pc, p1Vars>>

RequestExit ==
  /\ ~exitFlag /\ exitFlag' = TRUE
  /\ UNCHANGED <<selLine, stepLow, ops, ram, bitReg, p0Vars, p1Vars>>

Next == \/ Pru0 \/ Pru1 \/ ChangeTrack \/ StepFalls \/ BeginWrite \/ WriteData \/ RequestExit

Spec == Init /\ [][Next]_vars

\* Both PRUs run and the controller ends the writes it begins.
FairSpec == Spec /\ WF_vars(Pru0) /\ WF_vars(Pru1)
-----------------------------------------------------------------------------
(***************************************************************************)
(* Properties.                                                             *)
(***************************************************************************)

\* The word PRU 0 outputs next is the word of the selected track at TRACK_BIT, or the
\* end mark after the last one: no word is lost, repeated or taken from another head.
NextIsRight ==
  p0pc = "read" /\ WordReady /\ selLine = curTrk
    => ram[off0] = IF trackBit = TrackWords THEN Zero ELSE Pwm(curTrk, trackBit)
ReadsInOrder == NextIsRight

\* The same for the reads that are not started by the end of a write.
FreshReadsInOrder == restarted \/ NextIsRight

\* The data of a write is stored where the heads were when it came from the controller.
WritesLand ==
  p1pc = "delta" /\ p0off # p1off /\ ram[p1off] # Zero => ram[p1off] = Delta(p1trk, p1word)

\* The track that PRU 1 writes to is marked for the ARM.
DirtyCoversWrite == p1pc \in {"delta", "writedone"} => p1trk \in dirty

\* The two PRUs never store in the shared RAM at the same time.
OneProducer == p0pc \in {"capture", "writedone"} => p1pc \in {"writewait", "delta", "writedone"}

\* PRU 1 stops when PRU 0 waits for that after a change of head or select, or a step.
StopAcknowledged == (p0pc \in {"stopping", "stepping"}) ~> (p0pc \notin {"stopping", "stepping"})

\* When PRU 0 has exited PRU 1 exits too: shutdown() waits for both.
ExitStopsBoth == (p0pc = "halted") ~> (p1pc = "done")
=============================================================================
