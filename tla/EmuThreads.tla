----------------------------- MODULE EmuThreads -----------------------------
(***************************************************************************)
(* The ARM side of the drive emulator, emu/mfm_emu.c: the read thread      *)
(* (emu_proc) that keeps one cylinder of every drive in the DDR memory the *)
(* PRUs read and write, the write thread (emu_proc_write) that rewrites    *)
(* dirty tracks in the image file, the circular track buffer between them, *)
(* and shutdown().                                                         *)
(*                                                                         *)
(* The PRUs appear through the words they share with the ARM and under the *)
(* contract the read thread relies on: they change the DDR data only       *)
(* between taking CMD_START and the next interrupt.  EmuSeek models PRU 0  *)
(* in full and shows when it keeps that contract.                          *)
(*                                                                         *)
(* Atomicity: each action is one access to a word another party changes.   *)
(* A track moves to the file in two steps, with the file's copy Torn in    *)
(* between, and the cylinder is read from the file track by track, so the  *)
(* read thread may see any mixture of old, new and torn tracks.            *)
(***************************************************************************)
EXTENDS Integers, FiniteSets

CONSTANTS NumDrives,    \* drive_params->num_drives
          NumCyl,       \* emu_file_info[i].num_cyl, the same for all drives
          NumHead,      \* emu_file_info[i].num_head, the same for all drives
          BufferCount,  \* drive_params->buffer_count, entries of track_buffer
          Data,         \* What a track may hold
          Torn,         \* A track in the middle of a pwrite()
          NotSaved,     \* The image of the abstract store before it is closed
          MaxOps        \* Bound on the steps of the disk controller

ASSUME SizesAssumption == /\ NumDrives \in Nat \ {0}
                          /\ NumCyl \in Nat \ {0}
                          /\ NumHead \in Nat \ {0}
                          /\ BufferCount \in Nat \ {0}
                          /\ MaxOps \in Nat

ASSUME DataAssumption == Data # {} /\ Torn \notin Data

Drives == 0 .. NumDrives - 1
Cyls == 0 .. NumCyl - 1
Heads == 0 .. NumHead - 1
Slots == 0 .. BufferCount - 1

NoCyl == -1         \* Initial value of cyl[]; in CUR_CYL the request to exit
ExitMarker == -1    \* Drive of the entry that tells the write thread to exit
BadHead == NumHead  \* Stands for head 15: the controller selects no such track

VARIABLES
  \* Words and memory shared with the PRUs
  cmd,          \* PRU0_CMD: "start", or "ok" once PRU 0 has taken it
  evt,          \* PRU_EVTOUT_0 is pending
  curCyl,       \* curCyl[d]: PRU0_DRIVEd_CUR_CYL
  trkDirty,     \* trkDirty[d]: the tracks whose PRU1_DRIVEd_TRK_DIRTY bit is set
  ddr,          \* ddr[d][h]: the cylinder buffer of the drive in DDR memory
  exitFlag,     \* PRU0_EXIT
  \* The PRUs
  pru,          \* What the PRUs are doing
  lastArm,      \* lastArm[d]: PRU0_DRIVEd_LAST_ARM_CYL
  ops,          \* Steps of the controller so far, at most MaxOps: bounds the state space
  \* The circular track buffer
  trackBuffer,  \* trackBuffer[s]: drive, cyl, head and buf of entry s
  get, put,     \* track_buffer_get, track_buffer_put
  writeSem,     \* write_sem
  \* emu_proc
  rpc,          \* Where the read thread is
  drv, trk,     \* Its loop variables i and trk
  cyl, newCyl,  \* cyl[], new_cyl[]
  data,         \* data[i] while a cylinder is assembled
  getHold, index, dirty, done,
  \* emu_proc_write
  wpc,          \* Where the write thread is
  file,         \* file[d][c][h]: the track in the image file
  \* shutdown()
  spc           \* Where the thread that runs it is

sharedVars == <<cmd, evt, curCyl, trkDirty, ddr>>
pruVars == <<pru, lastArm, ops>>
bufferVars == <<trackBuffer, get, put, writeSem>>
readerVars == <<rpc, drv, trk, cyl, newCyl, data, getHold, index, dirty, done>>
writerVars == <<wpc, file>>
vars == <<sharedVars, exitFlag, pruVars, bufferVars, readerVars, writerVars, spc>>

\* A local that holds no value any more: the model clears the read thread's locals
\* when the code is done with them, so that states do not differ by them.
Garbage == [h \in Heads |-> Torn]

Track == [Heads -> Data \cup {Torn}]
Entry == [drive : Drives \cup {ExitMarker}, cyl : Cyls \cup {NoCyl},
          head : Heads, buf : Data \cup {Torn}]

ReadPcs == {"fetch", "pread", "overlay", "cmd", "spin", "wait", "clear", "dirty",
            "cyl", "undirty", "scan", "put", "post", "finish", "mark", "markpost",
            "done"}
WritePcs == {"sem", "check", "rewrite", "advance", "close", "closed"}
PruStates == {"init", "waiting", "serving", "exitcmd", "exitcyl0", "exitcyl1",
              "exitint", "halted"}

SharedOK ==
  /\ cmd \in {"start", "ok"} /\ evt \in BOOLEAN /\ exitFlag \in BOOLEAN
  /\ curCyl \in [Drives -> Cyls \cup {NoCyl}]
  /\ trkDirty \in [Drives -> SUBSET (Heads \cup {BadHead})]
  /\ ddr \in [Drives -> Track]

PruOK ==
  /\ pru \in PruStates
  /\ lastArm \in [Drives -> Cyls]
  /\ ops \in 0 .. MaxOps

BufferOK ==
  /\ trackBuffer \in [Slots -> Entry]
  /\ get \in Slots
  /\ put \in Slots
  /\ writeSem \in Nat

ReaderOK ==
  /\ rpc \in ReadPcs
  /\ drv \in 0 .. NumDrives
  /\ trk \in 0 .. NumHead
  /\ cyl \in [Drives -> Cyls \cup {NoCyl}]
  /\ newCyl \in [Drives -> Cyls \cup {NoCyl}]
  /\ data \in Track
  /\ getHold \in Slots
  /\ index \in Slots
  /\ dirty \in SUBSET (Heads \cup {BadHead})
  /\ done \in BOOLEAN

WriterOK ==
  /\ wpc \in WritePcs
  /\ file \in [Drives -> [Cyls -> Track]]

ShutdownOK == spc \in {"running", "joinwrite", "joinread", "waitpru", "down"}

TypeOK == SharedOK /\ PruOK /\ BufferOK /\ ReaderOK /\ WriterOK /\ ShutdownOK

(***************************************************************************)
(* At the start the image holds some data, the cylinder buffers hold the   *)
(* fill pattern (any data), CUR_CYL and LAST_ARM_CYL have been cleared by  *)
(* PRU 0, and new_cyl[] = 0 # cyl[] = -1 forces a first transfer.          *)
(***************************************************************************)
Init ==
  /\ file \in [Drives -> [Cyls -> [Heads -> Data]]]
  /\ \E v \in Data :
       /\ ddr = [d \in Drives |-> [h \in Heads |-> v]]
       /\ trackBuffer = [s \in Slots |->
                           [drive |-> 0, cyl |-> 0, head |-> 0, buf |-> v]]
  /\ data = Garbage
  /\ cmd = "ok" /\ evt = FALSE /\ exitFlag = FALSE
  /\ curCyl = [d \in Drives |-> 0]
  /\ lastArm = [d \in Drives |-> 0]
  /\ trkDirty = [d \in Drives |-> {}]
  /\ pru = "init" /\ ops = 0
  /\ get = 0 /\ put = 0 /\ writeSem = 0
  /\ rpc = "fetch" /\ drv = 0 /\ trk = 0
  /\ cyl = [d \in Drives |-> NoCyl]
  /\ newCyl = [d \in Drives |-> 0]
  /\ getHold = 0 /\ index = 0 /\ dirty = {} /\ done = FALSE
  /\ wpc = "sem"
  /\ spc = "running"

(***************************************************************************)
(* The circular buffer.                                                    *)
(***************************************************************************)
\* Faulty variant: the index does not wrap
NextSlotNoWrap(s) == s + 1

NextSlot(s) == (s + 1) % BufferCount

\* track_buffers_used(): the entries published and not yet released
BuffersUsed == IF put - get < 0 THEN put - get + BufferCount ELSE put - get

\* Faulty variant: a full buffer is not noticed
UpdateBufferNoWait(d, c, h) ==
  /\ trackBuffer' = [trackBuffer EXCEPT ![put].drive = d,
                                        ![put].cyl = c,
                                        ![put].head = h]
  /\ put' = NextSlot(put)
  /\ UNCHANGED <<get, writeSem>>

\* Faulty variant: two entries instead of one are kept free
UpdateBufferKeepTwo(d, c, h) == BuffersUsed < BufferCount - 2 /\ UpdateBufferNoWait(d, c, h)

\* update_buffer() up to sem_post(): waits while no entry is free.  The data is in
\* the entry's buf already; the size is left out, all tracks have the same.
UpdateBuffer(d, c, h) ==
  /\ NextSlot(put) # get
  /\ trackBuffer' = [trackBuffer EXCEPT ![put].drive = d,
                                        ![put].cyl = c,
                                        ![put].head = h]
  /\ put' = NextSlot(put)
  /\ UNCHANGED <<get, writeSem>>

\* Faulty variant: the write thread is only told when the buffer was empty
PostSemIfEmpty == /\ writeSem' = IF BuffersUsed = 1 THEN writeSem + 1 ELSE writeSem
                  /\ UNCHANGED <<trackBuffer, get, put>>

PostSem == /\ writeSem' = writeSem + 1
           /\ UNCHANGED <<trackBuffer, get, put>>

-----------------------------------------------------------------------------
(***************************************************************************)
(* The read thread: emu_proc().                                            *)
(***************************************************************************)

\* Top of the first for loop: a drive whose cylinder changed has the new one
\* fetched; cyl[] is set first, then send_PRU_cyl_data() notes track_buffer_get.
FetchCyl ==
  /\ rpc = "fetch" /\ drv < NumDrives
  /\ IF newCyl[drv] # cyl[drv]
     THEN /\ cyl' = [cyl EXCEPT ![drv] = newCyl[drv]]
          /\ getHold' = get
          /\ rpc' = "pread" /\ trk' = 0
          /\ UNCHANGED drv
     ELSE /\ drv' = drv + 1
          /\ UNCHANGED <<cyl, getHold, rpc, trk>>
  /\ UNCHANGED <<sharedVars, exitFlag, pruVars, bufferVars, writerVars, spc, newCyl, data,
                 index, dirty, done>>

\* emu_file_read_cyl(), one track of the cylinder
ReadTrack ==
  /\ rpc = "pread" /\ trk < NumHead
  /\ data' = [data EXCEPT ![trk] = file[drv][cyl[drv]][trk]]
  /\ trk' = trk + 1
  /\ UNCHANGED <<sharedVars, exitFlag, pruVars, bufferVars, writerVars, spc, rpc, drv, cyl,
                 newCyl, getHold, index, dirty, done>>

\* Faulty variant: track_buffer_get is noted after the file was read
StartOverlayLate ==
  /\ rpc = "pread" /\ trk = NumHead
  /\ index' = get
  /\ rpc' = "overlay"
  /\ UNCHANGED <<sharedVars, exitFlag, pruVars, bufferVars, writerVars, spc, drv, trk, cyl,
                 newCyl, data, getHold, dirty, done>>

StartOverlay ==
  /\ rpc = "pread" /\ trk = NumHead
  /\ index' = getHold
  /\ rpc' = "overlay"
  /\ UNCHANGED <<sharedVars, exitFlag, pruVars, bufferVars, writerVars, spc, drv, trk, cyl,
                 newCyl, data, getHold, dirty, done>>

\* One round of the loop that copies buffered tracks of the cylinder
OverlayEntry ==
  /\ rpc = "overlay" /\ index # put
  /\ LET e == trackBuffer[index]
     IN  data' = IF e.drive = drv /\ e.cyl = cyl[drv]
                 THEN [data EXCEPT ![e.head] = e.buf]
                 ELSE data
  /\ index' = NextSlot(index)
  /\ UNCHANGED <<sharedVars, exitFlag, pruVars, bufferVars, writerVars, spc, rpc, drv, trk,
                 cyl, newCyl, getHold, dirty, done>>

\* pru_write_mem() of the assembled cylinder, then the next drive
SendCyl ==
  /\ rpc = "overlay" /\ index = put
  /\ ddr' = [ddr EXCEPT ![drv] = data]
  /\ drv' = drv + 1
  /\ data' = Garbage /\ trk' = 0 /\ getHold' = 0 /\ index' = 0
  /\ rpc' = "fetch"
  /\ UNCHANGED <<cmd, evt, curCyl, trkDirty, exitFlag, pruVars, bufferVars, writerVars, spc,
                 cyl, newCyl, dirty, done>>

FetchDone ==
  /\ rpc = "fetch" /\ drv = NumDrives
  /\ rpc' = "cmd"
  /\ UNCHANGED <<sharedVars, exitFlag, pruVars, bufferVars, writerVars, spc, drv, trk, cyl,
                 newCyl, data, getHold, index, dirty, done>>

\* pru_exec_cmd(CMD_START): write the command, then spin until it changes
ExecCmd ==
  /\ rpc = "cmd"
  /\ cmd' = "start"
  /\ rpc' = "spin"
  /\ UNCHANGED <<evt, curCyl, trkDirty, ddr, exitFlag, pruVars, bufferVars, writerVars, spc,
                 drv, trk, cyl, newCyl, data, getHold, index, dirty, done>>

CmdTaken ==
  /\ rpc = "spin" /\ cmd # "start"
  /\ rpc' = "wait"
  /\ UNCHANGED <<sharedVars, exitFlag, pruVars, bufferVars, writerVars, spc, drv, trk, cyl,
                 newCyl, data, getHold, index, dirty, done>>

\* prussdrv_pru_wait_event(), then prussdrv_pru_clear_event(): an interrupt raised
\* between the two is cleared with the first.
WaitEvent ==
  /\ rpc = "wait" /\ evt
  /\ rpc' = "clear"
  /\ UNCHANGED <<sharedVars, exitFlag, pruVars, bufferVars, writerVars, spc, drv, trk, cyl,
                 newCyl, data, getHold, index, dirty, done>>

ClearEvent ==
  /\ rpc = "clear"
  /\ evt' = FALSE
  /\ drv' = 0
  /\ rpc' = "dirty"
  /\ UNCHANGED <<cmd, curCyl, trkDirty, ddr, exitFlag, pruVars, bufferVars, writerVars, spc,
                 trk, cyl, newCyl, data, getHold, index, dirty, done>>

ReadDirty ==
  /\ rpc = "dirty" /\ drv < NumDrives
  /\ dirty' = trkDirty[drv]
  /\ rpc' = "cyl"
  /\ UNCHANGED <<sharedVars, exitFlag, pruVars, bufferVars, writerVars, spc, drv, trk, cyl,
                 newCyl, data, getHold, index, done>>

ReadCurCyl ==
  /\ rpc = "cyl"
  /\ newCyl' = [newCyl EXCEPT ![drv] = curCyl[drv]]
  /\ done' = (done \/ curCyl[drv] = NoCyl)
  /\ IF dirty # {}
     THEN rpc' = "undirty" /\ UNCHANGED drv
     ELSE rpc' = "dirty" /\ drv' = drv + 1
  /\ UNCHANGED <<sharedVars, exitFlag, pruVars, bufferVars, writerVars, spc, trk, cyl, data,
                 getHold, index, dirty>>

ClearDirty ==
  /\ rpc = "undirty"
  /\ trkDirty' = [trkDirty EXCEPT ![drv] = {}]
  /\ trk' = 0
  /\ rpc' = "scan"
  /\ UNCHANGED <<cmd, evt, curCyl, ddr, exitFlag, pruVars, bufferVars, writerVars, spc, drv,
                 cyl, newCyl, data, getHold, index, dirty, done>>

\* The loop over the tracks: a dirty one is copied to the buf of entry put, before
\* update_buffer() has made sure that the entry is free.
CopyTrack ==
  /\ rpc = "scan" /\ trk < NumHead
  /\ IF trk \in dirty
     THEN /\ trackBuffer' = [trackBuffer EXCEPT ![put].buf = ddr[drv][trk]]
          /\ rpc' = "put"
          /\ UNCHANGED trk
     ELSE /\ trk' = trk + 1
          /\ UNCHANGED <<trackBuffer, rpc>>
  /\ UNCHANGED <<sharedVars, exitFlag, pruVars, get, put, writeSem, writerVars, spc, drv,
                 cyl, newCyl, data, getHold, index, dirty, done>>

ScanDone ==
  /\ rpc = "scan" /\ trk = NumHead
  /\ drv' = drv + 1
  /\ trk' = 0 /\ dirty' = {}
  /\ rpc' = "dirty"
  /\ UNCHANGED <<sharedVars, exitFlag, pruVars, bufferVars, writerVars, spc, cyl, newCyl,
                 data, getHold, index, done>>

PutTrack ==
  /\ rpc = "put"
  /\ UpdateBuffer(drv, cyl[drv], trk)
  /\ rpc' = "post"
  /\ UNCHANGED <<sharedVars, exitFlag, pruVars, writerVars, spc, drv, trk, cyl, newCyl,
                 data, getHold, index, dirty, done>>

PostTrack ==
  /\ rpc = "post"
  /\ PostSem
  /\ trk' = trk + 1
  /\ rpc' = "scan"
  /\ UNCHANGED <<sharedVars, exitFlag, pruVars, writerVars, spc, drv, cyl, newCyl, data,
                 getHold, index, dirty, done>>

\* End of the while loop: another round, or done
DrivesDone ==
  /\ rpc = "dirty" /\ drv = NumDrives
  /\ IF done THEN rpc' = "finish" /\ UNCHANGED drv
             ELSE rpc' = "fetch" /\ drv' = 0
  /\ UNCHANGED <<sharedVars, exitFlag, pruVars, bufferVars, writerVars, spc, trk, cyl,
                 newCyl, data, getHold, index, dirty, done>>

\* Tell the PRU that its exit was seen
AckExit ==
  /\ rpc = "finish"
  /\ curCyl' = [curCyl EXCEPT ![0] = 0]
  /\ rpc' = "mark"
  /\ UNCHANGED <<cmd, evt, trkDirty, ddr, exitFlag, pruVars, bufferVars, writerVars, spc,
                 drv, trk, cyl, newCyl, data, getHold, index, dirty, done>>

PutMarker ==
  /\ rpc = "mark"
  /\ UpdateBuffer(ExitMarker, 0, 0)
  /\ rpc' = "markpost"
  /\ UNCHANGED <<sharedVars, exitFlag, pruVars, writerVars, spc, drv, trk, cyl, newCyl,
                 data, getHold, index, dirty, done>>

\* Faulty variant: the exit marker is left in the buffer without a sem_post()
PostMarkerSilent ==
  /\ rpc = "markpost"
  /\ rpc' = "done"
  /\ UNCHANGED <<sharedVars, exitFlag, pruVars, bufferVars, writerVars, spc, drv, trk, cyl,
                 newCyl, data, getHold, index, dirty, done>>

PostMarker ==
  /\ rpc = "markpost"
  /\ PostSem
  /\ rpc' = "done"
  /\ UNCHANGED <<sharedVars, exitFlag, pruVars, writerVars, spc, drv, trk, cyl, newCyl,
                 data, getHold, index, dirty, done>>

ReadThread ==
  \/ FetchCyl \/ ReadTrack \/ StartOverlay \/ OverlayEntry \/ SendCyl \/ FetchDone
  \/ ExecCmd \/ CmdTaken \/ WaitEvent \/ ClearEvent
  \/ ReadDirty \/ ReadCurCyl \/ ClearDirty \/ CopyTrack \/ ScanDone
  \/ PutTrack \/ PostTrack \/ DrivesDone
  \/ AckExit \/ PutMarker \/ PostMarker

-----------------------------------------------------------------------------
(***************************************************************************)
(* The write thread: emu_proc_write().                                     *)
(***************************************************************************)
WaitSem ==
  /\ wpc = "sem" /\ writeSem > 0
  /\ writeSem' = writeSem - 1
  /\ wpc' = "check"
  /\ UNCHANGED <<sharedVars, exitFlag, pruVars, readerVars, spc, trackBuffer, get, put,
                 file>>

\* The exit marker ends the loop; anything else starts emu_file_rewrite_track()
CheckEntry ==
  /\ wpc = "check"
  /\ LET e == trackBuffer[get]
     IN  IF e.drive = ExitMarker
         THEN wpc' = "close" /\ UNCHANGED file
         ELSE /\ file' = [file EXCEPT ![e.drive][e.cyl][e.head] = Torn]
              /\ wpc' = "rewrite"
  /\ UNCHANGED <<sharedVars, exitFlag, pruVars, readerVars, spc, bufferVars>>

RewriteTrack ==
  /\ wpc = "rewrite"
  /\ LET e == trackBuffer[get]
     IN  file' = [file EXCEPT ![e.drive][e.cyl][e.head] = e.buf]
  /\ wpc' = "advance"
  /\ UNCHANGED <<sharedVars, exitFlag, pruVars, readerVars, spc, bufferVars>>

ReleaseEntry ==
  /\ wpc = "advance"
  /\ get' = NextSlot(get)
  /\ wpc' = "sem"
  /\ UNCHANGED <<sharedVars, exitFlag, pruVars, readerVars, spc, trackBuffer, put, writeSem,
                 file>>

\* emu_file_close(): fsync() and close() of every file
CloseFiles ==
  /\ wpc = "close"
  /\ wpc' = "closed"
  /\ UNCHANGED <<sharedVars, exitFlag, pruVars, readerVars, spc, bufferVars, file>>

WriteThread == WaitSem \/ CheckEntry \/ RewriteTrack \/ ReleaseEntry \/ CloseFiles

-----------------------------------------------------------------------------
(***************************************************************************)
(* The PRUs, as the read thread sees them.                                 *)
(***************************************************************************)

\* PRU 0 takes CMD_START.  If a seek moved a drive on while it waited, it asks for
\* that cylinder at once; otherwise it starts to send the data.
PruTakeStart ==
  /\ pru \in {"init", "waiting"} /\ cmd = "start"
  /\ cmd' = "ok"
  /\ \/ /\ curCyl = lastArm
        /\ pru' = "serving"
        /\ UNCHANGED <<lastArm, evt>>
     \/ \E d \in Drives :
          /\ curCyl[d] # lastArm[d]
          /\ lastArm' = [lastArm EXCEPT ![d] = curCyl[d]]
          /\ evt' = TRUE
          /\ pru' = "waiting"
  /\ UNCHANGED <<curCyl, trkDirty, ddr, exitFlag, ops, bufferVars, readerVars, writerVars,
                 spc>>

\* Every step of the disk controller counts against the bound.
Operate == ops < MaxOps /\ ops' = ops + 1

\* The controller finishes a seek: send_arm_cyl()
PruSeek(d, c) ==
  /\ pru = "serving" /\ Operate
  /\ curCyl' = [curCyl EXCEPT ![d] = c]
  /\ lastArm' = [lastArm EXCEPT ![d] = c]
  /\ evt' = TRUE
  /\ pru' = "waiting"
  /\ UNCHANGED <<cmd, trkDirty, ddr, exitFlag, bufferVars, readerVars, writerVars, spc>>

\* A further seek before the answer: only CUR_CYL changes
PruStepWaiting(d, c) ==
  /\ pru = "waiting" /\ c # curCyl[d] /\ Operate
  /\ curCyl' = [curCyl EXCEPT ![d] = c]
  /\ UNCHANGED <<cmd, evt, trkDirty, ddr, exitFlag, pru, lastArm, bufferVars, readerVars,
                 writerVars, spc>>

\* The controller writes a track.  PRU 1 sets the dirty bit of the selected head; for
\* a head the drive does not have no data is stored.
PruWrite(d, h, v) ==
  /\ pru = "serving" /\ Operate
  /\ trkDirty' = [trkDirty EXCEPT ![d] = @ \cup {h}]
  /\ ddr' = IF h = BadHead THEN ddr ELSE [ddr EXCEPT ![d][h] = v]
  /\ UNCHANGED <<cmd, evt, curCyl, exitFlag, pru, lastArm, bufferVars, readerVars,
                 writerVars, spc>>

\* EXIT of PRU 0: the command word, both CUR_CYL, the interrupt, and after the ARM
\* has cleared CUR_CYL 0 the interrupt of program completion.
PruExitCmd ==
  /\ pru \in {"init", "waiting", "serving"} /\ exitFlag
  /\ cmd' = "ok"
  /\ pru' = "exitcmd"
  /\ UNCHANGED <<evt, curCyl, trkDirty, ddr, exitFlag, lastArm, ops, bufferVars, readerVars,
                 writerVars, spc>>

PruExitCyl ==
  /\ \/ /\ pru = "exitcmd"
        /\ curCyl' = [curCyl EXCEPT ![0] = NoCyl]
        /\ pru' = "exitcyl0"
     \/ /\ pru = "exitcyl0"
        /\ curCyl' = [d \in Drives |-> IF d = 0 THEN curCyl[d] ELSE NoCyl]
        /\ pru' = "exitcyl1"
  /\ UNCHANGED <<cmd, evt, trkDirty, ddr, exitFlag, lastArm, ops, bufferVars, readerVars,
                 writerVars, spc>>

PruExitInterrupt ==
  /\ pru = "exitcyl1"
  /\ evt' = TRUE
  /\ pru' = "exitint"
  /\ UNCHANGED <<cmd, curCyl, trkDirty, ddr, exitFlag, lastArm, ops, bufferVars, readerVars,
                 writerVars, spc>>

PruHalt ==
  /\ pru = "exitint" /\ curCyl[0] # NoCyl
  /\ evt' = TRUE
  /\ pru' = "halted"
  /\ UNCHANGED <<cmd, curCyl, trkDirty, ddr, exitFlag, lastArm, ops, bufferVars, readerVars,
                 writerVars, spc>>

PruProgram ==
  \/ PruTakeStart \/ PruExitCmd \/ PruExitCyl \/ PruExitInterrupt \/ PruHalt

Controller ==
  \E d \in Drives :
     \/ \E c \in Cyls : PruSeek(d, c) \/ PruStepWaiting(d, c)
     \/ \E h \in Heads \cup {BadHead}, v \in Data : PruWrite(d, h, v)

-----------------------------------------------------------------------------
(***************************************************************************)
(* shutdown(), from the signal handler or atexit.                          *)
(***************************************************************************)
RequestExit ==
  /\ spc = "running"
  /\ exitFlag' = TRUE
  /\ spc' = "joinwrite"
  /\ UNCHANGED <<sharedVars, pruVars, bufferVars, readerVars, writerVars>>

JoinWriteThread ==
  /\ spc = "joinwrite" /\ wpc = "closed"
  /\ spc' = "joinread"
  /\ UNCHANGED <<sharedVars, exitFlag, pruVars, bufferVars, readerVars, writerVars>>

JoinReadThread ==
  /\ spc = "joinread" /\ rpc = "done"
  /\ spc' = "waitpru"
  /\ UNCHANGED <<sharedVars, exitFlag, pruVars, bufferVars, readerVars, writerVars>>

\* pru_shutdown(): the completion event of PRU 0
PruShutdown ==
  /\ spc = "waitpru" /\ evt
  /\ evt' = FALSE
  /\ spc' = "down"
  /\ UNCHANGED <<cmd, curCyl, trkDirty, ddr, exitFlag, pruVars, bufferVars, readerVars,
                 writerVars>>

Shutdown == JoinWriteThread \/ JoinReadThread \/ PruShutdown

Next == ReadThread \/ WriteThread \/ PruProgram \/ Controller \/ RequestExit \/ Shutdown

Spec == Init /\ [][Next]_vars

\* The threads run, PRU 0 polls its command word; nothing forces the controller
\* to act or the user to stop the program.
Fairness == /\ WF_vars(ReadThread)
            /\ WF_vars(WriteThread)
            /\ WF_vars(PruProgram)
            /\ WF_vars(Shutdown)

FairSpec == Spec /\ Fairness

-----------------------------------------------------------------------------
(***************************************************************************)
(* Properties.                                                             *)
(***************************************************************************)

\* The semaphore counts the entries handed over: what is published and not released
\* is either still in the semaphore, or held by the write thread, or about to be
\* posted by the read thread.  A lost or double post breaks it.
Held == IF wpc \in {"check", "rewrite", "advance", "close", "closed"} THEN 1 ELSE 0
Unposted == IF rpc \in {"post", "markpost"} THEN 1 ELSE 0
SemMatchesBuffer == writeSem + Held + Unposted = BuffersUsed

\* While the write thread holds an entry, no step changes it: the read thread, which
\* copies a track before it looks for room, never copies into that entry.
HeldEntryStable ==
  [][(wpc \in {"check", "rewrite", "advance"}) => (trackBuffer'[get] = trackBuffer[get])]_vars

\* A full track buffer does not stop the emulation for good: update_buffer() returns.
FullBufferClears == (rpc \in {"put", "mark"}) ~> (rpc \notin {"put", "mark"})

\* Once the read thread has seen the request to exit, the write thread flushes what
\* is buffered and closes the files.
ExitFlushes == (rpc = "finish") ~> (wpc = "closed")

-----------------------------------------------------------------------------
(***************************************************************************)
(* Refinement: the threads implement the abstract store.                   *)
(***************************************************************************)

\* Distance from entry s to the put index: the entry written last is nearest.
ToPut(s) == IF put - s < 0 THEN put - s + BufferCount ELSE put - s

\* The published entries for a track, and the latest of them
Buffered(d, c, h) ==
  {s \in Slots : /\ 0 < ToPut(s) /\ ToPut(s) <= BuffersUsed
                 /\ trackBuffer[s].drive = d
                 /\ trackBuffer[s].cyl = c
                 /\ trackBuffer[s].head = h}
LastBuffered(d, c, h) ==
  CHOOSE s \in Buffered(d, c, h) : \A t \in Buffered(d, c, h) : ToPut(s) <= ToPut(t)

\* The cylinder in a drive's DDR buffer; none while the next one is assembled
Loaded == [d \in Drives |->
             IF rpc \in {"pread", "overlay"} /\ drv = d THEN NoCyl ELSE cyl[d]]

\* Where the latest data of a track is: in the DDR buffer of its cylinder, or else in
\* the last entry of the track buffer for it, or else in the file.
LatestData ==
  [d \in Drives |-> [c \in Cyls |-> [h \in Heads |->
     IF Loaded[d] = c THEN ddr[d][h]
     ELSE IF Buffered(d, c, h) # {} THEN trackBuffer[LastBuffered(d, c, h)].buf
     ELSE file[d][c][h]]]]

Store == INSTANCE TrackStore
           WITH latest <- LatestData, at <- Loaded,
                image <- IF wpc = "closed" THEN file ELSE NotSaved

\* The controller reads back what it last wrote, across seeks, buffering and file
\* writes in progress, and a normal exit leaves every track's last data in the file.
ImplementsTrackStore == Store!Spec
=============================================================================
