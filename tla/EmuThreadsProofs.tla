-------------------------- MODULE EmuThreadsProofs --------------------------
(***************************************************************************)
(* The threads of emu/mfm_emu.c, for every number of drives, cylinders and *)
(* tracks, every size of the track buffer and any number of operations:    *)
(* types, the semaphore, the entry that is held, and, built on these, that *)
(* the threads implement the store of TrackStore.                          *)
(***************************************************************************)
EXTENDS EmuThreads, WellFoundedInduction, TLAPS

\* % on the indices of the track buffer is a wrap at the end.
LEMMA NextSlotWraps ==
  ASSUME NEW s \in Slots
  PROVE  /\ NextSlot(s) = IF s = BufferCount - 1 THEN 0 ELSE s + 1
         /\ NextSlot(s) \in Slots
<1>1. BufferCount \in Nat /\ BufferCount > 0
  BY SizesAssumption
<1>2. CASE s = BufferCount - 1
  <2>1. (s + 1) % BufferCount = 0
    BY <1>1, <1>2
  <2>2. QED BY <1>1, <1>2, <2>1 DEF NextSlot, Slots
<1>3. CASE s # BufferCount - 1
  <2>1. s + 1 \in 0 .. BufferCount - 1
    BY <1>1, <1>3 DEF Slots
  <2>2. (s + 1) % BufferCount = s + 1
    BY <1>1, <2>1
  <2>3. QED BY <1>1, <1>3, <2>1, <2>2 DEF NextSlot, Slots
<1>4. QED BY <1>2, <1>3

(***************************************************************************)
(* Type correctness.  TypeOK alone is not inductive: that a cylinder is    *)
(* never read at NoCyl rests on the read thread leaving its loop once it   *)
(* has seen the PRU's -1, and that LAST_ARM_CYL is a cylinder on PRU 0     *)
(* storing the -1 only after it has stopped to answer.                     *)
(***************************************************************************)
ReaderInv ==
  /\ rpc \in {"pread", "overlay"} => drv < NumDrives /\ cyl[drv] \in Cyls
  /\ rpc \in {"cyl", "undirty", "scan", "put", "post"} => drv < NumDrives
  /\ rpc \in {"put", "post"} => trk < NumHead
  /\ done = FALSE => \A d \in Drives : newCyl[d] \in Cyls
  /\ rpc \in {"fetch", "pread", "overlay", "cmd", "spin", "wait", "clear"} => done = FALSE

PruInv == pru \in {"init", "waiting", "serving", "exitcmd"} => curCyl \in [Drives -> Cyls]

TypeInv == TypeOK /\ ReaderInv /\ PruInv

LEMMA TypeInvInit == Init => TypeInv
<1> SUFFICES ASSUME Init PROVE TypeInv
  OBVIOUS
<1> USE SizesAssumption
<1>1. SharedOK
  <2>1. curCyl \in [Drives -> Cyls \cup {NoCyl}]
    BY DEF Init, Cyls
  <2>2. ddr \in [Drives -> Track]
    BY DEF Init, Track
  <2>3. QED BY <2>1, <2>2 DEF Init, SharedOK
<1>2. PruOK
  BY DEF Init, PruOK, Cyls, PruStates
<1>3. BufferOK
  BY DEF Init, BufferOK, Entry, Slots, Drives, Cyls, Heads
<1>4. WriterOK
  <2>1. [Heads -> Data] \subseteq Track
    BY DEF Track
  <2>2. QED BY <2>1 DEF Init, WriterOK, WritePcs
<1>5. ReaderOK
  <2>1. cyl \in [Drives -> Cyls \cup {NoCyl}] /\ newCyl \in [Drives -> Cyls \cup {NoCyl}]
    BY DEF Init, Cyls
  <2>2. data \in Track
    BY DEF Init, Garbage, Track
  <2>3. drv \in 0 .. NumDrives /\ trk \in 0 .. NumHead /\ getHold \in Slots /\ index \in Slots
    BY DEF Init, Slots
  <2>4. QED BY <2>1, <2>2, <2>3 DEF Init, ReaderOK, ReadPcs
<1>6. ReaderInv
  BY DEF Init, ReaderInv, Cyls
<1>7. PruInv
  BY DEF Init, PruInv, Cyls
<1>8. ShutdownOK
  BY DEF Init, ShutdownOK
<1>9. QED BY <1>1, <1>2, <1>3, <1>4, <1>5, <1>6, <1>7, <1>8 DEF TypeInv, TypeOK

\* What a step that leaves the variables of a party alone leaves true.
LEMMA Frames ==
  ASSUME TypeInv
  PROVE  /\ UNCHANGED <<sharedVars, exitFlag>> => SharedOK'
         /\ UNCHANGED pruVars => PruOK'
         /\ UNCHANGED bufferVars => BufferOK'
         /\ UNCHANGED readerVars => ReaderOK' /\ ReaderInv'
         /\ UNCHANGED writerVars => WriterOK'
         /\ UNCHANGED spc => ShutdownOK'
         /\ UNCHANGED <<sharedVars, pruVars>> => PruInv'
<1>1. UNCHANGED <<sharedVars, exitFlag>> => SharedOK'
  BY DEF TypeInv, TypeOK, SharedOK, sharedVars
<1>2. UNCHANGED pruVars => PruOK'
  BY DEF TypeInv, TypeOK, PruOK, pruVars
<1>3. UNCHANGED bufferVars => BufferOK'
  BY DEF TypeInv, TypeOK, BufferOK, bufferVars
<1>4. UNCHANGED readerVars => ReaderOK' /\ ReaderInv'
  BY DEF TypeInv, TypeOK, ReaderOK, ReaderInv, readerVars
<1>5. UNCHANGED writerVars => WriterOK'
  BY DEF TypeInv, TypeOK, WriterOK, writerVars
<1>6. UNCHANGED spc => ShutdownOK'
  BY DEF TypeInv, TypeOK, ShutdownOK
<1>7. UNCHANGED <<sharedVars, pruVars>> => PruInv'
  BY DEF TypeInv, PruInv, sharedVars, pruVars
<1>8. QED BY <1>1, <1>2, <1>3, <1>4, <1>5, <1>6, <1>7

-----------------------------------------------------------------------------
\* Storing a value in a track leaves a file of tracks, whatever the indices are.
LEMMA StoreTrack ==
  ASSUME NEW F \in [Drives -> [Cyls -> Track]], NEW d, NEW c, NEW h, NEW v \in Data \cup {Torn}
  PROVE  [F EXCEPT ![d][c][h] = v] \in [Drives -> [Cyls -> Track]]
<1> SUFFICES ASSUME NEW e \in Drives
             PROVE  [F EXCEPT ![d][c][h] = v][e] \in [Cyls -> Track]
  OBVIOUS
<1>1. CASE e # d
  BY <1>1
<1>2. CASE e = d
  <2>1. \A b \in Cyls : [F[d][b] EXCEPT ![h] = v] \in Track
    BY <1>2 DEF Track
  <2>2. [F[d] EXCEPT ![c][h] = v] \in [Cyls -> Track]
    BY <1>2, <2>1
  <2>3. QED BY <1>2, <2>2
<1>3. QED BY <1>1, <1>2

LEMMA TypeInvWrite == TypeInv /\ WriteThread => TypeInv'
<1> SUFFICES ASSUME TypeInv, WriteThread PROVE TypeInv'
  OBVIOUS
<1> DEFINE e == trackBuffer[get]
<1>1. SharedOK' /\ PruOK' /\ ReaderOK' /\ ReaderInv' /\ ShutdownOK' /\ PruInv'
  BY Frames DEF WriteThread, WaitSem, CheckEntry, RewriteTrack, ReleaseEntry, CloseFiles
<1>2. BufferOK'
  <2>1. CASE WaitSem
    BY <2>1 DEF WaitSem, TypeInv, TypeOK, BufferOK
  <2>2. CASE ReleaseEntry
    BY <2>2, NextSlotWraps DEF ReleaseEntry, TypeInv, TypeOK, BufferOK
  <2>3. CASE CheckEntry \/ RewriteTrack \/ CloseFiles
    BY <2>3, Frames DEF CheckEntry, RewriteTrack, CloseFiles
  <2>4. QED BY <2>1, <2>2, <2>3 DEF WriteThread
<1>3. wpc' \in WritePcs
  BY DEF WriteThread, WaitSem, CheckEntry, RewriteTrack, ReleaseEntry, CloseFiles, WritePcs
<1>4. file' \in [Drives -> [Cyls -> Track]]
  <2>1. file \in [Drives -> [Cyls -> Track]] /\ e.buf \in Data \cup {Torn}
    BY DEF TypeInv, TypeOK, WriterOK, BufferOK, Entry
  <2>2. /\ [file EXCEPT ![e.drive][e.cyl][e.head] = e.buf] \in [Drives -> [Cyls -> Track]]
        /\ [file EXCEPT ![e.drive][e.cyl][e.head] = Torn] \in [Drives -> [Cyls -> Track]]
    <3> HIDE DEF e
    <3>1. Torn \in Data \cup {Torn}
      OBVIOUS
    <3>2. QED BY <2>1, <3>1, StoreTrack, Zenon
  <2>3. QED
    BY <2>1, <2>2 DEF WriteThread, WaitSem, CheckEntry, RewriteTrack, ReleaseEntry, CloseFiles
<1>5. WriterOK'
  BY <1>3, <1>4 DEF WriterOK
<1>6. QED BY <1>1, <1>2, <1>5 DEF TypeInv, TypeOK

LEMMA TypeInvPru ==
  TypeInv /\ (PruProgram \/ Controller \/ RequestExit \/ Shutdown) => TypeInv'
<1> SUFFICES ASSUME TypeInv, PruProgram \/ Controller \/ RequestExit \/ Shutdown
             PROVE  TypeInv'
  OBVIOUS
<1>1. BufferOK' /\ ReaderOK' /\ ReaderInv' /\ WriterOK'
  BY Frames DEF PruProgram, PruTakeStart, PruExitCmd, PruExitCyl, PruExitInterrupt, PruHalt,
                Controller, PruSeek, PruStepWaiting, PruWrite, RequestExit, Shutdown,
                JoinWriteThread, JoinReadThread, PruShutdown
<1>2. CASE PruProgram
  <2>1. ShutdownOK'
    BY <1>2, Frames DEF PruProgram, PruTakeStart, PruExitCmd, PruExitCyl, PruExitInterrupt, PruHalt
  <2>2. SharedOK'
    BY <1>2 DEF PruProgram, PruTakeStart, PruExitCmd, PruExitCyl, PruExitInterrupt, PruHalt,
                TypeInv, TypeOK, SharedOK
  <2>3. PruOK' /\ PruInv'
    BY <1>2 DEF PruProgram, PruTakeStart, PruExitCmd, PruExitCyl, PruExitInterrupt, PruHalt,
                TypeInv, TypeOK, PruOK, PruInv, PruStates
  <2>4. QED BY <1>1, <2>1, <2>2, <2>3 DEF TypeInv, TypeOK
<1>3. CASE Controller
  <2>1. PICK d \in Drives :
          \/ \E c \in Cyls : PruSeek(d, c) \/ PruStepWaiting(d, c)
          \/ \E h \in Heads \cup {BadHead}, v \in Data : PruWrite(d, h, v)
    BY <1>3 DEF Controller
  <2>2. CASE \E c \in Cyls : PruSeek(d, c) \/ PruStepWaiting(d, c)
    <3>1. PICK c \in Cyls : PruSeek(d, c) \/ PruStepWaiting(d, c)
      BY <2>2
    <3>2. SharedOK'
      BY <3>1 DEF PruSeek, PruStepWaiting, TypeInv, TypeOK, SharedOK
    <3>3. ops' \in 0 .. MaxOps
      BY <3>1, SizesAssumption DEF PruSeek, PruStepWaiting, Operate, TypeInv, TypeOK, PruOK
    <3>4. PruOK' /\ PruInv'
      <4>1. CASE PruSeek(d, c)
        BY <3>3, <4>1 DEF PruSeek, TypeInv, TypeOK, PruOK, PruInv, PruStates
      <4>2. CASE PruStepWaiting(d, c)
        BY <3>3, <4>2 DEF PruStepWaiting, TypeInv, TypeOK, PruOK, PruInv
      <4>3. QED BY <3>1, <4>1, <4>2
    <3>5. ShutdownOK'
      BY <3>1, Frames DEF PruSeek, PruStepWaiting
    <3>6. QED BY <1>1, <3>2, <3>4, <3>5 DEF TypeInv, TypeOK
  <2>3. CASE \E h \in Heads \cup {BadHead}, v \in Data : PruWrite(d, h, v)
    <3>1. PICK h \in Heads \cup {BadHead}, v \in Data : PruWrite(d, h, v)
      BY <2>3
    <3>2. ddr' \in [Drives -> Track]
      BY <3>1 DEF PruWrite, TypeInv, TypeOK, SharedOK, Track
    <3>3. trkDirty' \in [Drives -> SUBSET (Heads \cup {BadHead})]
      BY <3>1 DEF PruWrite, TypeInv, TypeOK, SharedOK
    <3>4. SharedOK'
      BY <3>1, <3>2, <3>3 DEF PruWrite, TypeInv, TypeOK, SharedOK
    <3>5. PruOK' /\ PruInv'
      BY <3>1, SizesAssumption DEF PruWrite, Operate, pruVars, TypeInv, TypeOK, PruOK, PruInv
    <3>6. ShutdownOK'
      BY <3>1, Frames DEF PruWrite
    <3>7. QED BY <1>1, <3>4, <3>5, <3>6 DEF TypeInv, TypeOK
  <2>4. QED BY <2>1, <2>2, <2>3
<1>4. CASE RequestExit \/ Shutdown
  <2>1. SharedOK' /\ ShutdownOK'
    BY <1>4 DEF RequestExit, Shutdown, JoinWriteThread, JoinReadThread, PruShutdown, sharedVars,
                TypeInv, TypeOK, SharedOK, ShutdownOK
  <2>2. PruOK' /\ PruInv'
    BY <1>4 DEF RequestExit, Shutdown, JoinWriteThread, JoinReadThread, PruShutdown, sharedVars,
                pruVars, TypeInv, TypeOK, PruOK, PruInv
  <2>3. QED BY <1>1, <2>1, <2>2 DEF TypeInv, TypeOK
<1>5. QED BY <1>2, <1>3, <1>4

\* The steps of the read thread, in the groups that disturb the same parts.
LEMMA TypeInvRead == TypeInv /\ ReadThread => TypeInv'
<1> SUFFICES ASSUME TypeInv, ReadThread PROVE TypeInv'
  OBVIOUS
<1> USE SizesAssumption DEF TypeInv, TypeOK
<1>1. PruOK' /\ WriterOK' /\ ShutdownOK'
  BY Frames
  DEF ReadThread, FetchCyl, ReadTrack, StartOverlay, OverlayEntry, SendCyl, FetchDone, ExecCmd,
      CmdTaken, WaitEvent, ClearEvent, ReadDirty, ReadCurCyl, ClearDirty, CopyTrack, ScanDone,
      PutTrack, PostTrack, DrivesDone, AckExit, PutMarker, PostMarker
<1>2. CASE FetchCyl
  <2>1. SharedOK' /\ BufferOK' /\ PruInv'
    BY <1>2, Frames DEF FetchCyl
  <2>2. ReaderOK' /\ ReaderInv'
    BY <1>2 DEF FetchCyl, BufferOK, ReaderOK, ReaderInv, ReadPcs, Drives
  <2>3. QED BY <1>1, <2>1, <2>2
<1>3. CASE ReadTrack
  <2>1. SharedOK' /\ BufferOK' /\ PruInv'
    BY <1>3, Frames DEF ReadTrack
  <2>2. drv \in Drives /\ trk \in Heads
    BY <1>3 DEF ReadTrack, ReaderOK, ReaderInv, Drives, Heads
  <2>3. data' \in Track
    BY <1>3, <2>2 DEF ReadTrack, WriterOK, ReaderOK, ReaderInv, Track
  <2>4. ReaderOK' /\ ReaderInv'
    BY <1>3, <2>2, <2>3 DEF ReadTrack, ReaderOK, ReaderInv, Heads
  <2>5. QED BY <1>1, <2>1, <2>4
<1>4. CASE StartOverlay \/ FetchDone \/ CmdTaken \/ WaitEvent \/ ScanDone \/ DrivesDone
  <2>1. SharedOK' /\ BufferOK' /\ PruInv'
    BY <1>4, Frames DEF StartOverlay, FetchDone, CmdTaken, WaitEvent, ScanDone, DrivesDone
  <2>2. ReaderOK'
    BY <1>4 DEF StartOverlay, FetchDone, CmdTaken, WaitEvent, ScanDone, DrivesDone,
                ReaderOK, ReaderInv, ReadPcs
  <2>3. ReaderInv'
    BY <1>4 DEF StartOverlay, FetchDone, CmdTaken, WaitEvent, ScanDone, DrivesDone,
                ReaderOK, ReaderInv
  <2>4. QED BY <1>1, <2>1, <2>2, <2>3
<1>5. CASE OverlayEntry
  <2>1. SharedOK' /\ BufferOK' /\ PruInv'
    BY <1>5, Frames DEF OverlayEntry
  <2>2. data' \in Track
    BY <1>5 DEF OverlayEntry, BufferOK, ReaderOK, Entry, Track
  <2>3. index' \in Slots
    BY <1>5, NextSlotWraps DEF OverlayEntry, ReaderOK
  <2>4. ReaderOK' /\ ReaderInv'
    BY <1>5, <2>2, <2>3 DEF OverlayEntry, ReaderOK, ReaderInv
  <2>5. QED BY <1>1, <2>1, <2>4
<1>6. CASE SendCyl
  <2>1. BufferOK' /\ PruInv'
    BY <1>6, Frames DEF SendCyl, PruInv, pruVars
  <2>2. SharedOK'
    BY <1>6 DEF SendCyl, SharedOK, ReaderOK
  <2>3. data' \in Track /\ index' \in Slots /\ getHold' \in Slots
    BY <1>6 DEF SendCyl, Garbage, Track, Slots
  <2>4. ReaderOK' /\ ReaderInv'
    BY <1>6, <2>3 DEF SendCyl, ReaderOK, ReaderInv, ReadPcs
  <2>5. QED BY <1>1, <2>1, <2>2, <2>4
<1>7. CASE ExecCmd \/ ClearEvent
  <2>1. BufferOK' /\ SharedOK' /\ PruInv'
    BY <1>7, Frames DEF ExecCmd, ClearEvent, SharedOK, PruInv, pruVars
  <2>2. ReaderOK' /\ ReaderInv'
    BY <1>7 DEF ExecCmd, ClearEvent, ReaderOK, ReaderInv, ReadPcs
  <2>3. QED BY <1>1, <2>1, <2>2
<1>8. CASE ReadDirty
  <2>1. SharedOK' /\ BufferOK' /\ PruInv'
    BY <1>8, Frames DEF ReadDirty
  <2>2. ReaderOK' /\ ReaderInv'
    BY <1>8 DEF ReadDirty, SharedOK, ReaderOK, ReaderInv, ReadPcs, Drives
  <2>3. QED BY <1>1, <2>1, <2>2
<1>9. CASE ReadCurCyl
  <2>1. SharedOK' /\ BufferOK' /\ PruInv'
    BY <1>9, Frames DEF ReadCurCyl
  <2>2. drv \in Drives
    BY <1>9 DEF ReadCurCyl, ReaderOK, ReaderInv, Drives
  <2>3. newCyl' \in [Drives -> Cyls \cup {NoCyl}] /\ done' \in BOOLEAN
    BY <1>9, <2>2 DEF ReadCurCyl, SharedOK, ReaderOK
  <2>4. done' = FALSE => \A d \in Drives : newCyl'[d] \in Cyls
    BY <1>9, <2>2 DEF ReadCurCyl, SharedOK, ReaderOK, ReaderInv
  <2>5. ReaderOK' /\ ReaderInv'
    BY <1>9, <2>2, <2>3, <2>4 DEF ReadCurCyl, ReaderOK, ReaderInv, ReadPcs, Drives
  <2>6. QED BY <1>1, <2>1, <2>5
<1>10. CASE ClearDirty
  <2>1. BufferOK' /\ SharedOK' /\ PruInv'
    BY <1>10, Frames DEF ClearDirty, SharedOK, PruInv, pruVars
  <2>2. ReaderOK' /\ ReaderInv'
    BY <1>10 DEF ClearDirty, ReaderOK, ReaderInv, ReadPcs
  <2>3. QED BY <1>1, <2>1, <2>2
<1>11. CASE CopyTrack
  <2>1. SharedOK' /\ PruInv'
    BY <1>11, Frames DEF CopyTrack
  <2>2. BufferOK'
    <3>1. CASE trk \in dirty
      <4>1. ddr[drv][trk] \in Data \cup {Torn}
        BY <1>11 DEF CopyTrack, SharedOK, ReaderOK, ReaderInv, Drives, Heads, Track
      <4>2. [trackBuffer[put] EXCEPT !.buf = ddr[drv][trk]] \in Entry
        BY <4>1 DEF BufferOK, Entry
      <4>3. QED BY <1>11, <3>1, <4>2 DEF CopyTrack, BufferOK
    <3>2. CASE trk \notin dirty
      BY <1>11, <3>2 DEF CopyTrack, BufferOK
    <3>3. QED BY <3>1, <3>2
  <2>3. ReaderOK' /\ ReaderInv'
    BY <1>11 DEF CopyTrack, ReaderOK, ReaderInv, ReadPcs
  <2>4. QED BY <1>1, <2>1, <2>2, <2>3
<1>12. CASE PutTrack \/ PutMarker
  <2>1. SharedOK' /\ PruInv'
    BY <1>12, Frames DEF PutTrack, PutMarker
  <2>2. ASSUME NEW d \in Drives \cup {ExitMarker}, NEW c \in Cyls \cup {NoCyl}, NEW h \in Heads,
               UpdateBuffer(d, c, h)
        PROVE  BufferOK'
    <3>1. [trackBuffer[put] EXCEPT !.drive = d, !.cyl = c, !.head = h] \in Entry
      BY DEF BufferOK, Entry
    <3>2. trackBuffer' \in [Slots -> Entry]
      BY <2>2, <3>1 DEF UpdateBuffer, BufferOK
    <3>3. put' \in Slots
      BY <2>2, NextSlotWraps DEF UpdateBuffer, BufferOK
    <3>4. QED BY <2>2, <3>2, <3>3 DEF UpdateBuffer, BufferOK
  <2>3. BufferOK'
    <3>1. CASE PutTrack
      <4>1. drv \in Drives /\ cyl[drv] \in Cyls \cup {NoCyl} /\ trk \in Heads
        BY <3>1 DEF PutTrack, ReaderOK, ReaderInv, Drives, Heads
      <4>2. QED BY <2>2, <3>1, <4>1 DEF PutTrack
    <3>2. CASE PutMarker
      <4>1. 0 \in Cyls /\ 0 \in Heads
        BY DEF Cyls, Heads
      <4>2. QED BY <2>2, <3>2, <4>1 DEF PutMarker
    <3>3. QED BY <1>12, <3>1, <3>2
  <2>4. ReaderOK' /\ ReaderInv'
    BY <1>12 DEF PutTrack, PutMarker, ReaderOK, ReaderInv, ReadPcs
  <2>5. QED BY <1>1, <2>1, <2>3, <2>4
<1>13. CASE PostTrack \/ PostMarker
  <2>1. SharedOK' /\ PruInv'
    BY <1>13, Frames DEF PostTrack, PostMarker
  <2>2. BufferOK'
    BY <1>13 DEF PostTrack, PostMarker, PostSem, BufferOK
  <2>3. ReaderOK' /\ ReaderInv'
    BY <1>13 DEF PostTrack, PostMarker, ReaderOK, ReaderInv, ReadPcs
  <2>4. QED BY <1>1, <2>1, <2>2, <2>3
<1>14. CASE AckExit
  <2>1. BufferOK'
    BY <1>14, Frames DEF AckExit
  <2>2. 0 \in Cyls
    BY DEF Cyls
  <2>3. SharedOK'
    BY <1>14, <2>2 DEF AckExit, SharedOK
  <2>4. PruInv'
    BY <1>14, <2>2 DEF AckExit, PruInv, pruVars
  <2>5. ReaderOK' /\ ReaderInv'
    BY <1>14 DEF AckExit, ReaderOK, ReaderInv, ReadPcs
  <2>6. QED BY <1>1, <2>1, <2>3, <2>4, <2>5
<1>15. QED
  BY <1>2, <1>3, <1>4, <1>5, <1>6, <1>7, <1>8, <1>9, <1>10, <1>11, <1>12, <1>13, <1>14 DEF ReadThread

LEMMA TypeInvStep == TypeInv /\ [Next]_vars => TypeInv'
<1> SUFFICES ASSUME TypeInv, [Next]_vars PROVE TypeInv'
  OBVIOUS
<1>1. CASE ReadThread
  BY <1>1, TypeInvRead
<1>2. CASE WriteThread
  BY <1>2, TypeInvWrite
<1>3. CASE PruProgram \/ Controller \/ RequestExit \/ Shutdown
  BY <1>3, TypeInvPru
<1>4. CASE UNCHANGED vars
  BY <1>4, Frames DEF vars, TypeInv, TypeOK
<1>5. QED BY <1>1, <1>2, <1>3, <1>4 DEF Next

LEMMA TypeInvariant == Spec => []TypeInv
<1>1. QED BY TypeInvInit, TypeInvStep, PTL DEF Spec

\* Every variable keeps to its type: no thread leaves an index outside the track
\* buffer or reads a cylinder that is not one.
THEOREM TypeCorrect == Spec => []TypeOK
<1>1. TypeInv => TypeOK
  BY DEF TypeInv
<1>2. QED BY <1>1, TypeInvariant, PTL

-----------------------------------------------------------------------------
(***************************************************************************)
(* The semaphore counts the entries: with TypeInv, SemMatchesBuffer is     *)
(* inductive.                                                              *)
(***************************************************************************)

\* What the steps of update_buffer() and of the write thread do to the number of
\* entries in use.
LEMMA UsedPut ==
  ASSUME BufferOK, put' = NextSlot(put), NextSlot(put) # get, get' = get
  PROVE  BuffersUsed' = BuffersUsed + 1
<1>1. /\ BufferCount \in Nat /\ get \in 0 .. BufferCount - 1 /\ put \in 0 .. BufferCount - 1
      /\ NextSlot(put) = IF put = BufferCount - 1 THEN 0 ELSE put + 1
  BY SizesAssumption, NextSlotWraps DEF BufferOK, Slots
<1>2. QED BY <1>1 DEF BuffersUsed

LEMMA UsedGet ==
  ASSUME BufferOK, get' = NextSlot(get), get # put, put' = put
  PROVE  BuffersUsed' = BuffersUsed - 1
<1>1. /\ BufferCount \in Nat /\ get \in 0 .. BufferCount - 1 /\ put \in 0 .. BufferCount - 1
      /\ NextSlot(get) = IF get = BufferCount - 1 THEN 0 ELSE get + 1
  BY SizesAssumption, NextSlotWraps DEF BufferOK, Slots
<1>2. QED BY <1>1 DEF BuffersUsed

LEMMA UsedBounds ==
  ASSUME BufferOK
  PROVE  BuffersUsed \in 0 .. BufferCount - 1 /\ (BuffersUsed = 0 <=> get = put)
BY SizesAssumption DEF BufferOK, BuffersUsed, Slots

LEMMA SemInit == Init => SemMatchesBuffer
BY DEF Init, SemMatchesBuffer, Held, Unposted, BuffersUsed

LEMMA SemStep == TypeInv /\ SemMatchesBuffer /\ [Next]_vars => SemMatchesBuffer'
<1> SUFFICES ASSUME TypeInv, SemMatchesBuffer, [Next]_vars PROVE SemMatchesBuffer'
  OBVIOUS
<1>1. BufferOK /\ writeSem \in Nat /\ BuffersUsed \in Nat
  BY UsedBounds DEF TypeInv, TypeOK, BufferOK
<1>2. CASE PutTrack \/ PutMarker
  <2>1. BuffersUsed' = BuffersUsed + 1
    BY <1>1, <1>2, UsedPut DEF PutTrack, PutMarker, UpdateBuffer
  <2>2. writeSem' = writeSem /\ Held' = Held /\ Unposted = 0 /\ Unposted' = 1
    BY <1>2 DEF PutTrack, PutMarker, UpdateBuffer, writerVars, Held, Unposted
  <2>3. QED BY <1>1, <2>1, <2>2 DEF SemMatchesBuffer, Held
<1>3. CASE PostTrack \/ PostMarker
  <2>1. BuffersUsed' = BuffersUsed
    BY <1>3 DEF PostTrack, PostMarker, PostSem, BuffersUsed
  <2>2. writeSem' = writeSem + 1 /\ Held' = Held /\ Unposted = 1 /\ Unposted' = 0
    BY <1>3 DEF PostTrack, PostMarker, PostSem, writerVars, Held, Unposted
  <2>3. QED BY <1>1, <2>1, <2>2 DEF SemMatchesBuffer, Held
<1>4. CASE WaitSem
  <2>1. BuffersUsed' = BuffersUsed
    BY <1>4 DEF WaitSem, BuffersUsed
  <2>2. writeSem' = writeSem - 1 /\ Held = 0 /\ Held' = 1 /\ Unposted' = Unposted
    BY <1>4 DEF WaitSem, readerVars, Held, Unposted
  <2>3. QED BY <1>1, <2>1, <2>2 DEF SemMatchesBuffer, Unposted
<1>5. CASE ReleaseEntry
  <2>1. writeSem' = writeSem /\ Held = 1 /\ Held' = 0 /\ Unposted' = Unposted
    BY <1>5 DEF ReleaseEntry, readerVars, Held, Unposted
  <2>2. get # put
    BY <1>1, <2>1, UsedBounds DEF SemMatchesBuffer, Unposted
  <2>3. BuffersUsed' = BuffersUsed - 1
    BY <1>1, <1>5, <2>2, UsedGet DEF ReleaseEntry
  <2>4. QED BY <1>1, <2>1, <2>3 DEF SemMatchesBuffer, Unposted
<1>6. CASE CheckEntry \/ RewriteTrack \/ CloseFiles
  BY <1>6 DEF CheckEntry, RewriteTrack, CloseFiles, bufferVars, readerVars, SemMatchesBuffer,
              Held, Unposted, BuffersUsed
<1>7. CASE FetchCyl \/ ReadTrack \/ StartOverlay \/ OverlayEntry \/ SendCyl \/ FetchDone \/ ExecCmd
           \/ CmdTaken \/ WaitEvent \/ ClearEvent \/ ReadDirty \/ ReadCurCyl \/ ClearDirty
           \/ CopyTrack \/ ScanDone \/ DrivesDone \/ AckExit
  <2>1. UNCHANGED <<get, put, writeSem>> /\ UNCHANGED writerVars
    BY <1>7
    DEF FetchCyl, ReadTrack, StartOverlay, OverlayEntry, SendCyl, FetchDone, ExecCmd, CmdTaken,
        WaitEvent, ClearEvent, ReadDirty, ReadCurCyl, ClearDirty, CopyTrack, ScanDone, DrivesDone,
        AckExit, bufferVars
  <2>2. Unposted = 0 /\ Unposted' = 0
    BY <1>7
    DEF FetchCyl, ReadTrack, StartOverlay, OverlayEntry, SendCyl, FetchDone, ExecCmd, CmdTaken,
        WaitEvent, ClearEvent, ReadDirty, ReadCurCyl, ClearDirty, CopyTrack, ScanDone, DrivesDone,
        AckExit, Unposted
  <2>3. QED BY <2>1, <2>2 DEF writerVars, SemMatchesBuffer, Held, BuffersUsed
<1>8. CASE PruProgram \/ Controller \/ RequestExit \/ Shutdown \/ UNCHANGED vars
  <2>1. UNCHANGED bufferVars /\ UNCHANGED readerVars /\ UNCHANGED writerVars
    BY <1>8
    DEF PruProgram, PruTakeStart, PruExitCmd, PruExitCyl, PruExitInterrupt, PruHalt, Controller,
        PruSeek, PruStepWaiting, PruWrite, RequestExit, Shutdown, JoinWriteThread, JoinReadThread,
        PruShutdown, vars
  <2>2. QED
    BY <2>1 DEF bufferVars, readerVars, writerVars, SemMatchesBuffer, Held, Unposted, BuffersUsed
<1>9. QED
  BY <1>2, <1>3, <1>4, <1>5, <1>6, <1>7, <1>8 DEF Next, ReadThread, WriteThread

\* write_sem always equals the number of entries of the track buffer that are published
\* and not yet taken: no entry of update_buffer() is lost and none written twice.
THEOREM SemaphoreCorrect == Spec => []SemMatchesBuffer
<1>1. TypeInv /\ SemMatchesBuffer /\ [Next]_vars => SemMatchesBuffer'
  BY SemStep
<1>2. QED BY <1>1, SemInit, TypeInvariant, PTL DEF Spec

\* The write thread has an entry: the track buffer is not empty.
LEMMA HeldPublished ==
  ASSUME TypeInv, SemMatchesBuffer, wpc # "sem"
  PROVE  get # put
<1>1. BufferOK /\ BuffersUsed \in Nat
  BY UsedBounds DEF TypeInv, TypeOK
<1>2. wpc \in WritePcs
  BY DEF TypeInv, TypeOK, WriterOK
<1>3. BuffersUsed # 0
  BY <1>1, <1>2 DEF SemMatchesBuffer, Held, Unposted, BufferOK, WritePcs
<1>4. QED BY <1>1, <1>3, UsedBounds

\* Only the entry at put is ever written to, and that is not the one it has.
LEMMA HeldKept ==
  ASSUME TypeInv, SemMatchesBuffer, [Next]_vars, wpc # "sem"
  PROVE  trackBuffer'[get] = trackBuffer[get]
<1>1. get # put
  BY HeldPublished
<1>2. CASE CopyTrack
  BY <1>1, <1>2 DEF CopyTrack, TypeInv, TypeOK, BufferOK
<1>3. CASE PutTrack \/ PutMarker
  BY <1>1, <1>3 DEF PutTrack, PutMarker, UpdateBuffer, TypeInv, TypeOK, BufferOK
<1>4. CASE ~ (CopyTrack \/ PutTrack \/ PutMarker)
  <2>1. UNCHANGED trackBuffer
    BY <1>4
    DEF Next, ReadThread, FetchCyl, ReadTrack, StartOverlay, OverlayEntry, SendCyl, FetchDone,
        ExecCmd, CmdTaken, WaitEvent, ClearEvent, ReadDirty, ReadCurCyl, ClearDirty, ScanDone,
        PostTrack, PostMarker, PostSem, DrivesDone, AckExit, WriteThread, WaitSem, CheckEntry,
        RewriteTrack, ReleaseEntry, CloseFiles, PruProgram, PruTakeStart, PruExitCmd,
        PruExitCyl, PruExitInterrupt, PruHalt, Controller, PruSeek, PruStepWaiting, PruWrite,
        RequestExit, Shutdown, JoinWriteThread, JoinReadThread, PruShutdown, vars, bufferVars
  <2>2. QED BY <2>1
<1>5. QED BY <1>2, <1>3, <1>4

\* The entry the write thread writes to the file stays as it is until it is released,
\* although the read thread copies tracks to the buffer before it looks for room.
THEOREM HeldEntryIsStable == Spec => HeldEntryStable
<1>1. TypeInv /\ SemMatchesBuffer /\ [Next]_vars
      => [(wpc \in {"check", "rewrite", "advance"}) => (trackBuffer'[get] = trackBuffer[get])]_vars
  BY HeldKept
<1>2. QED BY <1>1, TypeInvariant, SemaphoreCorrect, PTL DEF Spec, HeldEntryStable

-----------------------------------------------------------------------------
(***************************************************************************)
(* The proof of ImplementsTrackStore.  The argument is about what a track  *)
(* holds below the DDR buffer (Stored): the last entry of the track buffer *)
(* for it, or else the file.  No step of the write thread changes it,      *)
(* update_buffer() sets it to the data of the DDR buffer, and what the     *)
(* read thread assembles from the file and the track buffer is Stored when *)
(* the overlay ends.                                                       *)
(***************************************************************************)

\* How far slot s is behind slot p in the ring
Dist(p, s) == IF p - s < 0 THEN p - s + BufferCount ELSE p - s

\* The slots among the last n before p that hold track (d, c, h)
Window(tb, p, n, d, c, h) ==
  {s \in Slots : /\ 0 < Dist(p, s) /\ Dist(p, s) <= n
                 /\ tb[s].drive = d /\ tb[s].cyl = c /\ tb[s].head = h}

Nearest(p, S) == CHOOSE s \in S : \A t \in S : Dist(p, s) <= Dist(p, t)

\* Value v of a track with the entries of the window laid over it in their order
Overlaid(tb, p, n, d, c, h, v) ==
  LET S == Window(tb, p, n, d, c, h)
  IN  IF S = {} THEN v ELSE tb[Nearest(p, S)].buf

\* What a track holds below the DDR buffer
Stored == [d \in Drives |-> [c \in Cyls |-> [h \in Heads |->
             Overlaid(trackBuffer, put, BuffersUsed, d, c, h, file[d][c][h])]]]

-----------------------------------------------------------------------------
\* The turns of the PRUs and the read thread: data is served only while the read
\* thread waits for the event that ends the serving.
TurnInv ==
  /\ cmd = "start" => rpc = "spin"
  /\ pru = "serving" => rpc \in {"spin", "wait"} /\ cmd = "ok" /\ ~evt
  /\ pru \in {"init", "waiting"} /\ evt => rpc \in {"spin", "wait", "clear"} /\ cmd = "ok"

\* Which drives have had a cylinder fetched
LoadInv ==
  /\ rpc \in {"fetch", "pread", "overlay"} => \A d \in Drives : d < drv => cyl[d] # NoCyl
  /\ rpc \notin {"fetch", "pread", "overlay"} => \A d \in Drives : cyl[d] # NoCyl

\* Which dirty bits have been collected, and where a track is on its way to the entry
DirtyInv ==
  /\ rpc \in {"fetch", "pread", "overlay", "cmd", "finish", "mark", "markpost", "done"}
       => \A d \in Drives : trkDirty[d] = {}
  /\ rpc \in {"dirty", "cyl", "undirty", "scan", "put", "post"}
       => \A d \in Drives : d < drv => trkDirty[d] = {}
  /\ rpc \in {"cyl", "undirty"} => dirty = trkDirty[drv]
  /\ rpc \in {"scan", "put", "post"} => trkDirty[drv] = {}
  /\ rpc = "put" => trackBuffer[put].buf = ddr[drv][trk]

\* The track was written to and update_buffer() is still to be called for it
Pending(d, h) ==
  \/ h \in trkDirty[d]
  \/ d = drv /\ h \in dirty /\ rpc \in {"scan", "put"} /\ h >= trk
  \/ d = drv /\ h \in dirty /\ rpc = "post" /\ h > trk

\* Any other track of a loaded cylinder is stored.
CleanInv ==
  \A d \in Drives, h \in Heads :
     Loaded[d] # NoCyl /\ ~ Pending(d, h) => ddr[d][h] = Stored[d][Loaded[d]][h]

\* The cylinder being assembled: the entries from getHold on, laid over what was read
\* from the file, and later the entries still to be copied, laid over data[].
FetchInv ==
  /\ rpc = "pread" =>
       /\ BuffersUsed <= Dist(put, getHold)
       /\ \A h \in Heads :
            LET Over(v) == Overlaid(trackBuffer, put, Dist(put, getHold),
                                    drv, cyl[drv], h, v)
            IN  /\ Over(file[drv][cyl[drv]][h]) = Stored[drv][cyl[drv]][h]
                /\ h < trk => Over(data[h]) = Stored[drv][cyl[drv]][h]
  /\ rpc = "overlay" =>
       \A h \in Heads : Overlaid(trackBuffer, put, Dist(put, index), drv, cyl[drv], h, data[h])
                          = Stored[drv][cyl[drv]][h]

\* The write thread is done with the file's copy before it releases the entry.
WriteInv ==
  LET e == trackBuffer[get]
  IN  wpc = "advance" /\ e.drive \in Drives /\ e.cyl \in Cyls
        => file[e.drive][e.cyl][e.head] = e.buf

\* The exit marker is the last entry: the files are closed when nothing is left.
MarkerInv ==
  /\ \A s \in Slots : 0 < Dist(put, s) /\ Dist(put, s) <= BuffersUsed
                      /\ trackBuffer[s].drive = ExitMarker
                      => Dist(put, s) = 1 /\ rpc \in {"markpost", "done"}
  /\ wpc \in {"close", "closed"} => trackBuffer[get].drive = ExitMarker

RefineInv == TurnInv /\ LoadInv /\ DirtyInv /\ CleanInv /\ FetchInv /\ WriteInv /\ MarkerInv

\* What main() leaves behind: the files once they are closed
Image == IF wpc = "closed" THEN file ELSE NotSaved

-----------------------------------------------------------------------------
\* The ring of the track buffer

\* Distances in the ring are below its size, and only a slot itself is at distance 0.
LEMMA DistNat ==
  ASSUME NEW p \in Slots, NEW s \in Slots
  PROVE  /\ Dist(p, s) \in 0 .. BufferCount - 1
         /\ Dist(p, s) = 0 <=> s = p
BY SizesAssumption DEF Dist, Slots

\* Slots behind a slot are told apart by their distance.
LEMMA DistInjective ==
  ASSUME NEW p \in Slots, NEW s \in Slots, NEW t \in Slots, Dist(p, s) = Dist(p, t)
  PROVE  s = t
BY SizesAssumption DEF Dist, Slots

\* The nearest slot is the one at the least distance ...
LEMMA NearestIs ==
  ASSUME NEW p \in Slots, NEW S \in SUBSET Slots, NEW s \in S,
         \A t \in S : Dist(p, s) <= Dist(p, t)
  PROVE  Nearest(p, S) = s
<1>1. \A t \in S : (\A u \in S : Dist(p, t) <= Dist(p, u)) => t = s
  <2> SUFFICES ASSUME NEW t \in S, \A u \in S : Dist(p, t) <= Dist(p, u) PROVE t = s
    OBVIOUS
  <2>1. Dist(p, t) = Dist(p, s)
    BY DistNat
  <2>2. QED BY <2>1, DistInjective
<1>2. QED BY <1>1 DEF Nearest

\* ... and a set of slots that is not empty has one.
LEMMA NearestExists ==
  ASSUME NEW p \in Slots, NEW S \in SUBSET Slots, S # {}
  PROVE  \E s \in S : \A t \in S : Dist(p, s) <= Dist(p, t)
<1> DEFINE T == {Dist(p, s) : s \in S}
<1>1. T \subseteq Nat /\ T # {}
  BY DistNat
<1>2. \E m \in T : \A n \in T : <<n, m>> \notin OpToRel(<, Nat)
  <2> HIDE DEF T
  <2>1. QED BY <1>1, NatLessThanWellFounded, WFMin, Zenon
<1>3. PICK m \in T : \A n \in T : <<n, m>> \notin OpToRel(<, Nat)
  BY <1>2, Zenon
<1>4. \A n \in T : m <= n
  <2> HIDE DEF T
  <2>1. \A n \in T : ~ (n < m)
    BY <1>1, <1>3 DEF OpToRel
  <2>2. QED BY <1>1, <2>1
<1>5. PICK s \in S : m = Dist(p, s)
  OBVIOUS
<1>6. QED BY <1>4, <1>5

\* The nearest entry of the window decides what is seen.
LEMMA OverlaidIs ==
  ASSUME NEW tb, NEW p \in Slots, NEW n, NEW d, NEW c, NEW h, NEW v,
         NEW s \in Window(tb, p, n, d, c, h),
         \A t \in Window(tb, p, n, d, c, h) : Dist(p, s) <= Dist(p, t)
  PROVE  Overlaid(tb, p, n, d, c, h, v) = tb[s].buf
<1> DEFINE S == Window(tb, p, n, d, c, h)
<1>1. S \in SUBSET Slots
  BY DEF Window
<1>2. Nearest(p, S) = s
  <2> HIDE DEF S
  <2>1. QED BY <1>1, NearestIs DEF S
<1>3. QED BY <1>2 DEF Overlaid

\* The window without its oldest entry, laid over the data of that entry
LEMMA DropOldest ==
  ASSUME NEW tb, NEW p \in Slots, NEW g \in Slots, g # p, NEW d, NEW c, NEW h, NEW v, NEW w,
         w = IF tb[g].drive = d /\ tb[g].cyl = c /\ tb[g].head = h THEN tb[g].buf ELSE v
  PROVE  Overlaid(tb, p, Dist(p, g), d, c, h, v)
           = Overlaid(tb, p, Dist(p, NextSlot(g)), d, c, h, w)
<1> DEFINE S == Window(tb, p, Dist(p, g), d, c, h)
           R == Window(tb, p, Dist(p, NextSlot(g)), d, c, h)
           isTrack == tb[g].drive = d /\ tb[g].cyl = c /\ tb[g].head = h
<1>1. /\ Dist(p, g) \in Nat /\ Dist(p, g) > 0
      /\ Dist(p, NextSlot(g)) = Dist(p, g) - 1
  <2>1. /\ BufferCount \in Nat /\ g \in 0 .. BufferCount - 1 /\ p \in 0 .. BufferCount - 1
        /\ NextSlot(g) = IF g = BufferCount - 1 THEN 0 ELSE g + 1
    BY SizesAssumption, NextSlotWraps DEF Slots
  <2>2. QED BY <2>1 DEF Dist
<1>2. \A s \in Slots : Dist(p, s) \in Nat /\ (Dist(p, s) = Dist(p, g) => s = g)
  BY DistNat, DistInjective
<1>3. R = S \ {g}
  BY <1>1, <1>2 DEF Window
<1>4. g \in S <=> isTrack
  BY <1>1 DEF Window
<1>5. CASE R # {}
  <2>1. R \in SUBSET Slots
    BY DEF Window
  <2>2. PICK s \in R : \A t \in R : Dist(p, s) <= Dist(p, t)
    <3> HIDE DEF R
    <3>1. QED BY <1>5, <2>1, NearestExists
  <2>3. s \in S /\ \A t \in S : Dist(p, s) <= Dist(p, t)
    BY <1>1, <1>2, <1>3, <2>2 DEF Window
  <2>4. Overlaid(tb, p, Dist(p, g), d, c, h, v) = tb[s].buf
    BY <2>3, OverlaidIs
  <2>5. Overlaid(tb, p, Dist(p, NextSlot(g)), d, c, h, w) = tb[s].buf
    BY <2>2, OverlaidIs
  <2>6. QED BY <2>4, <2>5
<1>6. CASE R = {} /\ isTrack
  <2>1. S = {g}
    BY <1>3, <1>4, <1>6
  <2>2. Overlaid(tb, p, Dist(p, g), d, c, h, v) = tb[g].buf
    <3>1. g \in S /\ \A t \in S : Dist(p, g) <= Dist(p, t)
      <4> HIDE DEF S
      <4>1. QED BY <1>1, <2>1
    <3>2. QED BY <3>1, OverlaidIs
  <2>3. QED BY <1>6, <2>2 DEF Overlaid
<1>7. CASE R = {} /\ ~ isTrack
  <2>1. S = {}
    <3> HIDE DEF S, R, isTrack
    <3>1. QED BY <1>3, <1>4, <1>7
  <2>2. QED BY <1>7, <2>1 DEF Overlaid
<1>8. QED BY <1>5, <1>6, <1>7

\* One slot on, every entry that is still published is one slot further behind.
LEMMA StepAhead ==
  ASSUME NEW p \in Slots, NEW n \in Nat, n < BufferCount - 1, NEW s \in Slots
  PROVE  /\ NextSlot(p) \in Slots /\ Dist(NextSlot(p), p) = 1
         /\ Dist(p, s) <= n => Dist(NextSlot(p), s) = Dist(p, s) + 1
         /\ s # p /\ 0 < Dist(NextSlot(p), s) => Dist(NextSlot(p), s) = Dist(p, s) + 1
<1> DEFINE q == NextSlot(p)
<1>1. /\ BufferCount \in Nat /\ p \in 0 .. BufferCount - 1 /\ s \in 0 .. BufferCount - 1
      /\ q = IF p = BufferCount - 1 THEN 0 ELSE p + 1
  BY SizesAssumption, NextSlotWraps DEF Slots
<1> HIDE DEF q
<1>2. q \in Slots /\ Dist(q, p) = 1
  BY <1>1 DEF Dist, Slots
<1>3. /\ Dist(p, s) <= n => Dist(q, s) = Dist(p, s) + 1
      /\ s # p /\ 0 < Dist(q, s) => Dist(q, s) = Dist(p, s) + 1
  BY <1>1 DEF Dist
<1>4. QED BY <1>2, <1>3 DEF q

\* update_buffer(): the entry at p is the newest of the window before the next slot.
LEMMA AddNewest ==
  ASSUME NEW tb, NEW tb2, NEW p \in Slots, NEW n \in Nat, n < BufferCount - 1,
         \A s \in Slots : s # p => tb2[s] = tb[s],
         NEW d, NEW c, NEW h, NEW v
  PROVE  /\ tb2[p].drive = d /\ tb2[p].cyl = c /\ tb2[p].head = h
              => Overlaid(tb2, NextSlot(p), n + 1, d, c, h, v) = tb2[p].buf
         /\ ~ (tb2[p].drive = d /\ tb2[p].cyl = c /\ tb2[p].head = h)
              => Overlaid(tb2, NextSlot(p), n + 1, d, c, h, v) = Overlaid(tb, p, n, d, c, h, v)
<1> DEFINE q == NextSlot(p)
           S == Window(tb, p, n, d, c, h)
           R == Window(tb2, q, n + 1, d, c, h)
           isTrack == tb2[p].drive = d /\ tb2[p].cyl = c /\ tb2[p].head = h
<1>1. /\ q \in Slots /\ Dist(q, p) = 1
      /\ \A s \in Slots : /\ Dist(p, s) <= n => Dist(q, s) = Dist(p, s) + 1
                          /\ s # p /\ 0 < Dist(q, s) => Dist(q, s) = Dist(p, s) + 1
  BY StepAhead
<1> HIDE DEF q
<1>2. \A s \in Slots : Dist(p, s) \in Nat /\ (Dist(p, s) = 0 <=> s = p)
  BY DistNat
<1>3. R = IF isTrack THEN S \cup {p} ELSE S
  <2>1. \A s \in Slots : s # p => (s \in R <=> s \in S)
    BY <1>1, <1>2 DEF Window
  <2>2. p \in R <=> isTrack
    BY <1>1 DEF Window
  <2>3. p \notin S
    BY <1>2 DEF Window
  <2>4. S \subseteq Slots /\ R \subseteq Slots
    BY DEF Window
  <2> HIDE DEF S, R, isTrack
  <2>5. QED BY <2>1, <2>2, <2>3, <2>4
<1>4. \A s \in S : s \in Slots /\ s # p /\ Dist(q, s) = Dist(p, s) + 1 /\ Dist(p, s) \in Nat
  BY <1>1, <1>2 DEF Window
<1>5. CASE isTrack
  <2>1. p \in R /\ \A t \in R : Dist(q, p) <= Dist(q, t)
    <3> HIDE DEF S, R, isTrack
    <3>1. QED BY <1>1, <1>3, <1>4, <1>5
  <2>2. Overlaid(tb2, q, n + 1, d, c, h, v) = tb2[p].buf
    BY <1>1, <2>1, OverlaidIs
  <2>3. QED BY <1>5, <2>2 DEF q
<1>6. CASE ~ isTrack /\ S = {}
  <2>1. R = {}
    <3> HIDE DEF S, R, isTrack
    <3>1. QED BY <1>3, <1>6
  <2>2. QED BY <1>6, <2>1 DEF Overlaid, q
<1>7. CASE ~ isTrack /\ S # {}
  <2>1. S \in SUBSET Slots
    BY DEF Window
  <2>2. PICK s \in S : \A t \in S : Dist(p, s) <= Dist(p, t)
    <3> HIDE DEF S
    <3>1. QED BY <1>7, <2>1, NearestExists
  <2>3. s \in R /\ \A t \in R : Dist(q, s) <= Dist(q, t)
    <3> HIDE DEF S, R, isTrack
    <3>1. QED BY <1>3, <1>4, <1>7, <2>2
  <2>4. Overlaid(tb2, q, n + 1, d, c, h, v) = tb2[s].buf
    BY <1>1, <2>3, OverlaidIs
  <2>5. Overlaid(tb, p, n, d, c, h, v) = tb[s].buf
    BY <2>2, OverlaidIs
  <2>6. tb2[s] = tb[s]
    BY <1>4
  <2>7. QED BY <1>7, <2>4, <2>5, <2>6 DEF q
<1>8. QED BY <1>5, <1>6, <1>7

\* The entry at p is not in the window: a copy to it changes nothing.
LEMMA OutsideWindow ==
  ASSUME NEW tb, NEW tb2, NEW p \in Slots, \A s \in Slots : s # p => tb2[s] = tb[s],
         NEW n, NEW d, NEW c, NEW h, NEW v
  PROVE  Overlaid(tb2, p, n, d, c, h, v) = Overlaid(tb, p, n, d, c, h, v)
<1> DEFINE S == Window(tb, p, n, d, c, h)
<1>1. \A s \in Slots : 0 < Dist(p, s) => s # p
  BY DistNat
<1>2. Window(tb2, p, n, d, c, h) = S
  BY <1>1 DEF Window
<1>3. CASE S = {}
  BY <1>2, <1>3 DEF Overlaid
<1>4. CASE S # {}
  <2>1. S \in SUBSET Slots /\ \A s \in S : s # p
    BY <1>1 DEF Window
  <2>2. PICK s \in S : \A t \in S : Dist(p, s) <= Dist(p, t)
    <3> HIDE DEF S
    <3>1. QED BY <1>4, <2>1, NearestExists, SMTT(30)
  <2>3. /\ Overlaid(tb, p, n, d, c, h, v) = tb[s].buf
        /\ Overlaid(tb2, p, n, d, c, h, v) = tb2[s].buf
    BY <1>2, <2>2, OverlaidIs
  <2>4. QED BY <2>1, <2>3
<1>5. QED BY <1>3, <1>4

-----------------------------------------------------------------------------
\* Turns, loaded cylinders and dirty bits

\* What a step of a party leaves alone
LEMMA WriteFrame == WriteThread => UNCHANGED <<sharedVars, pruVars, readerVars, trackBuffer, put>>
BY DEF WriteThread, WaitSem, CheckEntry, RewriteTrack, ReleaseEntry, CloseFiles, bufferVars

\* Nor does the read thread touch the write thread's, nor the slot it takes from.
LEMMA ReadFrame == ReadThread => UNCHANGED <<pruVars, writerVars, get>>
BY DEF ReadThread, FetchCyl, ReadTrack, StartOverlay, OverlayEntry, SendCyl, FetchDone, ExecCmd,
       CmdTaken, WaitEvent, ClearEvent, ReadDirty, ReadCurCyl, ClearDirty, CopyTrack, ScanDone,
       PutTrack, PostTrack, DrivesDone, AckExit, PutMarker, PostMarker, UpdateBuffer, PostSem,
       bufferVars

\* The PRUs, the controller and main() leave both threads and the track buffer alone.
LEMMA PruFrame ==
  PruProgram \/ Controller \/ RequestExit \/ Shutdown \/ UNCHANGED vars
    => UNCHANGED <<bufferVars, readerVars, writerVars>>
BY DEF PruProgram, PruTakeStart, PruExitCmd, PruExitCyl, PruExitInterrupt, PruHalt, Controller,
       PruSeek, PruStepWaiting, PruWrite, RequestExit, Shutdown, JoinWriteThread, JoinReadThread,
       PruShutdown, vars

\* BuffersUsed is the distance from get to put.
LEMMA UsedIsDist == BuffersUsed = Dist(put, get) /\ BuffersUsed' = Dist(put', get')
BY DEF BuffersUsed, Dist

\* Every step keeps the turns: the PRUs serve while the read thread waits for their event.
LEMMA TurnStep == TurnInv /\ [Next]_vars => TurnInv'
<1> SUFFICES ASSUME TurnInv, [Next]_vars PROVE TurnInv'
  OBVIOUS
<1>1. CASE ReadThread
  <2>1. CASE FetchCyl \/ ReadTrack \/ StartOverlay \/ OverlayEntry \/ SendCyl \/ FetchDone
    BY <2>1 DEF FetchCyl, ReadTrack, StartOverlay, OverlayEntry, SendCyl, FetchDone,
                sharedVars, pruVars, TurnInv
  <2>2. CASE ExecCmd \/ CmdTaken \/ WaitEvent \/ ClearEvent
    BY <2>2 DEF ExecCmd, CmdTaken, WaitEvent, ClearEvent, sharedVars, pruVars, TurnInv
  <2>3. CASE ReadDirty \/ ReadCurCyl \/ ClearDirty \/ CopyTrack \/ ScanDone \/ DrivesDone
    BY <2>3 DEF ReadDirty, ReadCurCyl, ClearDirty, CopyTrack, ScanDone, DrivesDone,
                sharedVars, pruVars, TurnInv
  <2>4. CASE PutTrack \/ PostTrack \/ AckExit \/ PutMarker \/ PostMarker
    BY <2>4 DEF PutTrack, PostTrack, AckExit, PutMarker, PostMarker, sharedVars, pruVars, TurnInv
  <2>5. QED BY <1>1, <2>1, <2>2, <2>3, <2>4 DEF ReadThread
<1>2. CASE WriteThread
  BY <1>2, WriteFrame DEF sharedVars, pruVars, readerVars, TurnInv
<1>3. CASE PruProgram
  BY <1>3, PruFrame DEF PruProgram, PruTakeStart, PruExitCmd, PruExitCyl, PruExitInterrupt,
                        PruHalt, readerVars, TurnInv
<1>4. CASE Controller
  BY <1>4, PruFrame DEF Controller, PruSeek, PruStepWaiting, PruWrite, readerVars, TurnInv
<1>5. CASE RequestExit \/ Shutdown \/ UNCHANGED vars
  BY <1>5, PruFrame DEF RequestExit, Shutdown, JoinWriteThread, JoinReadThread, PruShutdown,
                        readerVars, sharedVars, pruVars, vars, TurnInv
<1>6. QED BY <1>1, <1>2, <1>3, <1>4, <1>5 DEF Next

\* Every step keeps which drives have had a cylinder fetched.
LEMMA LoadStep == TypeInv /\ LoadInv /\ [Next]_vars => LoadInv'
<1> SUFFICES ASSUME TypeInv, LoadInv, [Next]_vars PROVE LoadInv'
  OBVIOUS
<1>1. /\ drv \in 0 .. NumDrives /\ NumDrives \in Nat /\ Drives = 0 .. NumDrives - 1
      /\ cyl \in [Drives -> Cyls \cup {NoCyl}]
      /\ done = FALSE => \A d \in Drives : newCyl[d] # NoCyl
  BY SizesAssumption DEF TypeInv, TypeOK, ReaderOK, ReaderInv, Drives, Cyls, NoCyl
<1>2. CASE ReadThread
  <2>1. CASE FetchCyl
    <3>1. drv \in Drives /\ done = FALSE
      BY <1>1, <2>1 DEF FetchCyl, TypeInv, ReaderInv
    <3>2. CASE newCyl[drv] # cyl[drv]
      BY <1>1, <2>1, <3>1, <3>2 DEF FetchCyl, LoadInv
    <3>3. CASE newCyl[drv] = cyl[drv]
      <4>1. cyl' = cyl /\ drv' = drv + 1 /\ rpc' = "fetch" /\ cyl[drv] # NoCyl
        BY <1>1, <2>1, <3>1, <3>3 DEF FetchCyl
      <4>2. \A d \in Drives : d < drv + 1 => d < drv \/ d = drv
        BY <1>1
      <4>3. QED BY <2>1, <4>1, <4>2 DEF FetchCyl, LoadInv
    <3>4. QED BY <3>2, <3>3
  <2>2. CASE SendCyl
    <3>1. cyl' = cyl /\ drv' = drv + 1 /\ rpc' = "fetch" /\ cyl[drv] # NoCyl
      BY <2>2 DEF SendCyl, TypeInv, ReaderInv, Cyls, NoCyl
    <3>2. \A d \in Drives : d < drv + 1 => d < drv \/ d = drv
      BY <1>1
    <3>3. QED BY <2>2, <3>1, <3>2 DEF SendCyl, LoadInv
  <2>3. CASE FetchDone
    BY <1>1, <2>3 DEF FetchDone, LoadInv
  <2>4. CASE ReadTrack \/ StartOverlay \/ OverlayEntry \/ ExecCmd \/ CmdTaken \/ WaitEvent
             \/ ClearEvent \/ ReadDirty \/ ReadCurCyl \/ ClearDirty
    BY <2>4 DEF ReadTrack, StartOverlay, OverlayEntry, ExecCmd, CmdTaken, WaitEvent, ClearEvent,
                ReadDirty, ReadCurCyl, ClearDirty, LoadInv
  <2>5. CASE CopyTrack \/ ScanDone \/ PutTrack \/ PostTrack \/ DrivesDone \/ AckExit
             \/ PutMarker \/ PostMarker
    BY <2>5 DEF CopyTrack, ScanDone, PutTrack, PostTrack, DrivesDone, AckExit, PutMarker,
                PostMarker, LoadInv
  <2>6. QED BY <1>2, <2>1, <2>2, <2>3, <2>4, <2>5 DEF ReadThread
<1>3. CASE ~ ReadThread
  <2>1. UNCHANGED readerVars
    BY <1>3, WriteFrame, PruFrame DEF Next
  <2>2. QED BY <2>1 DEF readerVars, LoadInv
<1>4. QED BY <1>2, <1>3

\* Every step keeps which dirty bits are still to be collected.
LEMMA DirtyStep ==
  TypeInv /\ TurnInv /\ DirtyInv /\ [Next]_vars => DirtyInv'
<1> SUFFICES ASSUME TypeInv, TurnInv, DirtyInv, [Next]_vars PROVE DirtyInv'
  OBVIOUS
<1>1. /\ drv \in 0 .. NumDrives /\ NumDrives \in Nat /\ Drives = 0 .. NumDrives - 1
      /\ put \in Slots /\ trackBuffer \in [Slots -> Entry]
      /\ trkDirty \in [Drives -> SUBSET (Heads \cup {BadHead})]
      /\ rpc \in {"cyl", "undirty", "scan", "put", "post"} => drv < NumDrives
  BY SizesAssumption DEF TypeInv, TypeOK, SharedOK, BufferOK, ReaderOK, ReaderInv, Drives
<1>2. CASE ReadThread
  <2>1. CASE FetchCyl \/ ReadTrack \/ StartOverlay \/ OverlayEntry \/ SendCyl
    BY <2>1 DEF FetchCyl, ReadTrack, StartOverlay, OverlayEntry, SendCyl, sharedVars, DirtyInv
  <2>2. CASE FetchDone \/ ExecCmd \/ CmdTaken \/ WaitEvent \/ ClearEvent
    <3>1. CASE ClearEvent
      BY <1>1, <3>1 DEF ClearEvent, DirtyInv
    <3>2. CASE FetchDone \/ ExecCmd \/ CmdTaken \/ WaitEvent
      BY <3>2 DEF FetchDone, ExecCmd, CmdTaken, WaitEvent, sharedVars, DirtyInv
    <3>3. QED BY <2>2, <3>1, <3>2
  <2>3. CASE ReadDirty
    BY <2>3 DEF ReadDirty, sharedVars, DirtyInv
  <2>4. CASE ReadCurCyl
    <3>1. CASE dirty = {}
      <4>1. \A d \in Drives : d < drv + 1 => d < drv \/ d = drv
        BY <1>1
      <4>2. \A d \in Drives : d < drv + 1 => trkDirty[d] = {}
        BY <2>4, <3>1, <4>1 DEF ReadCurCyl, DirtyInv
      <4>3. rpc' = "dirty" /\ drv' = drv + 1 /\ UNCHANGED trkDirty
        BY <2>4, <3>1 DEF ReadCurCyl, sharedVars
      <4>4. QED BY <4>2, <4>3 DEF DirtyInv
    <3>2. CASE dirty # {}
      BY <2>4, <3>2 DEF ReadCurCyl, sharedVars, DirtyInv
    <3>3. QED BY <3>1, <3>2
  <2>5. CASE ClearDirty
    <3>1. drv \in Drives
      BY <1>1, <2>5 DEF ClearDirty
    <3>2. QED BY <1>1, <2>5, <3>1 DEF ClearDirty, DirtyInv
  <2>6. CASE CopyTrack
    <3>1. trk \in dirty => trackBuffer'[put].buf = ddr[drv][trk]
      BY <1>1, <2>6 DEF CopyTrack, Entry
    <3>2. UNCHANGED <<drv, dirty, trkDirty, ddr, put>> /\ rpc = "scan"
      BY <2>6 DEF CopyTrack, sharedVars
    <3>3. rpc' = "scan" \/ (rpc' = "put" /\ trk \in dirty /\ trk' = trk)
      BY <2>6 DEF CopyTrack
    <3>4. QED BY <3>1, <3>2, <3>3 DEF DirtyInv
  <2>7. CASE ScanDone
    <3>1. \A d \in Drives : d < drv + 1 => d < drv \/ d = drv
      BY <1>1
    <3>2. QED BY <2>7, <3>1 DEF ScanDone, sharedVars, DirtyInv
  <2>8. CASE PutTrack \/ PostTrack
    BY <2>8 DEF PutTrack, PostTrack, sharedVars, DirtyInv
  <2>9. CASE DrivesDone
    <3>1. \A d \in Drives : d < drv
      BY <1>1, <2>9 DEF DrivesDone
    <3>2. QED BY <2>9, <3>1 DEF DrivesDone, sharedVars, DirtyInv
  <2>10. CASE AckExit \/ PutMarker \/ PostMarker
    BY <2>10 DEF AckExit, PutMarker, PostMarker, sharedVars, DirtyInv
  <2>11. QED
    BY <1>2, <2>1, <2>2, <2>3, <2>4, <2>5, <2>6, <2>7, <2>8, <2>9, <2>10 DEF ReadThread
<1>3. CASE \E d \in Drives, h \in Heads \cup {BadHead}, v \in Data : PruWrite(d, h, v)
  <2>1. rpc' \in {"spin", "wait"}
    BY <1>3 DEF PruWrite, readerVars, TurnInv
  <2>2. QED BY <2>1 DEF DirtyInv
<1>4. CASE /\ ~ ReadThread
           /\ ~ \E d \in Drives, h \in Heads \cup {BadHead}, v \in Data : PruWrite(d, h, v)
  <2>1. UNCHANGED <<readerVars, trackBuffer, put>>
    BY <1>4, WriteFrame, PruFrame DEF Next, bufferVars
  <2>2. UNCHANGED <<trkDirty, ddr>>
    BY <1>4, WriteFrame
    DEF Next, PruProgram, PruTakeStart, PruExitCmd, PruExitCyl, PruExitInterrupt, PruHalt,
        Controller, PruSeek, PruStepWaiting, RequestExit, Shutdown, JoinWriteThread,
        JoinReadThread, PruShutdown, vars, sharedVars
  <2>3. QED BY <2>1, <2>2 DEF readerVars, DirtyInv
<1>5. QED BY <1>2, <1>3, <1>4

-----------------------------------------------------------------------------
\* What is stored

\* What Stored is for one track, now and after a step.
LEMMA StoredAt ==
  ASSUME NEW d \in Drives, NEW c \in Cyls, NEW h \in Heads
  PROVE  /\ Stored[d][c][h] = Overlaid(trackBuffer, put, BuffersUsed, d, c, h, file[d][c][h])
         /\ Stored'[d][c][h]
              = Overlaid(trackBuffer', put', BuffersUsed', d, c, h, file'[d][c][h])
BY DEF Stored

\* A step that leaves every track's stored data leaves Stored.
LEMMA StoredSame ==
  ASSUME \A d \in Drives, c \in Cyls, h \in Heads : Stored'[d][c][h] = Stored[d][c][h]
  PROVE  Stored' = Stored
<1>1. \A d \in Drives, c \in Cyls : Stored'[d][c] = Stored[d][c]
  <2> SUFFICES ASSUME NEW d \in Drives, NEW c \in Cyls PROVE Stored'[d][c] = Stored[d][c]
    OBVIOUS
  <2> DEFINE F == [h \in Heads |->
                     Overlaid(trackBuffer, put, BuffersUsed, d, c, h, file[d][c][h])]
             G == [h \in Heads |->
                     Overlaid(trackBuffer', put', BuffersUsed', d, c, h, file'[d][c][h])]
  <2>1. Stored[d][c] = F /\ Stored'[d][c] = G
    BY DEF Stored
  <2>2. \A h \in Heads : F[h] = G[h]
    <3> HIDE DEF F, G
    <3>1. QED BY <2>1
  <2>3. F = G
    <3>1. F = [h \in Heads |-> F[h]] /\ G = [h \in Heads |-> G[h]]
      OBVIOUS
    <3> HIDE DEF F, G
    <3>2. QED BY <2>2, <3>1
  <2>4. QED BY <2>1, <2>3
<1>2. \A d \in Drives : Stored'[d] = Stored[d]
  <2> SUFFICES ASSUME NEW d \in Drives PROVE Stored'[d] = Stored[d]
    OBVIOUS
  <2>1. Stored[d] = [c \in Cyls |-> Stored[d][c]] /\ Stored'[d] = [c \in Cyls |-> Stored'[d][c]]
    BY DEF Stored
  <2>2. QED BY <1>1, <2>1
<1>3. Stored = [d \in Drives |-> Stored[d]] /\ Stored' = [d \in Drives |-> Stored'[d]]
  BY DEF Stored
<1>4. QED BY <1>2, <1>3

\* Every step keeps that an entry about to be released is in the file.
LEMMA WriteInvStep ==
  TypeInv /\ SemMatchesBuffer /\ WriteInv /\ [Next]_vars => WriteInv'
<1> SUFFICES ASSUME TypeInv, SemMatchesBuffer, WriteInv, [Next]_vars PROVE WriteInv'
  OBVIOUS
<1>1. CASE RewriteTrack
  <2> DEFINE e == trackBuffer[get]
  <2>1. e.head \in Heads /\ file \in [Drives -> [Cyls -> [Heads -> Data \cup {Torn}]]]
    BY DEF TypeInv, TypeOK, BufferOK, WriterOK, Entry, Track
  <2>2. UNCHANGED <<trackBuffer, get>> /\ file' = [file EXCEPT ![e.drive][e.cyl][e.head] = e.buf]
    BY <1>1 DEF RewriteTrack, bufferVars
  <2> HIDE DEF e
  <2>3. e.drive \in Drives /\ e.cyl \in Cyls => file'[e.drive][e.cyl][e.head] = e.buf
    BY <2>1, <2>2
  <2>4. QED BY <2>2, <2>3 DEF e, WriteInv
<1>2. CASE WriteThread /\ ~ RewriteTrack
  <2>1. wpc' # "advance"
    BY <1>2 DEF WriteThread, WaitSem, CheckEntry, ReleaseEntry, CloseFiles
  <2>2. QED BY <2>1 DEF WriteInv
<1>3. CASE ~ WriteThread
  <2>1. UNCHANGED <<writerVars, get>>
    BY <1>3, ReadFrame, PruFrame DEF Next, bufferVars
  <2>2. wpc = "advance" => trackBuffer'[get] = trackBuffer[get]
    BY HeldKept
  <2>3. QED BY <2>1, <2>2 DEF WriteInv, writerVars
<1>4. QED BY <1>1, <1>2, <1>3

\* No step of the write thread changes what is stored.
LEMMA StoredWrite ==
  ASSUME TypeInv, SemMatchesBuffer, WriteInv, WriteThread
  PROVE  /\ Stored' = Stored
         /\ \A d \in Drives, c \in Cyls, h \in Heads :
              \/ file'[d][c][h] = file[d][c][h]
              \/ get \in Window(trackBuffer, put, BuffersUsed, d, c, h)
<1> DEFINE e == trackBuffer[get]
           isTrack(d, c, h) == e.drive = d /\ e.cyl = c /\ e.head = h
<1>1. /\ get \in Slots /\ put \in Slots
      /\ BuffersUsed = Dist(put, get) /\ BuffersUsed' = Dist(put', get')
      /\ UNCHANGED <<trackBuffer, put>>
  BY UsedIsDist, WriteFrame DEF TypeInv, TypeOK, BufferOK
<1>2. \A d \in Drives, c \in Cyls, h \in Heads :
        file'[d][c][h] = file[d][c][h] \/ (isTrack(d, c, h) /\ (CheckEntry \/ RewriteTrack))
  <2> SUFFICES ASSUME NEW d \in Drives, NEW c \in Cyls, NEW h \in Heads,
                      ~ isTrack(d, c, h) \/ ~ (CheckEntry \/ RewriteTrack)
               PROVE  file'[d][c][h] = file[d][c][h]
    OBVIOUS
  <2>1. CASE WaitSem \/ ReleaseEntry \/ CloseFiles
    BY <2>1 DEF WaitSem, ReleaseEntry, CloseFiles
  <2>2. CASE CheckEntry \/ RewriteTrack
    <3>1. \E v : file' = file \/ file' = [file EXCEPT ![e.drive][e.cyl][e.head] = v]
      BY <2>2 DEF CheckEntry, RewriteTrack
    <3>2. file \in [Drives -> [Cyls -> [Heads -> Data \cup {Torn}]]]
      BY DEF TypeInv, TypeOK, WriterOK, Track
    <3>3. ~ (e.drive = d /\ e.cyl = c /\ e.head = h)
      BY <2>2
    <3> HIDE DEF e, isTrack
    <3>4. QED BY <3>1, <3>2, <3>3, SMTT(30)
  <2>3. QED BY <2>1, <2>2 DEF WriteThread
<1>3. CheckEntry \/ RewriteTrack \/ ReleaseEntry => 0 < Dist(put, get) /\ get # put
  <2>1. CheckEntry \/ RewriteTrack \/ ReleaseEntry => wpc # "sem"
    BY DEF CheckEntry, RewriteTrack, ReleaseEntry
  <2>2. QED BY <1>1, <2>1, HeldPublished, DistNat
<1>4. \A d \in Drives, c \in Cyls, h \in Heads :
        \/ file'[d][c][h] = file[d][c][h]
        \/ (CheckEntry \/ RewriteTrack) /\ get \in Window(trackBuffer, put, BuffersUsed, d, c, h)
  <2> SUFFICES ASSUME NEW d \in Drives, NEW c \in Cyls, NEW h \in Heads,
                      file'[d][c][h] # file[d][c][h]
               PROVE  (CheckEntry \/ RewriteTrack)
                      /\ get \in Window(trackBuffer, put, BuffersUsed, d, c, h)
    OBVIOUS
  <2>1. isTrack(d, c, h) /\ (CheckEntry \/ RewriteTrack)
    BY <1>2
  <2>2. Dist(put, get) \in Nat
    BY <1>1, DistNat
  <2>3. QED BY <1>1, <1>3, <2>1, <2>2 DEF Window
<1>5. \A d \in Drives, c \in Cyls, h \in Heads : Stored'[d][c][h] = Stored[d][c][h]
  <2> SUFFICES ASSUME NEW d \in Drives, NEW c \in Cyls, NEW h \in Heads
               PROVE  Stored'[d][c][h] = Stored[d][c][h]
    OBVIOUS
  <2>1. CASE ReleaseEntry
    <3>1. file' = file /\ put' = put /\ trackBuffer' = trackBuffer /\ get' = NextSlot(get)
          /\ wpc = "advance"
      BY <2>1 DEF ReleaseEntry
    <3>2. isTrack(d, c, h) => file[d][c][h] = trackBuffer[get].buf
      BY <3>1 DEF WriteInv
    <3>3. Overlaid(trackBuffer, put, Dist(put, get), d, c, h, file[d][c][h])
            = Overlaid(trackBuffer, put, Dist(put, NextSlot(get)), d, c, h, file[d][c][h])
      BY <1>1, <1>3, <2>1, <3>2, DropOldest
    <3>4. QED BY <1>1, <3>1, <3>3, StoredAt
  <2>2. CASE ~ ReleaseEntry
    <3>1. get' = get /\ BuffersUsed' = BuffersUsed
      BY <1>1, <2>2 DEF WriteThread, WaitSem, CheckEntry, RewriteTrack, CloseFiles, bufferVars
    <3>2. Overlaid(trackBuffer, put, BuffersUsed, d, c, h, file'[d][c][h])
            = Overlaid(trackBuffer, put, BuffersUsed, d, c, h, file[d][c][h])
      BY <1>4 DEF Overlaid
    <3>3. QED BY <1>1, <3>1, <3>2, StoredAt
  <2>3. QED BY <2>1, <2>2
<1>6. QED BY <1>4, <1>5, StoredSame

\* update_buffer() finds room.
LEMMA RoomToPut ==
  ASSUME TypeInv, NextSlot(put) # get
  PROVE  BuffersUsed \in Nat /\ BuffersUsed < BufferCount - 1
<1>1. /\ BufferCount \in Nat /\ get \in 0 .. BufferCount - 1 /\ put \in 0 .. BufferCount - 1
      /\ NextSlot(put) = IF put = BufferCount - 1 THEN 0 ELSE put + 1
  BY SizesAssumption, NextSlotWraps DEF TypeInv, TypeOK, BufferOK, Slots
<1>2. QED BY <1>1 DEF BuffersUsed

\* update_buffer() for a track stores the data of its entry.
LEMMA StoredPut ==
  ASSUME TypeInv, NEW e \in Drives \cup {ExitMarker}, NEW b, NEW t, UpdateBuffer(e, b, t),
         UNCHANGED file, NEW d \in Drives, NEW c \in Cyls, NEW h \in Heads
  PROVE  Stored'[d][c][h] = IF e = d /\ b = c /\ t = h THEN trackBuffer[put].buf
                                                       ELSE Stored[d][c][h]
<1>1. /\ put \in Slots /\ put' = NextSlot(put) /\ NextSlot(put) # get /\ get' = get
      /\ BuffersUsed = Dist(put, get) /\ BuffersUsed' = Dist(put', get)
      /\ trackBuffer \in [Slots -> Entry] /\ get \in Slots
  BY UsedIsDist DEF UpdateBuffer, TypeInv, TypeOK, BufferOK
<1>2. BuffersUsed \in Nat /\ BuffersUsed < BufferCount - 1
  BY <1>1, RoomToPut
<1>3. BuffersUsed' = BuffersUsed + 1
  BY <1>1, UsedPut DEF TypeInv, TypeOK
<1>4. /\ \A s \in Slots : s # put => trackBuffer'[s] = trackBuffer[s]
      /\ trackBuffer'[put].drive = e /\ trackBuffer'[put].cyl = b /\ trackBuffer'[put].head = t
      /\ trackBuffer'[put].buf = trackBuffer[put].buf
  BY <1>1 DEF UpdateBuffer, Entry
<1>5. Overlaid(trackBuffer', NextSlot(put), BuffersUsed + 1, d, c, h, file[d][c][h])
        = IF e = d /\ b = c /\ t = h THEN trackBuffer[put].buf
          ELSE Overlaid(trackBuffer, put, BuffersUsed, d, c, h, file[d][c][h])
  <2> DEFINE v == file[d][c][h]
             isTrack == /\ trackBuffer'[put].drive = d
                        /\ trackBuffer'[put].cyl = c
                        /\ trackBuffer'[put].head = h
  <2>1. /\ isTrack => Overlaid(trackBuffer', NextSlot(put), BuffersUsed + 1, d, c, h, v)
                         = trackBuffer'[put].buf
        /\ ~ isTrack => Overlaid(trackBuffer', NextSlot(put), BuffersUsed + 1, d, c, h, v)
                           = Overlaid(trackBuffer, put, BuffersUsed, d, c, h, v)
    <3> HIDE DEF v
    <3>1. put \in Slots /\ \A s \in Slots : s # put => trackBuffer'[s] = trackBuffer[s]
      BY <1>1, <1>4
    <3>2. BufferCount \in Nat
      BY SizesAssumption
    <3>3. QED BY <1>2, <3>1, <3>2, AddNewest
  <2>2. QED BY <1>4, <2>1
<1>6. QED BY <1>1, <1>3, <1>5, StoredAt

\* Any other step leaves it alone.
LEMMA StoredKept ==
  ASSUME TypeInv, SemMatchesBuffer, WriteInv, [Next]_vars, ~ PutTrack
  PROVE  Stored' = Stored
<1>1. CASE WriteThread
  BY <1>1, StoredWrite
<1>2. CASE PutMarker
  <2>1. \A d \in Drives, c \in Cyls, h \in Heads : Stored'[d][c][h] = Stored[d][c][h]
    <3> SUFFICES ASSUME NEW d \in Drives, NEW c \in Cyls, NEW h \in Heads
                 PROVE  Stored'[d][c][h] = Stored[d][c][h]
      OBVIOUS
    <3>1. UpdateBuffer(ExitMarker, 0, 0) /\ UNCHANGED file /\ ExitMarker # d
      BY <1>2, SizesAssumption DEF PutMarker, writerVars, ExitMarker, Drives
    <3>2. QED BY <3>1, StoredPut, SMTT(30)
  <2>2. QED BY <2>1, StoredSame
<1>3. CASE CopyTrack
  <2>1. /\ put \in Slots /\ UNCHANGED <<put, get, file>>
        /\ \A s \in Slots : s # put => trackBuffer'[s] = trackBuffer[s]
    BY <1>3 DEF CopyTrack, writerVars, TypeInv, TypeOK, BufferOK
  <2>2. BuffersUsed' = BuffersUsed
    BY <2>1, UsedIsDist
  <2>3. \A d \in Drives, c \in Cyls, h \in Heads : Stored'[d][c][h] = Stored[d][c][h]
    <3> SUFFICES ASSUME NEW d \in Drives, NEW c \in Cyls, NEW h \in Heads
                 PROVE  Stored'[d][c][h] = Stored[d][c][h]
      OBVIOUS
    <3>1. Overlaid(trackBuffer', put, BuffersUsed, d, c, h, file[d][c][h])
            = Overlaid(trackBuffer, put, BuffersUsed, d, c, h, file[d][c][h])
      BY <2>1, OutsideWindow
    <3>2. QED BY <2>1, <2>2, <3>1, StoredAt
  <2>4. QED BY <2>3, StoredSame
<1>4. CASE ~ (WriteThread \/ PutMarker \/ CopyTrack)
  <2>1. UNCHANGED <<trackBuffer, put, get, file>>
    BY <1>4, PruFrame
    DEF Next, ReadThread, FetchCyl, ReadTrack, StartOverlay, OverlayEntry, SendCyl, FetchDone,
        ExecCmd, CmdTaken, WaitEvent, ClearEvent, ReadDirty, ReadCurCyl, ClearDirty, ScanDone,
        PostTrack, PostMarker, PostSem, DrivesDone, AckExit, bufferVars, writerVars
  <2>2. BuffersUsed' = BuffersUsed
    BY <2>1, UsedIsDist
  <2>3. QED BY <2>1, <2>2 DEF Stored
<1>5. QED BY <1>1, <1>2, <1>3, <1>4

-----------------------------------------------------------------------------
\* The exit marker

\* Every step keeps that the exit marker is the last entry.
LEMMA MarkerStep ==
  TypeInv /\ SemMatchesBuffer /\ MarkerInv /\ [Next]_vars => MarkerInv'
<1> SUFFICES ASSUME TypeInv, SemMatchesBuffer, MarkerInv, [Next]_vars PROVE MarkerInv'
  OBVIOUS
<1> DEFINE Marks(s) == /\ 0 < Dist(put, s) /\ Dist(put, s) <= BuffersUsed
                       /\ trackBuffer[s].drive = ExitMarker
<1>1. /\ get \in Slots /\ put \in Slots /\ trackBuffer \in [Slots -> Entry]
      /\ BuffersUsed \in Nat /\ BuffersUsed = Dist(put, get) /\ BuffersUsed' = Dist(put', get')
      /\ \A s \in Slots : Dist(put, s) \in Nat
      /\ BufferCount \in Nat
  BY SizesAssumption, UsedIsDist, UsedBounds, DistNat DEF TypeInv, TypeOK, BufferOK
<1>2. \A s \in Slots : Marks(s) => Dist(put, s) = 1 /\ rpc \in {"markpost", "done"}
  BY DEF MarkerInv
<1>3. ASSUME NEW s \in Slots, Marks(s)'
      PROVE  Dist(put', s) = 1 /\ rpc' \in {"markpost", "done"}
  <2>1. ASSUME NEW e \in Drives \cup {ExitMarker}, NEW c, NEW h, UpdateBuffer(e, c, h), s # put
        PROVE  Marks(s)
    <3>1. /\ put' = NextSlot(put) /\ NextSlot(put) # get /\ get' = get
          /\ trackBuffer'[s] = trackBuffer[s]
      BY <1>1, <2>1 DEF UpdateBuffer
    <3>2. BuffersUsed < BufferCount - 1 /\ BuffersUsed' = BuffersUsed + 1
      BY <3>1, RoomToPut, UsedPut DEF TypeInv, TypeOK
    <3>3. Dist(put', s) = Dist(put, s) + 1
      <4>1. 0 < Dist(put', s)
        BY <1>3
      <4>2. QED BY <1>1, <2>1, <3>1, <3>2, <4>1, StepAhead
    <3>4. Dist(put, s) \in Nat /\ Dist(put, s) # 0
      BY <1>1, <2>1, DistNat
    <3>5. QED BY <1>1, <1>3, <3>1, <3>2, <3>3, <3>4
  <2>2. CASE PutTrack
    <3>1. drv \in Drives \cup {ExitMarker} /\ drv # ExitMarker
      BY <2>2, SizesAssumption
      DEF PutTrack, TypeInv, ReaderInv, TypeOK, ReaderOK, Drives, ExitMarker
    <3>2. UpdateBuffer(drv, cyl[drv], trk) /\ rpc = "put"
      BY <2>2 DEF PutTrack
    <3>3. trackBuffer'[put].drive = drv
      BY <1>1, <3>2 DEF UpdateBuffer, Entry
    <3>4. s # put
      BY <1>3, <3>1, <3>3
    <3>5. Marks(s)
      BY <2>1, <3>1, <3>2, <3>4
    <3>6. QED BY <1>2, <3>2, <3>5
  <2>3. CASE PutMarker
    <3>1. UpdateBuffer(ExitMarker, 0, 0) /\ rpc = "mark" /\ rpc' = "markpost"
      BY <2>3 DEF PutMarker
    <3>2. s = put
      BY <1>2, <2>1, <3>1
    <3>3. Dist(put', s) = 1
      <4>1. put' = NextSlot(put) /\ NextSlot(put) # get
        BY <3>1 DEF UpdateBuffer
      <4>2. BuffersUsed < BufferCount - 1
        BY <4>1, RoomToPut
      <4>3. QED BY <1>1, <3>2, <4>1, <4>2, StepAhead
    <3>4. QED BY <3>1, <3>3
  <2>4. CASE CopyTrack
    <3>1. put' = put /\ get' = get /\ rpc = "scan"
      BY <2>4 DEF CopyTrack
    <3>2. trackBuffer'[s].drive = trackBuffer[s].drive
      BY <1>1, <2>4 DEF CopyTrack, Entry
    <3>3. QED BY <1>1, <1>2, <1>3, <3>1, <3>2
  <2>5. CASE ReadThread /\ ~ (PutTrack \/ PutMarker \/ CopyTrack)
    <3>1. UNCHANGED <<put, get, trackBuffer>>
      BY <2>5
      DEF ReadThread, FetchCyl, ReadTrack, StartOverlay, OverlayEntry, SendCyl, FetchDone, ExecCmd,
          CmdTaken, WaitEvent, ClearEvent, ReadDirty, ReadCurCyl, ClearDirty, ScanDone, PostTrack,
          PostMarker, PostSem, DrivesDone, AckExit, bufferVars
    <3>2. Marks(s)
      BY <1>1, <1>3, <3>1
    <3>3. rpc \in {"markpost", "done"} => rpc' \in {"markpost", "done"}
      BY <2>5
      DEF ReadThread, FetchCyl, ReadTrack, StartOverlay, OverlayEntry, SendCyl, FetchDone, ExecCmd,
          CmdTaken, WaitEvent, ClearEvent, ReadDirty, ReadCurCyl, ClearDirty, ScanDone, PostTrack,
          PostMarker, DrivesDone, AckExit
    <3>4. QED BY <1>2, <3>1, <3>2, <3>3
  <2>6. CASE WriteThread
    <3>1. UNCHANGED <<put, trackBuffer, rpc>>
      BY <2>6, WriteFrame DEF readerVars
    <3>2. BuffersUsed' <= BuffersUsed
      <4>1. CASE ReleaseEntry
        <5>1. get' = NextSlot(get) /\ get # put
          BY <4>1, HeldPublished DEF ReleaseEntry
        <5>2. QED BY <1>1, <3>1, <5>1, UsedGet DEF TypeInv, TypeOK
      <4>2. CASE ~ ReleaseEntry
        <5>1. get' = get
          BY <2>6, <4>2 DEF WriteThread, WaitSem, CheckEntry, RewriteTrack, CloseFiles, bufferVars
        <5>2. QED BY <1>1, <3>1, <5>1
      <4>3. QED BY <4>1, <4>2
    <3>3. BuffersUsed' \in Int
      <4>1. put' \in Slots /\ get' \in Slots
        BY <1>1, <2>6, <3>1, NextSlotWraps
        DEF WriteThread, WaitSem, CheckEntry, RewriteTrack, ReleaseEntry, CloseFiles, bufferVars
      <4>2. QED BY <1>1, <4>1, DistNat
    <3>4. Marks(s)
      BY <1>1, <1>3, <3>1, <3>2, <3>3
    <3>5. QED BY <1>2, <3>1, <3>4
  <2>7. CASE PruProgram \/ Controller \/ RequestExit \/ Shutdown \/ UNCHANGED vars
    <3>1. UNCHANGED <<put, get, trackBuffer, rpc>>
      BY <2>7, PruFrame DEF bufferVars, readerVars
    <3>2. QED BY <1>1, <1>2, <1>3, <3>1
  <2>8. QED BY <2>2, <2>3, <2>4, <2>5, <2>6, <2>7 DEF Next
<1>4. wpc' \in {"close", "closed"} => trackBuffer'[get'].drive = ExitMarker
  <2>1. CASE WriteThread
    BY <2>1 DEF WriteThread, WaitSem, CheckEntry, RewriteTrack, ReleaseEntry, CloseFiles,
                bufferVars, MarkerInv
  <2>2. CASE ~ WriteThread
    <3>1. UNCHANGED <<wpc, get>>
      BY <2>2, ReadFrame, PruFrame DEF Next, bufferVars, writerVars
    <3>2. wpc \in {"close", "closed"} => trackBuffer'[get] = trackBuffer[get]
      BY HeldKept
    <3>3. QED BY <3>1, <3>2 DEF MarkerInv
  <2>3. QED BY <2>1, <2>2
<1>5. QED
  <2> HIDE DEF Marks
  <2>1. \A s \in Slots : Marks(s)' => Dist(put', s) = 1 /\ rpc' \in {"markpost", "done"}
    BY <1>3
  <2>2. QED BY <1>4, <2>1 DEF Marks, MarkerInv

-----------------------------------------------------------------------------
\* Tracks with nothing pending

\* What Loaded is for one drive, now and after a step.
LEMMA LoadedAt ==
  ASSUME NEW d \in Drives
  PROVE  /\ Loaded[d] = IF rpc \in {"pread", "overlay"} /\ drv = d THEN NoCyl ELSE cyl[d]
         /\ Loaded'[d] = IF rpc' \in {"pread", "overlay"} /\ drv' = d THEN NoCyl ELSE cyl'[d]
BY DEF Loaded

\* A loaded cylinder is one of the drive's.
LEMMA LoadedCyl ==
  ASSUME TypeInv, NEW d \in Drives, Loaded[d] # NoCyl
  PROVE  Loaded[d] \in Cyls
BY LoadedAt DEF TypeInv, TypeOK, ReaderOK

\* When the overlay ends, the assembled cylinder is what is stored.
LEMMA AssembledIsStored ==
  ASSUME TypeInv, FetchInv, rpc = "overlay", index = put, NEW h \in Heads
  PROVE  data[h] = Stored[drv][cyl[drv]][h]
<1>1. put \in Slots
  BY DEF TypeInv, TypeOK, BufferOK
<1>2. Dist(put, index) = 0
  BY <1>1, DistNat
<1>3. Window(trackBuffer, put, 0, drv, cyl[drv], h) = {}
  BY <1>1, DistNat DEF Window
<1>4. Overlaid(trackBuffer, put, 0, drv, cyl[drv], h, data[h]) = Stored[drv][cyl[drv]][h]
  BY <1>2 DEF FetchInv
<1>5. QED BY <1>3, <1>4 DEF Overlaid

\* Every step keeps that a track with nothing pending is stored.
LEMMA CleanStep ==
  TypeInv /\ SemMatchesBuffer /\ TurnInv /\ DirtyInv /\ CleanInv /\ FetchInv /\ WriteInv
    /\ [Next]_vars => CleanInv'
<1> SUFFICES ASSUME TypeInv, SemMatchesBuffer, TurnInv, DirtyInv, CleanInv, FetchInv, WriteInv,
                    [Next]_vars,
                    NEW d \in Drives, NEW h \in Heads, Loaded'[d] # NoCyl, ~ Pending(d, h)'
             PROVE  ddr'[d][h] = Stored'[d][Loaded'[d]][h]
  BY DEF CleanInv
<1>1. /\ drv \in 0 .. NumDrives /\ h \in Int /\ trk \in Int /\ h < NumHead
      /\ put \in Slots /\ ddr \in [Drives -> Track]
  BY SizesAssumption DEF TypeInv, TypeOK, SharedOK, BufferOK, ReaderOK, Heads
<1>2. ASSUME Loaded'[d] = Loaded[d], ddr'[d][h] = ddr[d][h],
             Pending(d, h) => Pending(d, h)', ~ PutTrack
      PROVE  ddr'[d][h] = Stored'[d][Loaded'[d]][h]
  <2>1. Loaded[d] # NoCyl /\ ~ Pending(d, h)
    BY <1>2
  <2>2. Stored' = Stored
    BY <1>2, StoredKept
  <2>3. QED BY <1>2, <2>1, <2>2 DEF CleanInv
<1>3. CASE WriteThread
  <2>1. UNCHANGED <<readerVars, sharedVars>>
    BY <1>3, WriteFrame
  <2>2. Loaded'[d] = Loaded[d] /\ ddr' = ddr /\ (Pending(d, h) => Pending(d, h)')
    BY <2>1, LoadedAt DEF readerVars, sharedVars, Pending
  <2>3. ~ PutTrack
    BY <2>1 DEF readerVars, PutTrack
  <2>4. QED BY <1>2, <2>2, <2>3
<1>4. CASE PruProgram \/ Controller \/ RequestExit \/ Shutdown \/ UNCHANGED vars
  <2>1. UNCHANGED readerVars /\ ~ PutTrack
    BY <1>4, PruFrame DEF readerVars, PutTrack
  <2>2. Loaded'[d] = Loaded[d]
    BY <2>1, LoadedAt DEF readerVars
  <2>3. CASE \E a \in Drives, b \in Heads \cup {BadHead}, v \in Data : PruWrite(a, b, v)
    <3>1. PICK a \in Drives, b \in Heads \cup {BadHead}, v \in Data : PruWrite(a, b, v)
      BY <2>3
    <3>2. trkDirty' = [trkDirty EXCEPT ![a] = @ \cup {b}]
          /\ ddr' = IF b = BadHead THEN ddr ELSE [ddr EXCEPT ![a][b] = v]
      BY <3>1 DEF PruWrite
    <3>3. trkDirty \in [Drives -> SUBSET (Heads \cup {BadHead})]
      BY DEF TypeInv, TypeOK, SharedOK
    <3>4. \A i \in Drives : trkDirty[i] \subseteq trkDirty'[i]
      BY <3>2, <3>3
    <3>5. Pending(d, h) => Pending(d, h)'
      BY <2>1, <3>4 DEF Pending, readerVars
    <3>6. ~ (d = a /\ h = b)
      BY <3>2, <3>3 DEF Pending
    <3>7. ddr'[d][h] = ddr[d][h]
      BY <1>1, <3>2, <3>6 DEF Track
    <3>8. QED BY <1>2, <2>1, <2>2, <3>5, <3>7
  <2>4. CASE ~ \E a \in Drives, b \in Heads \cup {BadHead}, v \in Data : PruWrite(a, b, v)
    <3>1. UNCHANGED <<trkDirty, ddr>>
      BY <1>4, <2>4
      DEF PruProgram, PruTakeStart, PruExitCmd, PruExitCyl, PruExitInterrupt, PruHalt, Controller,
          PruSeek, PruStepWaiting, RequestExit, Shutdown, JoinWriteThread, JoinReadThread,
          PruShutdown, vars, sharedVars
    <3>2. Pending(d, h) => Pending(d, h)'
      BY <2>1, <3>1 DEF Pending, readerVars
    <3>3. QED BY <1>2, <2>1, <2>2, <3>1, <3>2
  <2>5. QED BY <2>3, <2>4
<1>5. CASE PutTrack
  <2>1. /\ rpc = "put" /\ rpc' = "post" /\ UpdateBuffer(drv, cyl[drv], trk) /\ UNCHANGED file
        /\ UNCHANGED <<drv, trk, cyl, dirty, trkDirty, ddr>>
    BY <1>5 DEF PutTrack, sharedVars, writerVars
  <2>2. Loaded'[d] = Loaded[d] /\ Loaded[d] = cyl[d] /\ Loaded[d] \in Cyls
    BY <2>1, LoadedAt, LoadedCyl
  <2>3. drv \in Drives
    BY <1>1, <2>1, SizesAssumption DEF TypeInv, ReaderInv, Drives
  <2>4. Stored'[d][Loaded[d]][h] = IF drv = d /\ cyl[drv] = Loaded[d] /\ trk = h
                                    THEN trackBuffer[put].buf ELSE Stored[d][Loaded[d]][h]
    BY <2>1, <2>2, <2>3, StoredPut
  <2>5. CASE drv = d /\ trk = h
    <3>1. trackBuffer[put].buf = ddr[d][h]
      BY <2>1, <2>5 DEF DirtyInv
    <3>2. QED BY <2>1, <2>2, <2>4, <2>5, <3>1
  <2>6. CASE ~ (drv = d /\ trk = h)
    <3>1. Pending(d, h) => Pending(d, h)'
      BY <1>1, <2>1, <2>6 DEF Pending
    <3>2. ddr[d][h] = Stored[d][Loaded[d]][h]
      BY <2>2, <3>1 DEF CleanInv
    <3>3. QED BY <2>1, <2>2, <2>4, <2>6, <3>2
  <2>7. QED BY <2>5, <2>6
<1>6. CASE FetchCyl
  <2>1. rpc = "fetch" /\ UNCHANGED <<ddr, trkDirty>> /\ ~ PutTrack
    BY <1>6 DEF FetchCyl, PutTrack, sharedVars
  <2>2. Loaded'[d] = Loaded[d]
    <3>1. CASE newCyl[drv] # cyl[drv]
      <4>1. cyl' = [cyl EXCEPT ![drv] = newCyl[drv]] /\ rpc' = "pread" /\ drv' = drv
        BY <1>6, <3>1 DEF FetchCyl
      <4>2. d # drv
        BY <4>1, LoadedAt
      <4>3. QED BY <2>1, <4>1, <4>2, LoadedAt DEF TypeInv, TypeOK, ReaderOK
    <3>2. CASE newCyl[drv] = cyl[drv]
      BY <1>6, <2>1, <3>2, LoadedAt DEF FetchCyl
    <3>3. QED BY <3>1, <3>2
  <2>3. Pending(d, h) => Pending(d, h)'
    BY <2>1 DEF Pending
  <2>4. QED BY <1>2, <2>1, <2>2, <2>3
<1>7. CASE ReadTrack \/ StartOverlay \/ OverlayEntry
  <2>1. /\ rpc \in {"pread", "overlay"} /\ rpc' \in {"pread", "overlay"} /\ ~ PutTrack
        /\ UNCHANGED <<ddr, trkDirty, drv, cyl>>
    BY <1>7 DEF ReadTrack, StartOverlay, OverlayEntry, PutTrack, sharedVars
  <2>2. Loaded'[d] = Loaded[d] /\ (Pending(d, h) => Pending(d, h)')
    BY <2>1, LoadedAt DEF Pending
  <2>3. QED BY <1>2, <2>1, <2>2
<1>8. CASE SendCyl
  <2>1. /\ rpc = "overlay" /\ rpc' = "fetch" /\ index = put /\ drv' = drv + 1 /\ ~ PutTrack
        /\ ddr' = [ddr EXCEPT ![drv] = data] /\ UNCHANGED <<trkDirty, cyl>>
    BY <1>8 DEF SendCyl, PutTrack
  <2>2. CASE d # drv
    <3>1. ddr'[d] = ddr[d] /\ Loaded'[d] = Loaded[d] /\ (Pending(d, h) => Pending(d, h)')
      BY <1>1, <2>1, <2>2, LoadedAt DEF Pending
    <3>2. QED BY <1>2, <2>1, <3>1
  <2>3. CASE d = drv
    <3>1. ddr'[d] = data /\ Loaded'[d] = cyl[d] /\ Stored' = Stored
      BY <1>1, <2>1, <2>3, LoadedAt, StoredKept
    <3>2. data[h] = Stored[drv][cyl[drv]][h]
      BY <2>1, AssembledIsStored
    <3>3. QED BY <2>3, <3>1, <3>2
  <2>4. QED BY <2>2, <2>3
<1>9. CASE FetchDone \/ ExecCmd \/ CmdTaken \/ WaitEvent \/ ClearEvent \/ ReadDirty \/ ReadCurCyl
           \/ DrivesDone \/ AckExit \/ PutMarker \/ PostMarker
  <2>1. /\ rpc \notin {"pread", "overlay", "scan", "put", "post"}
        /\ rpc' \notin {"pread", "overlay"}
        /\ UNCHANGED <<ddr, trkDirty, cyl>> /\ ~ PutTrack
    BY <1>9 DEF FetchDone, ExecCmd, CmdTaken, WaitEvent, ClearEvent, ReadDirty, ReadCurCyl,
                DrivesDone, AckExit, PutMarker, PostMarker, PutTrack, sharedVars
  <2>2. Loaded'[d] = Loaded[d] /\ (Pending(d, h) => Pending(d, h)')
    BY <2>1, LoadedAt DEF Pending
  <2>3. QED BY <1>2, <2>1, <2>2
<1>10. CASE ClearDirty \/ CopyTrack \/ ScanDone \/ PostTrack
  <2>1. /\ rpc \notin {"pread", "overlay"} /\ rpc' \notin {"pread", "overlay"}
        /\ UNCHANGED <<ddr, cyl>> /\ ~ PutTrack
    BY <1>10 DEF ClearDirty, CopyTrack, ScanDone, PostTrack, PutTrack, sharedVars
  <2>2. Loaded'[d] = Loaded[d]
    BY <2>1, LoadedAt
  <2>3. Pending(d, h) => Pending(d, h)'
    <3>1. CASE ClearDirty
      <4>1. /\ rpc = "undirty" /\ rpc' = "scan" /\ trk' = 0 /\ UNCHANGED <<drv, dirty>>
            /\ trkDirty' = [trkDirty EXCEPT ![drv] = {}] /\ dirty = trkDirty[drv]
            /\ trkDirty \in [Drives -> SUBSET (Heads \cup {BadHead})] /\ h >= 0
        BY <3>1 DEF ClearDirty, DirtyInv, TypeInv, TypeOK, SharedOK, Heads
      <4>2. QED BY <4>1 DEF Pending
    <3>2. CASE CopyTrack
      <4>1. /\ rpc = "scan" /\ UNCHANGED <<drv, dirty, trkDirty>>
            /\ \/ rpc' = "put" /\ trk' = trk
               \/ rpc' = "scan" /\ trk' = trk + 1 /\ trk \notin dirty
        BY <3>2 DEF CopyTrack, sharedVars
      <4>2. QED BY <1>1, <4>1 DEF Pending
    <3>3. CASE ScanDone
      <4>1. rpc = "scan" /\ trk = NumHead /\ UNCHANGED trkDirty
        BY <3>3 DEF ScanDone, sharedVars
      <4>2. QED BY <1>1, <4>1 DEF Pending
    <3>4. CASE PostTrack
      <4>1. rpc = "post" /\ rpc' = "scan" /\ trk' = trk + 1 /\ UNCHANGED <<drv, dirty, trkDirty>>
        BY <3>4 DEF PostTrack, sharedVars
      <4>2. QED BY <1>1, <4>1 DEF Pending
    <3>5. QED BY <1>10, <3>1, <3>2, <3>3, <3>4
  <2>4. QED BY <1>2, <2>1, <2>2, <2>3
<1>11. QED
  BY <1>3, <1>4, <1>5, <1>6, <1>7, <1>8, <1>9, <1>10 DEF Next, ReadThread

-----------------------------------------------------------------------------
\* The cylinder being assembled

\* Every step keeps that the overlay of the cylinder being assembled gives what is stored.
LEMMA FetchStep ==
  TypeInv /\ SemMatchesBuffer /\ FetchInv /\ WriteInv /\ [Next]_vars => FetchInv'
<1> SUFFICES ASSUME TypeInv, SemMatchesBuffer, FetchInv, WriteInv, [Next]_vars PROVE FetchInv'
  OBVIOUS
<1> DEFINE Over(v, h) == Overlaid(trackBuffer, put, Dist(put, getHold), drv, cyl[drv], h, v)
           Rest(v, h) == Overlaid(trackBuffer, put, Dist(put, index), drv, cyl[drv], h, v)
           Goal(h) == Stored[drv][cyl[drv]][h]
<1>1. /\ get \in Slots /\ put \in Slots /\ getHold \in Slots /\ index \in Slots
      /\ data \in Track /\ trk \in 0 .. NumHead /\ drv \in 0 .. NumDrives /\ NumHead \in Nat
      /\ trackBuffer \in [Slots -> Entry] /\ cyl \in [Drives -> Cyls \cup {NoCyl}]
      /\ Dist(put, getHold) \in Nat /\ BuffersUsed \in Nat
      /\ BuffersUsed = Dist(put, get) /\ BuffersUsed' = Dist(put', get')
  BY SizesAssumption, UsedIsDist, DistNat DEF TypeInv, TypeOK, BufferOK, ReaderOK
<1>2. rpc \in {"pread", "overlay"} => drv \in Drives /\ cyl[drv] \in Cyls
  BY <1>1, SizesAssumption DEF TypeInv, ReaderInv, Drives
<1>3. /\ rpc = "pread" => BuffersUsed <= Dist(put, getHold)
                          /\ \A h \in Heads : /\ Over(file[drv][cyl[drv]][h], h) = Goal(h)
                                              /\ h < trk => Over(data[h], h) = Goal(h)
      /\ rpc = "overlay" => \A h \in Heads : Rest(data[h], h) = Goal(h)
  BY DEF FetchInv
<1>4. CASE rpc' \notin {"pread", "overlay"}
  BY <1>4 DEF FetchInv
<1>5. CASE rpc \in {"pread", "overlay"} /\ ~ ReadThread
  <2>1. UNCHANGED <<readerVars, trackBuffer, put>>
    BY <1>5, WriteFrame, PruFrame DEF Next, bufferVars
  <2>2. UNCHANGED <<rpc, drv, trk, cyl, data, getHold, index, trackBuffer, put>>
    BY <2>1 DEF readerVars
  <2>3. Stored' = Stored
    <3>1. ~ PutTrack
      BY <2>2 DEF PutTrack
    <3>2. QED BY <3>1, StoredKept
  <2>4. ASSUME rpc = "pread"
        PROVE  /\ BuffersUsed' <= Dist(put, getHold)
               /\ \A h \in Heads : Over(file'[drv][cyl[drv]][h], h) = Goal(h)
    <3>1. CASE WriteThread
      <4>1. BuffersUsed' <= BuffersUsed /\ BuffersUsed' \in Int
        <5>1. CASE ReleaseEntry
          <6>1. get' = NextSlot(get) /\ get # put
            BY <5>1, HeldPublished DEF ReleaseEntry
          <6>2. QED BY <1>1, <2>2, <6>1, UsedGet DEF TypeInv, TypeOK
        <5>2. CASE ~ ReleaseEntry
          <6>1. get' = get
            BY <3>1, <5>2 DEF WriteThread, WaitSem, CheckEntry, RewriteTrack, CloseFiles, bufferVars
          <6>2. QED BY <1>1, <2>2, <6>1
        <5>3. QED BY <5>1, <5>2
      <4>2. ASSUME NEW h \in Heads PROVE Over(file'[drv][cyl[drv]][h], h) = Goal(h)
        <5>1. CASE file'[drv][cyl[drv]][h] = file[drv][cyl[drv]][h]
          BY <1>3, <2>4, <5>1
        <5>2. CASE get \in Window(trackBuffer, put, BuffersUsed, drv, cyl[drv], h)
          <6>1. get \in Window(trackBuffer, put, Dist(put, getHold), drv, cyl[drv], h)
            BY <1>1, <1>3, <2>4, <5>2 DEF Window
          <6>2. Over(file'[drv][cyl[drv]][h], h) = Over(file[drv][cyl[drv]][h], h)
            BY <6>1 DEF Overlaid
          <6>3. QED BY <1>3, <2>4, <6>2
        <5>3. QED BY <1>2, <2>4, <3>1, <5>1, <5>2, StoredWrite
      <4>3. QED BY <1>1, <1>3, <2>4, <4>1, <4>2
    <3>2. CASE ~ WriteThread
      <4>1. UNCHANGED <<file, get>>
        BY <1>5, <3>2, PruFrame DEF Next, bufferVars, writerVars
      <4>2. QED BY <1>1, <1>3, <2>2, <2>4, <4>1
    <3>3. QED BY <3>1, <3>2
  <2>5. QED
    <3>1. rpc = "pread" => FetchInv'
      BY <1>3, <2>2, <2>3, <2>4 DEF FetchInv
    <3>2. rpc = "overlay" => FetchInv'
      BY <1>3, <2>2, <2>3 DEF FetchInv
    <3>3. QED BY <1>5, <3>1, <3>2
<1>6. CASE FetchCyl /\ rpc' = "pread"
  <2>1. /\ drv' = drv /\ getHold' = get /\ trk' = 0 /\ UNCHANGED <<trackBuffer, put, get, file>>
        /\ drv < NumDrives
    BY <1>6 DEF FetchCyl, bufferVars, writerVars
  <2>2. drv \in Drives /\ cyl'[drv] \in Cyls
    <3>1. TypeInv'
      BY TypeInvStep
    <3>2. QED BY <1>1, <1>6, <2>1, <3>1, SizesAssumption DEF TypeInv, ReaderInv, Drives
  <2>3. \A h \in Heads : Overlaid(trackBuffer', put', Dist(put', getHold'), drv', cyl'[drv'], h,
                                  file'[drv'][cyl'[drv']][h]) = Stored'[drv'][cyl'[drv']][h]
    BY <1>1, <2>1, <2>2, StoredAt
  <2>4. \A h \in Heads : ~ (h < trk')
    BY <2>1 DEF Heads
  <2>5. BuffersUsed' <= Dist(put', getHold')
    BY <1>1, <2>1
  <2>6. QED BY <1>6, <2>3, <2>4, <2>5 DEF FetchInv
<1>7. CASE ReadTrack
  <2>1. /\ rpc = "pread" /\ rpc' = "pread" /\ trk' = trk + 1 /\ trk < NumHead
        /\ data' = [data EXCEPT ![trk] = file[drv][cyl[drv]][trk]]
        /\ UNCHANGED <<drv, cyl, getHold, trackBuffer, put, get, file>>
    BY <1>7 DEF ReadTrack, bufferVars, writerVars
  <2>2. Stored' = Stored
    <3>1. ~ PutTrack
      BY <2>1 DEF PutTrack
    <3>2. QED BY <3>1, StoredKept
  <2>3. ASSUME NEW h \in Heads, h < trk' PROVE Over(data'[h], h) = Goal(h)
    <3>1. CASE h = trk
      <4>1. data'[h] = file[drv][cyl[drv]][h]
        BY <1>1, <2>1, <3>1 DEF Track
      <4>2. QED BY <1>3, <2>1, <4>1
    <3>2. CASE h # trk
      <4>1. data'[h] = data[h] /\ h < trk
        BY <1>1, <2>1, <2>3, <3>2 DEF Track, Heads
      <4>2. QED BY <1>3, <2>1, <4>1
    <3>3. QED BY <3>1, <3>2
  <2>4. BuffersUsed' = BuffersUsed
    BY <1>1, <2>1
  <2>5. QED BY <1>3, <2>1, <2>2, <2>3, <2>4 DEF FetchInv
<1>8. CASE StartOverlay
  <2>1. /\ rpc = "pread" /\ rpc' = "overlay" /\ trk = NumHead /\ index' = getHold
        /\ UNCHANGED <<drv, cyl, data, trackBuffer, put>>
    BY <1>8 DEF StartOverlay, bufferVars
  <2>2. Stored' = Stored
    <3>1. ~ PutTrack
      BY <2>1 DEF PutTrack
    <3>2. QED BY <3>1, StoredKept
  <2>3. \A h \in Heads : h < trk
    BY <1>1, <2>1 DEF Heads
  <2>4. \A h \in Heads : Over(data[h], h) = Goal(h)
    BY <1>3, <2>1, <2>3
  <2>5. QED BY <2>1, <2>2, <2>4 DEF FetchInv
<1>9. CASE OverlayEntry
  <2> DEFINE e == trackBuffer[index]
  <2>1. /\ rpc = "overlay" /\ rpc' = "overlay" /\ index # put /\ index' = NextSlot(index)
        /\ UNCHANGED <<drv, cyl, trackBuffer, put>>
        /\ data' = IF e.drive = drv /\ e.cyl = cyl[drv] THEN [data EXCEPT ![e.head] = e.buf]
                                                          ELSE data
    BY <1>9 DEF OverlayEntry, bufferVars
  <2>2. Stored' = Stored
    <3>1. ~ PutTrack
      BY <2>1 DEF PutTrack
    <3>2. QED BY <3>1, StoredKept
  <2>3. ASSUME NEW h \in Heads
        PROVE  Overlaid(trackBuffer, put, Dist(put, NextSlot(index)), drv, cyl[drv], h, data'[h])
                 = Goal(h)
    <3>1. data'[h] = IF e.drive = drv /\ e.cyl = cyl[drv] /\ e.head = h THEN e.buf ELSE data[h]
      BY <1>1, <2>1 DEF Track
    <3>2. Rest(data[h], h)
            = Overlaid(trackBuffer, put, Dist(put, NextSlot(index)), drv, cyl[drv], h, data'[h])
      BY <1>1, <2>1, <3>1, DropOldest
    <3>3. QED BY <1>3, <2>1, <3>2
  <2>4. QED BY <2>1, <2>2, <2>3 DEF FetchInv
<1>10. CASE ReadThread /\ ~ (FetchCyl /\ rpc' = "pread") /\ ~ ReadTrack /\ ~ StartOverlay
            /\ ~ OverlayEntry /\ rpc' \in {"pread", "overlay"}
  BY <1>10
  DEF ReadThread, FetchCyl, SendCyl, FetchDone, ExecCmd, CmdTaken, WaitEvent, ClearEvent,
      ReadDirty, ReadCurCyl, ClearDirty, CopyTrack, ScanDone, PutTrack, PostTrack, DrivesDone,
      AckExit, PutMarker, PostMarker
<1>11. CASE rpc \notin {"pread", "overlay"} /\ ~ ReadThread /\ rpc' \in {"pread", "overlay"}
  <2>1. UNCHANGED readerVars
    BY <1>11, WriteFrame, PruFrame DEF Next
  <2>2. QED BY <1>11, <2>1 DEF readerVars
<1>12. QED BY <1>4, <1>5, <1>6, <1>7, <1>8, <1>9, <1>10, <1>11

-----------------------------------------------------------------------------
\* The store

\* The inductive invariant holds at the start ...
LEMMA RefineInit == Init => RefineInv
<1> SUFFICES ASSUME Init PROVE RefineInv
  OBVIOUS
<1>1. TurnInv /\ LoadInv /\ FetchInv /\ WriteInv
  BY SizesAssumption DEF Init, TurnInv, LoadInv, FetchInv, WriteInv, Drives
<1>2. DirtyInv
  BY DEF Init, DirtyInv
<1>3. CleanInv
  BY LoadedAt DEF Init, CleanInv
<1>4. MarkerInv
  <2>1. BuffersUsed = 0
    BY DEF Init, BuffersUsed
  <2>2. \A s \in Slots : Dist(put, s) \in Nat
    <3>1. put \in Slots
      BY SizesAssumption DEF Init, Slots
    <3>2. QED BY <3>1, DistNat
  <2>3. QED BY <2>1, <2>2 DEF Init, MarkerInv
<1>5. QED BY <1>1, <1>2, <1>3, <1>4 DEF RefineInv

\* ... every step keeps it ...
LEMMA RefineStep == TypeInv /\ SemMatchesBuffer /\ RefineInv /\ [Next]_vars => RefineInv'
BY TurnStep, LoadStep, DirtyStep, CleanStep, FetchStep, WriteInvStep, MarkerStep DEF RefineInv

\* ... and so it holds always.
LEMMA RefineInvariant == Spec => [](TypeInv /\ SemMatchesBuffer /\ RefineInv)
<1>1. QED BY RefineInit, RefineStep, TypeInvariant, SemaphoreCorrect, PTL DEF Spec

\* The last buffered entry of a track is the nearest one in its window.
LEMMA LastIsNearest ==
  \A d, c, h : /\ Buffered(d, c, h) = Window(trackBuffer, put, BuffersUsed, d, c, h)
               /\ LastBuffered(d, c, h) = Nearest(put, Buffered(d, c, h))
BY DEF Buffered, LastBuffered, Nearest, Window, ToPut, Dist

\* What the store holds for a track: the DDR buffer of a loaded cylinder, or what is stored.
LEMMA LatestNow ==
  ASSUME NEW d \in Drives, NEW c \in Cyls, NEW h \in Heads
  PROVE  LatestData[d][c][h] = IF Loaded[d] = c THEN ddr[d][h] ELSE Stored[d][c][h]
BY LastIsNearest, StoredAt DEF LatestData, Overlaid

\* The same after a step.
LEMMA LatestNext ==
  ASSUME NEW d \in Drives, NEW c \in Cyls, NEW h \in Heads
  PROVE  LatestData'[d][c][h] = IF Loaded'[d] = c THEN ddr'[d][h] ELSE Stored'[d][c][h]
<1>1. /\ Buffered(d, c, h)' = Window(trackBuffer', put', BuffersUsed', d, c, h)
      /\ LastBuffered(d, c, h)' = Nearest(put', Buffered(d, c, h)')
  BY DEF Buffered, LastBuffered, Nearest, Window, ToPut, Dist
<1>2. QED BY <1>1, StoredAt DEF LatestData, Overlaid

\* LatestData is a table of tracks.
LEMMA LatestType ==
  ASSUME TypeInv
  PROVE  LatestData \in [Drives -> [Cyls -> Track]]
<1>1. /\ put \in Slots /\ trackBuffer \in [Slots -> Entry] /\ ddr \in [Drives -> Track]
      /\ file \in [Drives -> [Cyls -> Track]]
  BY DEF TypeInv, TypeOK, SharedOK, BufferOK, WriterOK
<1>2. \A d \in Drives, c \in Cyls, h \in Heads : LatestData[d][c][h] \in Data \cup {Torn}
  <2> SUFFICES ASSUME NEW d \in Drives, NEW c \in Cyls, NEW h \in Heads
               PROVE  LatestData[d][c][h] \in Data \cup {Torn}
    OBVIOUS
  <2> DEFINE S == Window(trackBuffer, put, BuffersUsed, d, c, h)
  <2>1. ddr[d][h] \in Data \cup {Torn} /\ file[d][c][h] \in Data \cup {Torn}
    BY <1>1 DEF Track
  <2>2. CASE S = {}
    <3>1. Stored[d][c][h] = file[d][c][h]
      BY <2>2, StoredAt DEF Overlaid
    <3>2. QED BY <2>1, <3>1, LatestNow
  <2>3. CASE S # {}
    <3>1. S \in SUBSET Slots
      BY DEF Window
    <3>2. PICK s \in S : \A t \in S : Dist(put, s) <= Dist(put, t)
      <4> HIDE DEF S
      <4>1. QED BY <1>1, <2>3, <3>1, NearestExists
    <3>3. Stored[d][c][h] = trackBuffer[s].buf
      BY <1>1, <3>2, OverlaidIs, StoredAt
    <3>4. trackBuffer[s].buf \in Data \cup {Torn}
      BY <1>1, <3>1 DEF Entry
    <3>5. QED BY <2>1, <3>3, <3>4, LatestNow
  <2>4. QED BY <2>2, <2>3
<1>3. LatestData = [d \in Drives |-> [c \in Cyls |-> [h \in Heads |-> LatestData[d][c][h]]]]
  BY DEF LatestData
<1>4. QED BY <1>2, <1>3 DEF Track

\* Where a step leaves every track's data, it leaves LatestData.
LEMMA LatestSame ==
  ASSUME NEW F \in [Drives -> [Cyls -> Track]],
         \A d \in Drives, c \in Cyls, h \in Heads : LatestData'[d][c][h] = F[d][c][h]
  PROVE  LatestData' = F
<1>1. LatestData' = [d \in Drives |-> [c \in Cyls |-> [h \in Heads |-> LatestData'[d][c][h]]]]
  BY DEF LatestData
<1>2. F = [d \in Drives |-> [c \in Cyls |-> [h \in Heads |-> F[d][c][h]]]]
  BY DEF Track
<1>3. QED BY <1>1, <1>2

\* A step that leaves the loaded cylinders, the DDR buffers and Stored leaves LatestData.
LEMMA LatestKept ==
  ASSUME TypeInv, Loaded' = Loaded, ddr' = ddr, Stored' = Stored
  PROVE  LatestData' = LatestData
<1>1. \A d \in Drives, c \in Cyls, h \in Heads : LatestData'[d][c][h] = LatestData[d][c][h]
  BY LatestNow, LatestNext
<1>2. QED BY <1>1, LatestType, LatestSame

\* No track is on its way to the track buffer while cylinders are fetched, nor once the
\* read thread has left its loop.
LEMMA AllStored ==
  ASSUME TypeInv, RefineInv, NEW d \in Drives, NEW h \in Heads, Loaded[d] # NoCyl,
         rpc \in {"fetch", "pread", "overlay", "cmd", "finish", "mark", "markpost", "done"}
  PROVE  ddr[d][h] = Stored[d][Loaded[d]][h]
<1>1. ~ Pending(d, h)
  BY DEF RefineInv, DirtyInv, Pending
<1>2. QED BY <1>1 DEF RefineInv, CleanInv

\* The initial states are initial states of the store.
LEMMA StoreInit == Init => Store!Init
<1> SUFFICES ASSUME Init PROVE Store!Init
  OBVIOUS
<1>1. Loaded = [d \in Drives |-> NoCyl]
  BY DEF Init, Loaded
<1>2. \A d \in Drives, c \in Cyls, h \in Heads : LatestData[d][c][h] = file[d][c][h]
  <2> SUFFICES ASSUME NEW d \in Drives, NEW c \in Cyls, NEW h \in Heads
               PROVE  LatestData[d][c][h] = file[d][c][h]
    OBVIOUS
  <2>1. Loaded[d] # c
    BY <1>1 DEF Cyls, NoCyl
  <2>2. Window(trackBuffer, put, BuffersUsed, d, c, h) = {}
    <3>1. BuffersUsed = 0 /\ put \in Slots
      BY SizesAssumption DEF Init, BuffersUsed, Slots
    <3>2. QED BY <3>1, DistNat DEF Window
  <2>3. QED BY <2>1, <2>2, LatestNow, StoredAt DEF Overlaid
<1>3. LatestData \in [Drives -> [Cyls -> [Heads -> Data]]]
  <2>1. file \in [Drives -> [Cyls -> [Heads -> Data]]]
    BY DEF Init
  <2>2. LatestData = [d \in Drives |-> [c \in Cyls |-> [h \in Heads |-> LatestData[d][c][h]]]]
    BY DEF LatestData
  <2>3. QED BY <1>2, <2>1, <2>2
<1>4. QED BY <1>1, <1>3 DEF Init, Store!Init

\* Only the closing of the files publishes the image.
LEMMA ImageKept ==
  ASSUME TypeInv, [Next]_vars, ~ CloseFiles
  PROVE  Image' = Image
<1>1. CASE WriteThread
  BY <1>1 DEF WriteThread, WaitSem, CheckEntry, RewriteTrack, ReleaseEntry, Image
<1>2. CASE ~ WriteThread
  BY <1>2, ReadFrame, PruFrame DEF Next, writerVars, Image
<1>3. QED BY <1>1, <1>2

\* The exit marker is the only entry left and every loaded track is stored: what is
\* stored is what the files hold.
LEMMA CloseStep ==
  ASSUME TypeInv, SemMatchesBuffer, RefineInv, CloseFiles
  PROVE  Store!Close
<1>1. /\ wpc = "close" /\ wpc' = "closed"
      /\ UNCHANGED <<file, readerVars, trackBuffer, get, put, ddr>>
  BY DEF CloseFiles, bufferVars, sharedVars
<1>2. /\ get \in Slots /\ put \in Slots /\ 0 < Dist(put, get) /\ BuffersUsed = Dist(put, get)
      /\ Dist(put, get) \in Nat
  BY <1>1, HeldPublished, UsedIsDist, DistNat DEF TypeInv, TypeOK, BufferOK
<1>3. trackBuffer[get].drive = ExitMarker
  BY <1>1 DEF RefineInv, MarkerInv
<1>4. BuffersUsed = 1 /\ rpc \in {"markpost", "done"}
  BY <1>2, <1>3 DEF RefineInv, MarkerInv
<1>5. \A d \in Drives, c \in Cyls, h \in Heads : Stored[d][c][h] = file[d][c][h]
  <2> SUFFICES ASSUME NEW d \in Drives, NEW c \in Cyls, NEW h \in Heads
               PROVE  Stored[d][c][h] = file[d][c][h]
    OBVIOUS
  <2>1. d # ExitMarker
    BY SizesAssumption DEF Drives, ExitMarker
  <2>2. \A s \in Slots : 0 < Dist(put, s) /\ Dist(put, s) <= 1 => s = get
    <3> SUFFICES ASSUME NEW s \in Slots, 0 < Dist(put, s), Dist(put, s) <= 1 PROVE s = get
      OBVIOUS
    <3>1. Dist(put, s) = Dist(put, get)
      BY <1>2, <1>4, DistNat
    <3>2. QED BY <1>2, <3>1, DistInjective
  <2>3. Window(trackBuffer, put, BuffersUsed, d, c, h) = {}
    BY <1>3, <1>4, <2>1, <2>2 DEF Window
  <2>4. QED BY <2>3, StoredAt DEF Overlaid
<1>6. \A d \in Drives, c \in Cyls, h \in Heads : LatestData[d][c][h] = file[d][c][h]
  <2> SUFFICES ASSUME NEW d \in Drives, NEW c \in Cyls, NEW h \in Heads
               PROVE  LatestData[d][c][h] = file[d][c][h]
    OBVIOUS
  <2>1. CASE Loaded[d] = c
    <3>1. Loaded[d] # NoCyl
      BY <2>1 DEF Cyls, NoCyl
    <3>2. ddr[d][h] = Stored[d][c][h]
      BY <1>4, <2>1, <3>1, AllStored
    <3>3. QED BY <1>5, <2>1, <3>2, LatestNow
  <2>2. CASE Loaded[d] # c
    BY <1>5, <2>2, LatestNow
  <2>3. QED BY <2>1, <2>2
<1>7. LatestData = file
  <2>1. file \in [Drives -> [Cyls -> [Heads -> Data \cup {Torn}]]]
    BY DEF TypeInv, TypeOK, WriterOK, Track
  <2>2. file = [d \in Drives |-> [c \in Cyls |-> [h \in Heads |-> file[d][c][h]]]]
    BY <2>1
  <2>3. LatestData = [d \in Drives |-> [c \in Cyls |-> [h \in Heads |-> LatestData[d][c][h]]]]
    BY DEF LatestData
  <2>4. QED BY <1>6, <2>2, <2>3
<1>8. Loaded' = Loaded
  BY <1>1 DEF Loaded, readerVars
<1>9. Stored' = Stored
  <2>1. BuffersUsed' = BuffersUsed
    BY <1>1 DEF BuffersUsed
  <2>2. QED BY <1>1, <2>1 DEF Stored
<1>10. LatestData' = LatestData
  BY <1>1, <1>8, <1>9, LatestKept
<1>11. QED BY <1>1, <1>7, <1>8, <1>10 DEF Store!Close

\* A drive whose cylinder is replaced leaves it.
LEMMA LeaveStep ==
  ASSUME TypeInv, SemMatchesBuffer, RefineInv, FetchCyl, newCyl[drv] # cyl[drv]
  PROVE  \/ drv \in Drives /\ Store!Leave(drv)
         \/ UNCHANGED <<LatestData, Loaded, Image>>
<1>1. /\ rpc = "fetch" /\ rpc' = "pread" /\ drv' = drv /\ cyl' = [cyl EXCEPT ![drv] = newCyl[drv]]
      /\ UNCHANGED <<ddr, wpc, file>> /\ drv \in Drives /\ cyl \in [Drives -> Cyls \cup {NoCyl}]
  BY SizesAssumption DEF FetchCyl, sharedVars, writerVars, TypeInv, TypeOK, ReaderOK, Drives
<1>2. Stored' = Stored
  BY StoredKept DEF FetchCyl, PutTrack, Next, ReadThread, RefineInv
<1>3. Loaded' = [Loaded EXCEPT ![drv] = NoCyl]
  BY <1>1 DEF Loaded
<1>4. Loaded[drv] = cyl[drv]
  BY <1>1, LoadedAt
<1>5. LatestData' = LatestData
  <2>1. ASSUME NEW d \in Drives, NEW c \in Cyls, NEW h \in Heads
        PROVE  LatestData'[d][c][h] = LatestData[d][c][h]
    <3>1. CASE d = drv
      <4>1. LatestData'[d][c][h] = Stored[d][c][h]
        BY <1>1, <1>2, <1>3, <3>1, LatestNext DEF Loaded, Cyls, NoCyl
      <4>2. CASE Loaded[d] = c
        <5>1. Loaded[d] # NoCyl
          BY <4>2 DEF Cyls, NoCyl
        <5>2. ddr[d][h] = Stored[d][c][h]
          BY <1>1, <4>2, <5>1, AllStored
        <5>3. QED BY <4>1, <4>2, <5>2, LatestNow
      <4>3. CASE Loaded[d] # c
        BY <4>1, <4>3, LatestNow
      <4>4. QED BY <4>2, <4>3
    <3>2. CASE d # drv
      <4>1. Loaded'[d] = Loaded[d]
        BY <1>1, <3>2, LoadedAt
      <4>2. QED BY <1>1, <1>2, <4>1, LatestNow, LatestNext
    <3>3. QED BY <3>1, <3>2
  <2>2. QED BY <2>1, LatestType, LatestSame
<1>6. CASE cyl[drv] # NoCyl
  BY <1>1, <1>3, <1>4, <1>5, <1>6 DEF Store!Leave
<1>7. CASE cyl[drv] = NoCyl
  <2>1. Loaded' = Loaded
    BY <1>3, <1>4, <1>7 DEF Loaded
  <2>2. QED BY <1>1, <1>5, <2>1 DEF Image
<1>8. QED BY <1>6, <1>7

\* The drive that has its cylinder assembled presents it.
LEMMA SeekStep ==
  ASSUME TypeInv, SemMatchesBuffer, RefineInv, SendCyl
  PROVE  drv \in Drives /\ cyl[drv] \in Cyls /\ Store!Seek(drv, cyl[drv])
<1>1. /\ rpc = "overlay" /\ rpc' = "fetch" /\ drv' = drv + 1 /\ UNCHANGED <<cyl, wpc, file>>
      /\ ddr' = [ddr EXCEPT ![drv] = data] /\ ddr \in [Drives -> Track]
      /\ drv \in Drives /\ cyl[drv] \in Cyls /\ cyl \in [Drives -> Cyls \cup {NoCyl}]
  BY SizesAssumption DEF SendCyl, writerVars, TypeInv, TypeOK, SharedOK, ReaderOK, ReaderInv, Drives
<1>2. Stored' = Stored
  BY StoredKept DEF SendCyl, PutTrack, Next, ReadThread, RefineInv
<1>3. Loaded[drv] = NoCyl
  BY <1>1, LoadedAt
<1>4. Loaded' = [Loaded EXCEPT ![drv] = cyl[drv]]
  BY <1>1 DEF Loaded
<1>5. \A h \in Heads : data[h] = Stored[drv][cyl[drv]][h]
  <2> SUFFICES ASSUME NEW h \in Heads PROVE data[h] = Stored[drv][cyl[drv]][h]
    OBVIOUS
  <2>1. index = put
    BY DEF SendCyl
  <2>2. QED BY <1>1, <2>1, AssembledIsStored DEF RefineInv
<1>6. LatestData' = LatestData
  <2>1. ASSUME NEW d \in Drives, NEW c \in Cyls, NEW h \in Heads
        PROVE  LatestData'[d][c][h] = LatestData[d][c][h]
    <3>1. CASE d = drv
      <4>1. LatestData[d][c][h] = Stored[d][c][h]
        BY <1>3, <3>1, LatestNow DEF Cyls, NoCyl
      <4>2. LatestData'[d][c][h] = IF cyl[drv] = c THEN data[h] ELSE Stored[d][c][h]
        BY <1>1, <1>2, <3>1, LatestNext, LoadedAt
      <4>3. QED BY <1>5, <3>1, <4>1, <4>2
    <3>2. CASE d # drv
      <4>1. Loaded'[d] = Loaded[d] /\ ddr'[d] = ddr[d]
        BY <1>1, <3>2, LoadedAt
      <4>2. QED BY <1>2, <4>1, LatestNow, LatestNext
    <3>3. QED BY <3>1, <3>2
  <2>2. QED BY <2>1, LatestType, LatestSame
<1>7. QED BY <1>1, <1>3, <1>4, <1>6 DEF Store!Seek

\* The controller's write goes to the cylinder the drive presents.
LEMMA WriteStep ==
  ASSUME TypeInv, SemMatchesBuffer, RefineInv,
         NEW a \in Drives, NEW b \in Heads, NEW v \in Data, PruWrite(a, b, v)
  PROVE  Store!Write(a, b, v)
<1>1. /\ pru = "serving" /\ ddr' = [ddr EXCEPT ![a][b] = v] /\ ddr \in [Drives -> Track]
      /\ UNCHANGED <<readerVars, bufferVars, writerVars>>
  BY SizesAssumption DEF PruWrite, TypeInv, TypeOK, SharedOK, Heads, BadHead
<1>2. rpc \in {"spin", "wait"}
  BY <1>1 DEF RefineInv, TurnInv
<1>3. Loaded' = Loaded
  BY <1>1 DEF Loaded, readerVars
<1>4. Loaded[a] # NoCyl /\ Loaded[a] \in Cyls
  BY <1>2, LoadedAt, LoadedCyl DEF RefineInv, LoadInv
<1>5. wpc # "closed"
  <2> SUFFICES ASSUME wpc = "closed" PROVE FALSE
    OBVIOUS
  <2>1. /\ get \in Slots /\ put \in Slots /\ 0 < Dist(put, get) /\ BuffersUsed = Dist(put, get)
        /\ Dist(put, get) \in Nat
    BY HeldPublished, UsedIsDist, DistNat DEF TypeInv, TypeOK, BufferOK
  <2>2. trackBuffer[get].drive = ExitMarker
    BY DEF RefineInv, MarkerInv
  <2>3. rpc \in {"markpost", "done"}
    BY <2>1, <2>2 DEF RefineInv, MarkerInv
  <2>4. QED BY <1>2, <2>3
<1>6. Stored' = Stored
  <2>1. BuffersUsed' = BuffersUsed
    BY <1>1 DEF BuffersUsed, bufferVars
  <2>2. QED BY <1>1, <2>1 DEF Stored, bufferVars, writerVars
<1>7. LatestData' = [LatestData EXCEPT ![a][Loaded[a]][b] = v]
  <2> DEFINE L == LatestData
             l == Loaded[a]
             F == [L EXCEPT ![a][l][b] = v]
  <2>1. L \in [Drives -> [Cyls -> Track]] /\ l \in Cyls
    BY <1>4, LatestType
  <2>2. \A d \in Drives, c \in Cyls, h \in Heads :
          F[d][c][h] = IF d = a /\ c = l /\ h = b THEN v ELSE L[d][c][h]
    <3> HIDE DEF L, l
    <3>1. QED BY <2>1 DEF Track
  <2>3. \A d \in Drives, c \in Cyls, h \in Heads : LatestData'[d][c][h] = F[d][c][h]
    <3> SUFFICES ASSUME NEW d \in Drives, NEW c \in Cyls, NEW h \in Heads
                 PROVE  LatestData'[d][c][h]
                          = IF d = a /\ c = Loaded[a] /\ h = b THEN v ELSE LatestData[d][c][h]
      BY <2>2
    <3>1. ddr'[d][h] = IF d = a /\ h = b THEN v ELSE ddr[d][h]
      BY <1>1 DEF Track
    <3>2. QED BY <1>3, <1>6, <3>1, LatestNow, LatestNext
  <2>4. F \in [Drives -> [Cyls -> Track]]
    <3> HIDE DEF L, l
    <3>1. QED BY <2>1, StoreTrack
  <2> HIDE DEF F
  <2>5. LatestData' = F
    BY <2>3, <2>4, LatestSame
  <2>6. QED BY <2>5 DEF F
<1>8. QED BY <1>1, <1>3, <1>4, <1>5, <1>7 DEF Store!Write, writerVars

\* Every other step is one the controller does not see.
LEMMA HiddenStep ==
  ASSUME TypeInv, SemMatchesBuffer, RefineInv, [Next]_vars,
         ~ CloseFiles, ~ (FetchCyl /\ newCyl[drv] # cyl[drv]), ~ SendCyl,
         ~ \E d \in Drives, h \in Heads, v \in Data : PruWrite(d, h, v)
  PROVE  UNCHANGED <<LatestData, Loaded, Image>>
<1>1. Image' = Image
  BY ImageKept
<1>2. ddr' = ddr
  <2>1. CASE ReadThread
    BY <2>1
    DEF ReadThread, FetchCyl, ReadTrack, StartOverlay, OverlayEntry, FetchDone, ExecCmd, CmdTaken,
        WaitEvent, ClearEvent, ReadDirty, ReadCurCyl, ClearDirty, CopyTrack, ScanDone, PutTrack,
        PostTrack, DrivesDone, AckExit, PutMarker, PostMarker, sharedVars
  <2>2. CASE WriteThread
    BY <2>2, WriteFrame DEF sharedVars
  <2>3. CASE PruProgram \/ RequestExit \/ Shutdown \/ UNCHANGED vars
    BY <2>3
    DEF PruProgram, PruTakeStart, PruExitCmd, PruExitCyl, PruExitInterrupt, PruHalt, RequestExit,
        Shutdown, JoinWriteThread, JoinReadThread, PruShutdown, vars, sharedVars
  <2>4. CASE Controller
    BY <2>4 DEF Controller, PruSeek, PruStepWaiting, PruWrite
  <2>5. QED BY <2>1, <2>2, <2>3, <2>4 DEF Next
<1>3. Loaded' = Loaded
  <2>1. CASE ReadThread
    <3>1. CASE FetchCyl
      BY <3>1 DEF FetchCyl, Loaded
    <3>2. CASE ~ FetchCyl
      <4>1. cyl' = cyl
        BY <2>1, <3>2
        DEF ReadThread, ReadTrack, StartOverlay, OverlayEntry, FetchDone, ExecCmd, CmdTaken,
            WaitEvent, ClearEvent, ReadDirty, ReadCurCyl, ClearDirty, CopyTrack, ScanDone,
            PutTrack, PostTrack, DrivesDone, AckExit, PutMarker, PostMarker
      <4>2. \/ rpc \in {"pread", "overlay"} /\ rpc' \in {"pread", "overlay"} /\ drv' = drv
            \/ rpc \notin {"pread", "overlay"} /\ rpc' \notin {"pread", "overlay"}
        BY <2>1, <3>2
        DEF ReadThread, ReadTrack, StartOverlay, OverlayEntry, FetchDone, ExecCmd, CmdTaken,
            WaitEvent, ClearEvent, ReadDirty, ReadCurCyl, ClearDirty, CopyTrack, ScanDone,
            PutTrack, PostTrack, DrivesDone, AckExit, PutMarker, PostMarker
      <4>3. QED BY <4>1, <4>2 DEF Loaded
    <3>3. QED BY <3>1, <3>2
  <2>2. CASE ~ ReadThread
    <3>1. UNCHANGED readerVars
      BY <2>2, WriteFrame, PruFrame DEF Next
    <3>2. QED BY <3>1 DEF Loaded, readerVars
  <2>3. QED BY <2>1, <2>2
<1>4. CASE ~ PutTrack
  BY <1>1, <1>2, <1>3, <1>4, StoredKept, LatestKept DEF RefineInv
<1>5. CASE PutTrack
  <2>1. /\ rpc = "put" /\ UpdateBuffer(drv, cyl[drv], trk) /\ UNCHANGED file /\ drv \in Drives
    BY <1>5, SizesAssumption
    DEF PutTrack, writerVars, TypeInv, TypeOK, ReaderOK, ReaderInv, Drives
  <2>2. trackBuffer[put].buf = ddr[drv][trk] /\ Loaded[drv] = cyl[drv]
    BY <2>1, LoadedAt DEF RefineInv, DirtyInv
  <2>3. ASSUME NEW d \in Drives, NEW c \in Cyls, NEW h \in Heads
        PROVE  LatestData'[d][c][h] = LatestData[d][c][h]
    <3>1. Stored'[d][c][h] = IF drv = d /\ cyl[drv] = c /\ trk = h
                              THEN trackBuffer[put].buf ELSE Stored[d][c][h]
      BY <2>1, StoredPut
    <3>2. QED BY <1>2, <1>3, <2>2, <3>1, LatestNow, LatestNext
  <2>4. LatestData' = LatestData
    BY <2>3, LatestType, LatestSame
  <2>5. QED BY <1>1, <1>3, <2>4
<1>6. QED BY <1>4, <1>5

\* Every step is a step of the store, or one that leaves it as it is.
LEMMA StoreStep ==
  TypeInv /\ SemMatchesBuffer /\ RefineInv /\ [Next]_vars => [Store!Next]_(Store!storeVars)
<1> SUFFICES ASSUME TypeInv, SemMatchesBuffer, RefineInv, [Next]_vars
             PROVE  Store!Next \/ UNCHANGED <<LatestData, Loaded, Image>>
  BY DEF Store!storeVars, Image
<1>1. CASE CloseFiles
  BY <1>1, CloseStep DEF Store!Next
<1>2. CASE FetchCyl /\ newCyl[drv] # cyl[drv]
  BY <1>2, LeaveStep DEF Store!Next
<1>3. CASE SendCyl
  BY <1>3, SeekStep DEF Store!Next
<1>4. CASE \E d \in Drives, h \in Heads, v \in Data : PruWrite(d, h, v)
  BY <1>4, WriteStep DEF Store!Next
<1>5. CASE ~ CloseFiles /\ ~ (FetchCyl /\ newCyl[drv] # cyl[drv]) /\ ~ SendCyl
           /\ ~ \E d \in Drives, h \in Heads, v \in Data : PruWrite(d, h, v)
  BY <1>5, HiddenStep
<1>6. QED BY <1>1, <1>2, <1>3, <1>4, <1>5

\* The threads, the track buffer and the cylinder buffers together are a store of
\* tracks: the controller reads back what it last wrote, across seeks, buffering and
\* file writes in progress, and a normal exit leaves every track's last data in the file.
THEOREM ThreadsImplementStore == Spec => ImplementsTrackStore
<1>1. QED BY StoreInit, StoreStep, RefineInvariant, PTL DEF Spec, ImplementsTrackStore, Store!Spec
=============================================================================
