----------------------------- MODULE DeltasRead -----------------------------
(***************************************************************************)
(* How a track's transition times get from the drive to the decoder        *)
(* (mfm/deltas_read.c, read_track of mfm/prucode0.p): PRU 0 captures them  *)
(* into shared memory, the delta thread copies them on and writes them to  *)
(* the transitions file, and the main thread decodes what has arrived.     *)
(* Nothing but a semaphore, a status word and two plain integers tie the   *)
(* three together.                                                         *)
(*                                                                         *)
(* Deltas are counted in units of the reader's choice.  Whether fewer than *)
(* 300 bytes came at once is open when any came.  A transitions file is    *)
(* asked for.  The main thread is what calls these routines does.          *)
(***************************************************************************)
EXTENDS Integers

CONSTANTS Tracks,    \* Where the heads may be told to read
          NoTrack,
          MaxDeltas  \* The most deltas of one read

ASSUME DeltasAssumption == MaxDeltas \in Nat /\ NoTrack \notin Tracks

VARIABLES
  PRU0_CMD,          \* The command or, once it is taken, its status
  PRU0_WRITE_PTR,    \* Deltas captured
  thread,            \* Where the delta thread is
  track_deltas,      \* Its local variables
  pru_finished_read,
  thread_state, deltas_sem, deltas_track, num_deltas, streaming,
  tran_file,         \* What was last appended to the transitions file
  main,              \* Where the main thread is
  processed          \* Deltas the decoder has taken

pruVars == <<PRU0_CMD, PRU0_WRITE_PTR>>
localVars == <<track_deltas, pru_finished_read>>
countVars == <<num_deltas, streaming>>
deltaVars == <<PRU0_CMD, PRU0_WRITE_PTR, thread, track_deltas, pru_finished_read, thread_state,
               deltas_sem, deltas_track, num_deltas, streaming, tran_file, main, processed>>

Faults == {"CMD_STATUS_READY_ERR", "CMD_STATUS_INDEX_TIMEOUT", "CMD_STATUS_READ_OVERFLOW"}
Warnings == {"CMD_STATUS_DELTA_OVERFLOW"} \* CMD_STATUS_READ_OVERRUN is handled alike
Record(track, count) == [track |-> track, count |-> count]

deltas_update_count(num_deltas_in, streaming_in) ==
  num_deltas' = num_deltas_in /\ streaming' = streaming_in

\* deltas_get_count(): -1, all the deltas of the read have been processed.
AllProcessed == ~ streaming /\ processed >= num_deltas

DeltaInit ==
  /\ PRU0_CMD = "CMD_STATUS_OK" /\ PRU0_WRITE_PTR = 0
  /\ thread = "wait" /\ track_deltas = 0 /\ pru_finished_read = FALSE
  /\ thread_state = "THREAD_RUNNING" /\ deltas_sem = 0 /\ deltas_track = NoTrack
  /\ num_deltas = 0 /\ streaming = FALSE
  /\ tran_file = Record(NoTrack, 0)
  /\ main = "idle" /\ processed = 0

\* exit() of one thread ends them all.
Running == main # "exit"

----------------------------------------------------------------------------
(* The main thread *)

\* drive_read_track(): the command, which it waits for PRU 0 to take ...
ExecRead ==
  /\ Running /\ main = "idle"
  /\ PRU0_CMD' = "CMD_READ_TRACK"
  /\ main' = "exec"
  /\ UNCHANGED <<PRU0_WRITE_PTR, thread, localVars, thread_state, deltas_sem, deltas_track,
                 countVars, tran_file, processed>>

\* ... and then deltas_start_read(), unless the status is already another.
deltas_start_read(track) ==
  /\ Running /\ main = "exec"
  /\ PRU0_CMD \in {"CMD_STATUS_READ_STARTED", "CMD_STATUS_OK"}
  /\ deltas_track' = track
  /\ deltas_update_count(0, TRUE)
  /\ deltas_sem' = deltas_sem + 1
  /\ processed' = 0
  /\ main' = "decode"
  /\ UNCHANGED <<pruVars, thread, localVars, thread_state, tran_file>>

ReadFailed ==
  /\ Running /\ main = "exec"
  /\ PRU0_CMD \in Faults \cup Warnings
  /\ main' = "exit"
  /\ UNCHANGED <<pruVars, thread, localVars, thread_state, deltas_sem, deltas_track,
                 countVars, tran_file, processed>>

\* The decoder takes some of the deltas that are there.
Process ==
  /\ Running /\ main = "decode"
  /\ processed' \in processed + 1 .. num_deltas
  /\ UNCHANGED <<pruVars, thread, localVars, thread_state, deltas_sem, deltas_track,
                 countVars, tran_file, main>>

Decoded ==
  /\ Running /\ main = "decode" /\ AllProcessed
  /\ main' = "idle"
  /\ UNCHANGED <<pruVars, thread, localVars, thread_state, deltas_sem, deltas_track,
                 countVars, tran_file, processed>>

deltas_stop_thread ==
  /\ thread_state' = "THREAD_SHUTDOWN"
  /\ deltas_sem' = deltas_sem + 1
  /\ main' = "join"
  /\ UNCHANGED <<PRU0_WRITE_PTR, thread, localVars, deltas_track, countVars, tran_file, processed>>

Stop == Running /\ main = "idle" /\ deltas_stop_thread /\ UNCHANGED PRU0_CMD

\* shutdown() from the handler of SIGINT: pru_restart() ends the PRU's command.
Interrupt ==
  /\ Running /\ main \in {"idle", "exec", "decode"}
  /\ PRU0_CMD' = "CMD_STATUS_OK"
  /\ deltas_stop_thread

Joined ==
  /\ Running /\ main = "join" /\ thread = "ended"
  /\ main' = "stopped"
  /\ UNCHANGED <<pruVars, thread, localVars, thread_state, deltas_sem, deltas_track,
                 countVars, tran_file, processed>>

----------------------------------------------------------------------------
(* delta_proc() *)

\* "Wait till read started"
WaitRead ==
  /\ thread = "wait" /\ deltas_sem > 0
  /\ deltas_sem' = deltas_sem - 1
  /\ track_deltas' = 0
  /\ thread' = IF thread_state = "THREAD_SHUTDOWN" THEN "ended" ELSE "copy"
  /\ UNCHANGED <<pruVars, pru_finished_read, thread_state, deltas_track, countVars, tran_file, main, processed>>

CopyDeltas ==
  /\ thread = "copy"
  /\ track_deltas' = PRU0_WRITE_PTR
  /\ deltas_update_count(PRU0_WRITE_PTR, TRUE)
  /\ \/ thread' = "check"
     \/ PRU0_WRITE_PTR > track_deltas /\ UNCHANGED thread
  /\ UNCHANGED <<pruVars, pru_finished_read, thread_state, deltas_sem, deltas_track, tran_file, main, processed>>

\* Faulty variant: the status is not looked at a second time
CheckStatusOnce ==
  /\ thread = "check"
  /\ \/ /\ PRU0_CMD = "CMD_STATUS_READ_STARTED"
        /\ thread' = "copy" /\ UNCHANGED main
     \/ /\ PRU0_CMD \in {"CMD_STATUS_OK"} \cup Warnings
        /\ thread' = "write" /\ UNCHANGED main
     \/ /\ PRU0_CMD \in Faults
        /\ main' = "exit" /\ UNCHANGED thread
  /\ UNCHANGED <<pruVars, localVars, thread_state, deltas_sem, deltas_track, countVars, tran_file,
                 processed>>

\* "check one more time to avoid race conditions"
CheckStatus ==
  /\ thread = "check"
  /\ \/ /\ PRU0_CMD = "CMD_STATUS_READ_STARTED"
        /\ thread' = "copy" /\ UNCHANGED <<pru_finished_read, main>>
     \/ /\ PRU0_CMD \in {"CMD_STATUS_OK"} \cup Warnings
        /\ thread' = IF pru_finished_read THEN "write" ELSE "copy"
        /\ pru_finished_read' = TRUE
        /\ UNCHANGED main
     \/ /\ PRU0_CMD \in Faults
        /\ main' = "exit" /\ UNCHANGED <<thread, pru_finished_read>>
  /\ UNCHANGED <<pruVars, track_deltas, thread_state, deltas_sem, deltas_track, countVars, tran_file,
                 processed>>

\* "This must be before update_mfm_deltas to prevent next read starting while
\* we are still writing deltas"
WriteDeltas ==
  /\ thread = "write"
  /\ tran_file' = Record(deltas_track, track_deltas)
  /\ thread' = "complete"
  /\ UNCHANGED <<pruVars, localVars, thread_state, deltas_sem, deltas_track, countVars, main, processed>>

\* "All are transferred, tell MFM decoder all deltas available"
Complete ==
  /\ thread = "complete"
  /\ deltas_update_count(track_deltas, FALSE)
  /\ pru_finished_read' = FALSE
  /\ thread' = "wait"
  /\ UNCHANGED <<pruVars, track_deltas, thread_state, deltas_sem, deltas_track, tran_file, main, processed>>

delta_proc == WaitRead \/ CopyDeltas \/ CheckStatus \/ WriteDeltas \/ Complete

----------------------------------------------------------------------------
(* PRU 0, read_track *)

PruStart ==
  /\ PRU0_CMD = "CMD_READ_TRACK"
  /\ \/ PRU0_CMD' = "CMD_STATUS_READ_STARTED" /\ PRU0_WRITE_PTR' = 0
     \/ PRU0_CMD' = "CMD_STATUS_READY_ERR" /\ UNCHANGED PRU0_WRITE_PTR
  /\ UNCHANGED <<thread, localVars, thread_state, deltas_sem, deltas_track, countVars, tran_file,
                 main, processed>>

PruCapture ==
  /\ PRU0_CMD = "CMD_STATUS_READ_STARTED"
  /\ PRU0_WRITE_PTR' \in PRU0_WRITE_PTR + 1 .. MaxDeltas
  /\ UNCHANGED <<PRU0_CMD, thread, localVars, thread_state, deltas_sem, deltas_track, countVars,
                 tran_file, main, processed>>

PruFinish(status) ==
  /\ PRU0_CMD = "CMD_STATUS_READ_STARTED"
  /\ PRU0_CMD' = status
  /\ UNCHANGED <<PRU0_WRITE_PTR, thread, localVars, thread_state, deltas_sem, deltas_track, countVars,
                 tran_file, main, processed>>

Finished == {"CMD_STATUS_OK"} \cup Warnings \cup (Faults \ {"CMD_STATUS_READY_ERR"})
Pru0 == PruStart \/ PruCapture \/ \E status \in Finished : PruFinish(status)

----------------------------------------------------------------------------

MainThread ==
  \/ ExecRead \/ ReadFailed \/ (\E track \in Tracks : deltas_start_read(track)) \/ Process \/ Decoded
  \/ Stop \/ Interrupt \/ Joined

DeltaNext == MainThread \/ (Running /\ delta_proc) \/ Pru0
DeltaSpec == DeltaInit /\ [][DeltaNext]_deltaVars

\* When the decoder is through with a track it has had every delta PRU 0
\* captured of it and none of another read, and the transitions file got the
\* same ones under the address of that track; although the thread learns of the
\* end by polling a status that may change between two looks, and the next read
\* changes the address.
ReadsWhole ==
  main = "idle" => /\ tran_file = Record(deltas_track, PRU0_WRITE_PTR)
                   /\ processed = PRU0_WRITE_PTR
=============================================================================
