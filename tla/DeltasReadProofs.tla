--------------------------- MODULE DeltasReadProofs ---------------------------
(***************************************************************************)
(* ReadsWhole, for any number of deltas and any tracks.  The argument: the *)
(* delta thread is either waiting or has taken the one semaphore count of  *)
(* the read it is busy with, so streaming cannot be cleared but by it, for *)
(* this read; it clears streaming only after it copied the write pointer   *)
(* once more after it first saw the command finished, and PRU 0 does not   *)
(* move the pointer of a finished command.  An interrupt or a failed read  *)
(* breaks all of this, but then the main thread starts no other read.      *)
(***************************************************************************)
EXTENDS DeltasRead, TLAPS

Commands == {"CMD_READ_TRACK", "CMD_STATUS_READ_STARTED", "CMD_STATUS_OK"} \cup Faults \cup Warnings

DeltaTypeOK ==
  /\ PRU0_CMD \in Commands
  /\ PRU0_WRITE_PTR \in Nat /\ track_deltas \in Nat /\ num_deltas \in Nat /\ processed \in Nat
  /\ deltas_sem \in Nat
  /\ pru_finished_read \in BOOLEAN /\ streaming \in BOOLEAN
  /\ thread \in {"wait", "copy", "check", "write", "complete", "ended"}
  /\ thread_state \in {"THREAD_RUNNING", "THREAD_SHUTDOWN"}
  /\ main \in {"idle", "exec", "decode", "join", "stopped", "exit"}

Busy == PRU0_CMD \in {"CMD_READ_TRACK", "CMD_STATUS_READ_STARTED"}
Waiting == thread = "wait" /\ deltas_sem = 0 /\ ~ pru_finished_read
Written == tran_file = Record(deltas_track, PRU0_WRITE_PTR)

IdleInv == main = "idle" => Waiting /\ ~ Busy /\ Written /\ processed = PRU0_WRITE_PTR
ExecInv == main = "exec" => Waiting

\* The delta thread on its way through a read.
ThreadInv ==
  /\ pru_finished_read => ~ Busy
  /\ thread = "wait" => deltas_sem = 1 /\ ~ pru_finished_read
  /\ thread # "wait" => deltas_sem = 0
  /\ thread = "check" /\ pru_finished_read => track_deltas = PRU0_WRITE_PTR
  /\ thread \in {"write", "complete"} => pru_finished_read /\ track_deltas = PRU0_WRITE_PTR
  /\ thread = "complete" => Written

DecodeInv ==
  main = "decode" =>
    /\ PRU0_CMD # "CMD_READ_TRACK"
    /\ processed <= num_deltas /\ num_deltas <= PRU0_WRITE_PTR
    /\ streaming => ThreadInv
    /\ ~ streaming => Waiting /\ ~ Busy /\ Written /\ num_deltas = PRU0_WRITE_PTR

RunningInv == main \in {"idle", "exec", "decode"} => thread_state = "THREAD_RUNNING" /\ thread # "ended"

IInv == DeltaTypeOK /\ RunningInv /\ IdleInv /\ ExecInv /\ DecodeInv
----------------------------------------------------------------------------

\* Before the first read nothing has been captured, written or decoded.
LEMMA InitInv == DeltaInit => IInv
<1> SUFFICES ASSUME DeltaInit PROVE IInv
  OBVIOUS
<1> USE DEF DeltaInit
<1>1. DeltaTypeOK
  BY DEF DeltaTypeOK, Commands, Faults, Warnings
<1>2. RunningInv /\ ExecInv /\ DecodeInv
  BY DEF RunningInv, ExecInv, DecodeInv
<1>3. IdleInv
  BY DEF IdleInv, Waiting, Busy, Written
<1> QED BY <1>1, <1>2, <1>3 DEF IInv

\* Every step changes its variables within their sets.
LEMMA TypeStep == IInv /\ [DeltaNext]_deltaVars => DeltaTypeOK'
<1> USE DEF DeltaTypeOK, Commands, Faults, Warnings, pruVars, localVars, countVars
<1> SUFFICES ASSUME DeltaTypeOK, DeltaNext PROVE DeltaTypeOK'
  BY DEF IInv, deltaVars
<1>1. CASE MainThread
  <2>1. CASE ExecRead \/ ReadFailed \/ Decoded \/ Joined
    BY <2>1 DEF ExecRead, ReadFailed, Decoded, Joined
  <2>2. CASE \E track \in Tracks : deltas_start_read(track)
    BY <2>2 DEF deltas_start_read, deltas_update_count
  <2>3. CASE Process
    BY <2>3 DEF Process
  <2>4. CASE Stop \/ Interrupt
    BY <2>4 DEF Stop, Interrupt, deltas_stop_thread
  <2> QED BY <1>1, <2>1, <2>2, <2>3, <2>4 DEF MainThread
<1>2. CASE delta_proc
  <2>1. CASE WaitRead
    BY <2>1 DEF WaitRead
  <2>2. CASE CopyDeltas
    BY <2>2 DEF CopyDeltas, deltas_update_count
  <2>3. CASE CheckStatus
    BY <2>3 DEF CheckStatus
  <2>4. CASE WriteDeltas
    BY <2>4 DEF WriteDeltas
  <2>5. CASE Complete
    BY <2>5 DEF Complete, deltas_update_count
  <2> QED BY <1>2, <2>1, <2>2, <2>3, <2>4, <2>5 DEF delta_proc
<1>3. CASE Pru0
  BY <1>3, DeltasAssumption DEF Pru0, PruStart, PruCapture, PruFinish, Finished
<1> QED BY <1>1, <1>2, <1>3 DEF DeltaNext

\* The invariant is inductive.
LEMMA StepInv == IInv /\ [DeltaNext]_deltaVars => IInv'
<1> SUFFICES ASSUME IInv, [DeltaNext]_deltaVars PROVE IInv'
  OBVIOUS
<1>t. DeltaTypeOK'
  BY TypeStep
<1> USE DEF IInv, DeltaTypeOK, RunningInv, IdleInv, ExecInv, DecodeInv, ThreadInv, Waiting, Busy,
            Written, pruVars, localVars, countVars
<1>1. CASE ExecRead
  BY <1>t, <1>1 DEF ExecRead
<1>2. CASE ReadFailed
  BY <1>t, <1>2 DEF ReadFailed
<1>3. CASE \E track \in Tracks : deltas_start_read(track)
  BY <1>t, <1>3 DEF deltas_start_read, deltas_update_count
<1>4. CASE Process
  BY <1>t, <1>4 DEF Process
<1>5. CASE Decoded
  BY <1>t, <1>5 DEF Decoded, AllProcessed
<1>6. CASE Stop
  BY <1>t, <1>6 DEF Stop, deltas_stop_thread
<1>7. CASE Interrupt
  BY <1>t, <1>7 DEF Interrupt, deltas_stop_thread
<1>8. CASE Joined
  BY <1>t, <1>8 DEF Joined
<1>9. CASE WaitRead
  BY <1>t, <1>9 DEF WaitRead
<1>10. CASE CopyDeltas
  BY <1>t, <1>10 DEF CopyDeltas, deltas_update_count
<1>11. CASE CheckStatus
  BY <1>t, <1>11 DEF CheckStatus, Warnings
<1>12. CASE WriteDeltas
  BY <1>t, <1>12 DEF WriteDeltas
<1>13. CASE Complete
  BY <1>t, <1>13 DEF Complete, deltas_update_count
<1>14. CASE PruStart
  BY <1>t, <1>14 DEF PruStart
<1>15. CASE PruCapture
  BY <1>t, <1>15 DEF PruCapture
<1>16. CASE \E status \in Finished : PruFinish(status)
  BY <1>t, <1>16 DEF PruFinish, Finished, Warnings, Faults
<1>17. CASE UNCHANGED deltaVars
  BY <1>t, <1>17 DEF deltaVars
<1> QED
  BY <1>1, <1>2, <1>3, <1>4, <1>5, <1>6, <1>7, <1>8, <1>9, <1>10, <1>11, <1>12, <1>13, <1>14, <1>15, <1>16, <1>17
     DEF DeltaNext, MainThread, delta_proc, Pru0

\* When the main thread has decoded a track, the decoder and the transitions file
\* had every delta of that read and of no other, whatever the interleaving with
\* the delta thread and PRU 0.
THEOREM ReadsEveryDelta == DeltaSpec => []ReadsWhole
<1>1. IInv => ReadsWhole
  BY DEF IInv, IdleInv, Written, ReadsWhole
<1> QED
  BY <1>1, InitInv, StepInv, PTL DEF DeltaSpec
=============================================================================
