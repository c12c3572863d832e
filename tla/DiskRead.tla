------------------------------ MODULE DiskRead ------------------------------
(***************************************************************************)
(* mfm_read reading a whole disk (mfm/drive_read.c, mfm/drive.c): every    *)
(* track is read again until each of its sectors was read well once or the *)
(* retries are used up, with seeks in between that may lose the heads'     *)
(* place.  The deltas come as DeltasRead brings them; sectors are kept by  *)
(* the rules of MfmDecoder; the emulation image and the statistics are     *)
(* made a track late, when the next one starts (mfm/mfm_decoder.c).        *)
(*                                                                         *)
(* A delta of DeltasRead is here a sector: its header and its data.  The   *)
(* format is one of wd_mfm_decoder.c with separate headers.  A read of the *)
(* words of a track for the image is aligned with the others.              *)
(***************************************************************************)
EXTENDS DeltasRead, MfmDecoder, FiniteSets

CONSTANTS Jobs,      \* What is asked for, DRIVE_PARAMS, and the disk in the drive
          MaxFaults, \* Bound: the faults of drive and media during one run
          Spans,     \* The lengths of ECC corrections
          Places     \* The sectors of the disks: cylinder, head and number

\* A job has a cylinder and a head, and all of its tracks may be read.
ASSUME JobsAssumption ==
  \A job \in Jobs : /\ job[1].num_cyl \in Nat \ {0} /\ job[1].num_head \in Nat \ {0}
                    /\ (0 .. job[1].num_cyl - 1) \X (0 .. job[1].num_head - 1) \subseteq Tracks

ASSUME FaultsAssumption == MaxFaults \in Nat

VARIABLES
  dp, disk,
  pc,       \* Where drive_read_disk() is when it is not reading
  try,      \* Its variables for the track
  drive,    \* The cylinder the heads are on, and the one current_cyl says
  r,        \* The decoder and its output
  wrong_cyl,\* SECT_WRONG_CYL in the status mfm_decode_track() returns
  last,     \* The track and the list update_stats() saw last
  stats,
  emu,      \* The words of the emulation image's next track, and what was written
  faults,   \* So far
  clean     \* None since the reader came to this track

driveVars == <<dp, disk, pc, try, drive, r, wrong_cyl, last, stats, emu, faults, clean>>
vars == <<deltaVars, driveVars>>

Sectors == 0 .. dp.num_sectors - 1
LastCyl == Cardinality(DOMAIN disk) - 1
at == <<try.cyl, try.head>>

UNRECOVERED_ERROR(status) ==
  status \cap {"SECT_BAD_HEADER", "SECT_BAD_DATA"} # {} /\ "SECT_SPARE_BAD" \notin status

\* The retries of a track: none "when requested to read more cylinders or heads
\* than analyze determined".
Retries == IF try.cyl >= dp.noretry_cyl \/ try.head >= dp.noretry_head THEN 0 ELSE dp.retries

----------------------------------------------------------------------------
(* drive_step(): "steps" cylinders, with "slip" more or less by accident.      *)

\* seek_lp of PRU 0 counts its pulses down before it tests for the last, in 32
\* bits: none asked for is more than any drive has cylinders.
Pulses(steps) == IF steps = 0 THEN LastCyl + 1 ELSE steps
Stopped(cyl) == IF cyl < 0 THEN 0 ELSE IF cyl > LastCyl THEN LastCyl ELSE cyl

\* In recovery mode the drive moves its heads a fraction of a cylinder instead.
Moved(steps, slip) ==
  IF try.recovery_active THEN drive.arm ELSE Stopped(drive.arm + Pulses(steps) + slip)

DRIVE_STEP_UPDATE_CYL == TRUE
DRIVE_STEP_NO_UPDATE_CYL == FALSE

drive_step(steps, update_cyl) ==
  \E slip \in {-1, 0, 1} :
    LET current == drive.current_cyl + (IF update_cyl THEN steps ELSE 0)
        recalibrated == Moved(steps, slip) = 0 /\ drive.current_cyl # 0 /\ current # 0
    IN /\ slip # 0 => faults < MaxFaults
       /\ drive' = [arm |-> Moved(steps, slip), current_cyl |-> IF recalibrated THEN 0 ELSE current]
       /\ faults' = faults + (IF slip = 0 THEN 0 ELSE 1)
       /\ clean' = (clean /\ slip = 0)

\* Where the heads go before a retry, no further than the disk.
ClipSeekLen ==
  IF try.cyl + try.seek_len >= dp.num_cyl THEN dp.num_cyl - try.cyl - 1
  ELSE IF try.cyl + try.seek_len < 0 THEN - try.cyl ELSE try.seek_len

\* "First error retry without seek, second with third without etc": 1, -1, 2, -2, 4 ...
NextSeekLen ==
  LET doubled == IF try.seek_len >= 0 THEN try.seek_len
                 ELSE IF try.seek_len * 2 <= - dp.num_cyl THEN -1 ELSE try.seek_len * 2
  IN IF doubled = 0 THEN 1 ELSE - doubled

----------------------------------------------------------------------------
(* drive_read_disk() *)

Idle == Running /\ main = "idle"

StartTrack(cyl, head, active) ==
  /\ try' = [cyl |-> cyl, head |-> head, err_cnt |-> 0, no_seek_count |-> dp.no_seek_retries,
             seek_len |-> 1, recovery_active |-> active]
  /\ r' = [r EXCEPT !.list = mfm_init_sector_status_list(dp.num_sectors)]
  /\ clean' = TRUE

NoSeek ==
  /\ Idle /\ pc = "retry" /\ try.no_seek_count > 0
  /\ pc' = "go"
  /\ try' = [try EXCEPT !.no_seek_count = @ - 1]
  /\ UNCHANGED <<deltaVars, dp, disk, drive, r, wrong_cyl, last, stats, emu, faults, clean>>

Rested == [try EXCEPT !.no_seek_count = dp.no_seek_retries - 1]

EnableRecovery ==
  /\ Idle /\ pc = "retry" /\ try.no_seek_count <= 0
  /\ dp.recovery /\ ~ try.recovery_active
  /\ try' = [try EXCEPT !.recovery_active = TRUE]
  /\ UNCHANGED <<deltaVars, dp, disk, pc, drive, r, wrong_cyl, last, stats, emu, faults, clean>>

MicroStep ==
  /\ Idle /\ pc = "retry" /\ try.no_seek_count <= 0
  /\ dp.recovery /\ try.recovery_active
  /\ drive_step(1, DRIVE_STEP_NO_UPDATE_CYL)
  /\ try' = Rested
  /\ pc' = "go"
  /\ UNCHANGED <<deltaVars, dp, disk, r, wrong_cyl, last, stats, emu>>

SeekAway ==
  /\ Idle /\ pc = "retry" /\ try.no_seek_count <= 0 /\ ~ dp.recovery
  /\ ClipSeekLen # 0
  /\ drive_step(ClipSeekLen, DRIVE_STEP_UPDATE_CYL)
  /\ pc' = "back"
  /\ UNCHANGED <<deltaVars, dp, disk, try, r, wrong_cyl, last, stats, emu>>

SeekBack ==
  /\ Idle /\ pc = "back"
  /\ drive_step(- ClipSeekLen, DRIVE_STEP_UPDATE_CYL)
  /\ try' = [Rested EXCEPT !.seek_len = NextSeekLen]
  /\ pc' = "go"
  /\ UNCHANGED <<deltaVars, dp, disk, r, wrong_cyl, last, stats, emu>>

NowhereToSeek ==
  /\ Idle /\ pc = "retry" /\ try.no_seek_count <= 0 /\ ~ dp.recovery
  /\ ClipSeekLen = 0
  /\ try' = [Rested EXCEPT !.seek_len = NextSeekLen]
  /\ pc' = "go"
  /\ UNCHANGED <<deltaVars, dp, disk, drive, r, wrong_cyl, last, stats, emu, faults, clean>>

\* drive_read_track()
GoToTrack ==
  /\ Idle /\ pc = "go"
  /\ IF try.cyl # drive.current_cyl
     THEN drive_step(try.cyl - drive.current_cyl, DRIVE_STEP_UPDATE_CYL)
     ELSE UNCHANGED <<drive, faults, clean>>
  /\ pc' = "read"
  /\ UNCHANGED <<deltaVars, dp, disk, try, r, wrong_cyl, last, stats, emu>>

ReadTrack ==
  /\ pc = "read"
  /\ ExecRead
  /\ pc' = "decode"
  /\ UNCHANGED <<dp, disk, try, drive, r, wrong_cyl, last, stats, emu, faults, clean>>

\* ... and the start of mfm_decode_track().
StartDecode ==
  /\ deltas_start_read(at)
  /\ r' = [r EXCEPT !.list = StartRead(@), !.state = "MARK_ID", !.sector_index = 0]
  /\ wrong_cyl' = FALSE
  /\ UNCHANGED <<dp, disk, pc, try, drive, last, stats, emu, faults, clean>>

Failed == ReadFailed /\ UNCHANGED driveVars

----------------------------------------------------------------------------
(* wd_decode_track(), one sector as the next deltas arrive.                    *)

Unreadable == 100 \* The rank of a read whose check failed
Fine == [header |-> TRUE, mark |-> TRUE, rank |-> 0]
Faulty == {[Fine EXCEPT !.header = FALSE], [Fine EXCEPT !.mark = FALSE], [Fine EXCEPT !.rank = Unreadable]}
          \cup {[Fine EXCEPT !.rank = n] : n \in Spans}

Medium == disk[drive.arm]
Natural(sector) == IF sector \in DOMAIN Medium.bad THEN Medium.bad[sector] ELSE Fine
MayRead(sector) == {Natural(sector)} \cup IF faults < MaxFaults THEN Faulty ELSE {}

\* What is asked of the reader here: sectors numbered from 0, a delta for each, and
\* headers that are looked at.
ASSUME OptionsAssumption ==
  \A job \in Jobs : /\ job[1].num_sectors = MaxDeltas /\ job[1].first_sector_number = 0
                    /\ ~ job[1].ignore_header_mismatch /\ job[1].ignore_seek_errors \in BOOLEAN
                    /\ job[1].retries \in Nat

\* The disks: each cylinder has the number in its headers and the sectors that always
\* read badly.
ASSUME DisksAssumption ==
  \A job \in Jobs :
     /\ Cardinality(DOMAIN job[2]) \in Nat
     /\ DOMAIN job[2] = 0 .. Cardinality(DOMAIN job[2]) - 1
     /\ 0 .. job[1].num_cyl - 1 \subseteq DOMAIN job[2]
     /\ \A cyl \in DOMAIN job[2] :
           /\ job[2][cyl].header \in Nat
           /\ \A sector \in DOMAIN job[2][cyl].bad : job[2][cyl].bad[sector] \in Faulty

\* The sectors that the tracks or the headers of a disk name.
ASSUME PlacesAssumption ==
  \A job \in Jobs :
     LET OfTrack == (0 .. job[1].num_head - 1) \X (0 .. job[1].num_sectors - 1)
         Cyls == (0 .. job[1].num_cyl - 1) \cup {job[2][cyl].header : cyl \in DOMAIN job[2]}
     IN /\ \A p \in Places : p \in Nat \X (0 .. job[1].num_head - 1) \X (0 .. job[1].num_sectors - 1)
        /\ \A cyl \in Cyls, t \in OfTrack : <<cyl, t[1], t[2]>> \in Places

\* A correction is shorter than an ECC, and so than the number of a failed read.
ASSUME SpansAssumption == Spans \subseteq 1 .. Unreadable - 1

Content(s, rank) == [place |-> <<s.cyl, s.head, s.sector>>, rank |-> rank]
Unseen == [place |-> NoTrack, rank |-> Unreadable]

ReadHeader(d, sector) ==
  mfm_check_header_values(dp,
    [d EXCEPT !.sector_status = [NoSector EXCEPT !.status = {"SECT_HEADER_FOUND"},
                                   !.cyl = Medium.header, !.head = try.head, !.sector = sector],
              !.state = "MARK_DATA"],
    dp.sector_size, try.cyl, try.head)

DataStatus(d, rank) ==
  [MarkIf(rank \in Spans, MarkIf(rank = Unreadable, d.sector_status, {"SECT_BAD_DATA"}), {"SECT_ECC_RECOVERED"})
     EXCEPT !.ecc = IF rank \in Spans THEN rank ELSE 0]

Writes(s) == "SECT_BAD_HEADER" \notin s.status /\ ~ s.ignore

ReadData(d, rank) ==
  LET s == DataStatus(d, rank)
      read == [d EXCEPT !.sector_status = s, !.state = "MARK_ID"]
  IN IF Writes(s) THEN mfm_write_sector(dp, read, Content(s, rank)) ELSE read

\* update_emu_track_sector(): if the sector got better, the words of this read
\* from its header on, corrected by ECC, replace those of the track put together
\* from several reads.  After a missed mark the words of the next sector go with
\* them: "spilt" remembers it, for EmuHoldsBest.
Improves(d, rank) ==
  LET s == DataStatus(d, rank)
  IN /\ Writes(s)
     /\ Better(dp, d.list[SectRel0(dp, s)], s)
     /\ <<s.cyl, s.head>> = last.track

update_emu_track_sector(e, d, rank) ==
  IF Improves(d, rank)
  THEN [e EXCEPT !.fixed = [i \in DOMAIN @ |-> IF i \in SectRel0(dp, d.sector_status) + 1 .. Len(e.current)
                                               THEN e.current[i] ELSE @[i]],
                !.spilt = @ \/ Len(e.current) > SectRel0(dp, d.sector_status) + 1]
  ELSE e

Emulating == ~ dp.ignore_seek_errors
Gathered(e, slot) == [e EXCEPT !.current = Append(@, slot)]

\* A readable header, also where the data of the last sector was expected: the
\* decoder switches to it.
ReadSector(sector, seen) ==
  LET headed == ReadHeader(r, sector)
      slot == IF seen.mark THEN Content(headed.sector_status, seen.rank) ELSE Unseen
  IN /\ seen.header
     /\ r' = IF seen.mark THEN ReadData(headed, seen.rank) ELSE headed
     /\ emu' = IF seen.mark THEN update_emu_track_sector(Gathered(emu, slot), headed, seen.rank)
               ELSE Gathered(emu, slot)
     /\ wrong_cyl' = (wrong_cyl \/ "SECT_WRONG_CYL" \in headed.sector_status.status)

\* An unreadable one after a missed data mark: what follows is taken for the data
\* of the last sector, too far from its header to be good.
MissHeader(seen) ==
  /\ ~ seen.header
  /\ r' = IF r.state = "MARK_DATA" THEN ReadData(r, Unreadable) ELSE r
  /\ LET e == Gathered(emu, Unseen)
     IN emu' = IF r.state = "MARK_DATA" THEN update_emu_track_sector(e, r, Unreadable) ELSE e
  /\ UNCHANGED wrong_cyl

\* The sectors of a track are in the order of their numbers.
DecodeSector ==
  /\ main = "decode"
  /\ Process
  /\ processed' = processed + 1
  /\ \E seen \in MayRead(processed) :
        /\ ReadSector(processed, seen) \/ MissHeader(seen)
        /\ faults' = faults + (IF seen = Natural(processed) THEN 0 ELSE 1)
        /\ clean' = (clean /\ seen = Natural(processed))
  /\ UNCHANGED <<dp, disk, pc, try, drive, last, stats>>

----------------------------------------------------------------------------
(* update_stats(), one track late *)

Weight(status) ==
  IF "SECT_WRONG_CYL" \in status THEN 0
  ELSE IF "SECT_BAD_DATA" \in status THEN 1
  ELSE IF "SECT_BAD_HEADER" \in status THEN 0
  ELSE IF "SECT_ECC_RECOVERED" \in status THEN 9 ELSE 10

\* The sums over the list, which is empty where the code has NULL.
Total(w) == LET sum[n \in 0 .. Cardinality(DOMAIN w)] == IF n = 0 THEN 0 ELSE sum[n - 1] + w[n - 1]
            IN sum[Cardinality(DOMAIN w)]
BestWeight(list) == Total([i \in DOMAIN list |-> Weight(list[i].status)])
LastWeight(list) == Total([i \in DOMAIN list |-> Weight(list[i].last_status)])

\* Faulty variant: the track put together from several reads is never used
ChosenRead == emu.best

Chosen == IF emu.best_weight >= emu.fixed_weight THEN emu.best ELSE emu.fixed

\* new_track in update_stats() is the same as write_track but for the first read.
update_emu_track_words(list, write_track, new_track) ==
  LET better == LastWeight(list) > emu.best_weight \/ new_track
      none == DOMAIN list = {}
  IN [emu EXCEPT
        !.file = IF write_track THEN [track |-> last.track, words |-> Chosen, spilt |-> emu.spilt] ELSE @,
        !.best = IF better THEN emu.current ELSE @,
        !.best_weight = IF better THEN LastWeight(list) ELSE @,
        !.fixed = IF new_track /\ ~ none THEN emu.current ELSE @,
        !.spilt = @ /\ ~ new_track,
        !.fixed_weight = BestWeight(list),
        !.current = <<>>]

\* Faulty variant: a sector with both errors is counted as both
CountedTwice(flags, but) == Cardinality({i \in DOMAIN last.list : last.list[i].status \cap flags # {}})

Counted(flags, but) ==
  Cardinality({i \in DOMAIN last.list : last.list[i].status \cap flags # {} /\ last.list[i].status \cap but = {}})

Summed ==
  [num_ecc_recovered |-> stats.num_ecc_recovered + Counted({"SECT_ECC_RECOVERED"}, {}),
   num_bad_header |-> stats.num_bad_header + Counted({"SECT_BAD_HEADER"}, {}),
   num_bad_data |-> stats.num_bad_data + Counted({"SECT_BAD_DATA"}, {"SECT_BAD_HEADER"}),
   num_good_sectors |->
     stats.num_good_sectors
     + Cardinality({i \in DOMAIN last.list : last.list[i].status \cap {"SECT_BAD_HEADER", "SECT_BAD_DATA"} = {}})]

update_stats(track, list) ==
  LET changed == last.track # NoTrack /\ track # last.track
  IN /\ emu' = IF Emulating
               THEN update_emu_track_words(list, changed, changed \/ last.track = NoTrack)
               ELSE [emu EXCEPT !.current = <<>>]
     /\ stats' = IF changed THEN Summed ELSE stats
     /\ last' = [track |-> track, list |-> IF DOMAIN list = {} THEN last.list ELSE list]

----------------------------------------------------------------------------
(* The end of a read, of a track and of the disk *)

SectErr == \E i \in DOMAIN r.list : UNRECOVERED_ERROR(r.list[i].status)
\* Faulty variant: the retries are counted one too far
AgainOnce == SectErr /\ try.err_cnt <= Retries

Again == SectErr /\ try.err_cnt < Retries
\* Faulty variant: the retries are not counted
NotCounting == try

\* "while (sect_err && err_cnt++ < retries)"
Counting == [try EXCEPT !.err_cnt = IF SectErr THEN @ + 1 ELSE @]

\* Faulty variant: the decoder stops when it has caught up with the capture
EndDecodeEarly ==
  /\ Running /\ main = "decode" /\ processed >= num_deltas
  /\ main' = "idle"
  /\ update_stats(at, r.list)
  /\ pc' = (IF Again THEN "retry" ELSE "end") /\ try' = Counting
  /\ UNCHANGED <<PRU0_CMD, PRU0_WRITE_PTR, thread, track_deltas, pru_finished_read, thread_state, deltas_sem,
                 deltas_track, num_deltas, streaming, tran_file, processed>>
  /\ UNCHANGED <<dp, disk, drive, r, wrong_cyl, faults, clean>>

EndDecode ==
  /\ Decoded
  /\ update_stats(at, r.list)
  /\ IF wrong_cyl /\ try.err_cnt < Retries
     THEN pc' = "correct" /\ UNCHANGED try
     ELSE pc' = (IF Again THEN "retry" ELSE "end") /\ try' = Counting
  /\ UNCHANGED <<dp, disk, drive, r, wrong_cyl, faults, clean>>

\* Faulty variant: the correction also counts as a seek
CorrectSeekUpdates ==
  /\ Idle /\ pc = "correct"
  /\ drive_step(r.seek_difference, DRIVE_STEP_UPDATE_CYL)
  /\ pc' = IF Again THEN "retry" ELSE "end"
  /\ try' = Counting
  /\ UNCHANGED <<deltaVars, dp, disk, r, wrong_cyl, last, stats, emu>>

\* "Looks like a seek error."
CorrectSeek ==
  /\ Idle /\ pc = "correct"
  /\ drive_step(r.seek_difference, DRIVE_STEP_NO_UPDATE_CYL)
  /\ pc' = IF Again THEN "retry" ELSE "end"
  /\ try' = Counting
  /\ UNCHANGED <<deltaVars, dp, disk, r, wrong_cyl, last, stats, emu>>

NextTrack ==
  /\ Idle /\ pc = "end"
  /\ IF try.head + 1 < dp.num_head THEN StartTrack(try.cyl, try.head + 1, FALSE)
     ELSE /\ try.cyl + 1 < dp.num_cyl
          /\ StartTrack(try.cyl + 1, 0, FALSE)
  /\ pc' = "retry"
  /\ UNCHANGED <<deltaVars, dp, disk, drive, wrong_cyl, last, stats, emu, faults>>

mfm_decode_done ==
  /\ Idle /\ pc = "end"
  /\ try.head + 1 = dp.num_head /\ try.cyl + 1 = dp.num_cyl
  /\ update_stats(NoTrack, <<>>)
  /\ pc' = "done"
  /\ UNCHANGED <<deltaVars, dp, disk, try, drive, r, wrong_cyl, faults, clean>>

StopThread == pc = "done" /\ Stop /\ UNCHANGED driveVars
SigInt == Interrupt /\ UNCHANGED driveVars
Join == Joined /\ UNCHANGED driveVars

\* The drive's revolution ends with its last sector.
PruRead ==
  /\ \/ PruStart
     \/ PruCapture
     \/ /\ PRU0_WRITE_PTR = dp.num_sectors
        /\ \E status \in {"CMD_STATUS_OK"} \cup Warnings : PruFinish(status)
  /\ UNCHANGED driveVars

NoIndex ==
  /\ PRU0_WRITE_PTR = 0 /\ faults < MaxFaults
  /\ PruFinish("CMD_STATUS_INDEX_TIMEOUT")
  /\ faults' = faults + 1 /\ clean' = FALSE
  /\ UNCHANGED <<dp, disk, pc, try, drive, r, wrong_cyl, last, stats, emu>>

DeltaThread == Running /\ delta_proc /\ UNCHANGED driveVars

Init ==
  /\ \E job \in Jobs : dp = job[1] /\ disk = job[2]
  /\ DeltaInit
  /\ pc = "retry"
  /\ try = [cyl |-> 0, head |-> 0, err_cnt |-> 0, no_seek_count |-> dp.no_seek_retries,
            seek_len |-> 1, recovery_active |-> FALSE]
  /\ drive = [arm |-> 0, current_cyl |-> 0]
  /\ r = [state |-> "MARK_ID", sector_index |-> 0, seek_difference |-> 0, sector_status |-> NoSector,
          list |-> mfm_init_sector_status_list(dp.num_sectors), file |-> <<>>, metadata |-> <<>>,
          good |-> [p \in Places |-> SECTOR_GOOD_BAD], crc |-> [p \in Places |-> Unseen],
          alternates |-> <<>>]
  /\ wrong_cyl = FALSE
  /\ last = [track |-> NoTrack, list |-> <<>>]
  /\ stats = [num_ecc_recovered |-> 0, num_bad_header |-> 0, num_bad_data |-> 0, num_good_sectors |-> 0]
  /\ emu = [current |-> <<>>, best |-> <<>>, best_weight |-> 0, fixed |-> <<>>, fixed_weight |-> 0,
            spilt |-> FALSE, file |-> [track |-> NoTrack, words |-> <<>>, spilt |-> FALSE]]
  /\ faults = 0 /\ clean = TRUE

Reader ==
  \/ NoSeek \/ EnableRecovery \/ MicroStep \/ SeekAway \/ SeekBack \/ NowhereToSeek \/ GoToTrack
  \/ ReadTrack \/ StartDecode \/ Failed \/ EndDecode \/ CorrectSeek \/ NextTrack
  \/ mfm_decode_done \/ StopThread \/ Join

Next == Reader \/ DecodeSector \/ SigInt \/ DeltaThread \/ PruRead \/ NoIndex

\* Process says of DeltasRead's variables what DecodeSector does to them.
Fairness == WF_vars(Reader) /\ WF_deltaVars(Process) /\ WF_vars(DeltaThread) /\ WF_vars(PruRead)
Spec == Init /\ [][Next]_vars /\ Fairness
----------------------------------------------------------------------------

Statuses == {"SECT_HEADER_FOUND", "SECT_BAD_HEADER", "SECT_BAD_DATA", "SECT_NOT_WRITTEN",
             "SECT_ECC_RECOVERED", "SECT_WRONG_CYL", "ANALYZE_WRONG_FORMAT"}

TypeOK ==
  /\ pc \in {"retry", "back", "go", "read", "decode", "correct", "end", "done"}
  /\ main \in {"idle", "exec", "decode", "join", "stopped", "exit"}
  /\ thread \in {"wait", "copy", "check", "write", "complete", "ended"}
  /\ processed \in 0 .. dp.num_sectors /\ num_deltas \in 0 .. dp.num_sectors
  /\ try.cyl \in 0 .. dp.num_cyl - 1 /\ try.err_cnt \in 0 .. dp.retries + 1
  /\ try.seek_len \in - dp.num_cyl .. dp.num_cyl
  /\ drive.arm \in 0 .. LastCyl
  /\ \A i \in DOMAIN r.list : r.list[i].status \cup r.list[i].last_status \subseteq Statuses
  /\ Len(emu.current) <= dp.num_sectors
  /\ faults \in 0 .. MaxFaults

\* The best read of each sector as the extracted file has it.
Unread == 101
Misfiled == 102
OffsetOf(place) == Offset(dp, [NoSector EXCEPT !.cyl = place[1], !.head = place[2], !.sector = place[3]])
RankAt(offset, place) ==
  IF offset \notin DOMAIN r.file THEN Unread
  ELSE IF r.file[offset].place = place THEN r.file[offset].rank ELSE Misfiled
Held == [p \in Places |-> RankAt(OffsetOf(p), p)]

\* The file is the store of the best reads: nothing that was read well is lost to
\* a later retry, nor a shorter correction to a longer one, and no sector gets
\* another's data, although the heads may be over another cylinder, after missed
\* marks one sector's bytes pass for the data of the last, and with
\* ignore_seek_errors sectors of any cylinder turn up in any track.
Best == INSTANCE BestReads WITH store <- Held, Ranks <- Spans \cup {0, Unreadable}
ImplementsBestReads == Best!Spec

\* What the sector list says of the track being read is what the file holds: the
\* retries end when the list has no error.  (With ignore_seek_errors the sectors
\* of the list may be of several cylinders.)
RankOf(e) == IF "SECT_BAD_DATA" \in e.status THEN Unreadable ELSE e.ecc
FileMatchesStatus ==
  ~ dp.ignore_seek_errors =>
     \A i \in DOMAIN r.list :
        Held[<<try.cyl, try.head, i>>] = IF "SECT_NOT_WRITTEN" \in r.list[i].status THEN Unread ELSE RankOf(r.list[i])

\* Each track of the emulation image has a readable sector wherever the extracted
\* file has one, and one that needed no correction wherever the file does, also
\* when no single read of the track had all of them: the choice between the best
\* read and the track put together from several is made by weights, of a list
\* that is already that of the next track.  Except a track put together from reads
\* of which one missed a data mark and the next header: a sector first written so,
\* as unreadable, takes the words of that read for the next sector too, and that
\* sector is not replaced again however well it was read.
Class(rank) == IF rank = 0 THEN 0 ELSE IF rank < Unreadable THEN 1 ELSE 2
WordClass(place) ==
  LET word == emu.file.words[place[3] + 1] IN IF word.place = place THEN Class(word.rank) ELSE 2
EmuHoldsBest ==
  emu.file.track # NoTrack /\ ~ emu.file.spilt =>
     \A i \in Sectors : LET place == <<emu.file.track[1], emu.file.track[2], i>>
                       IN WordClass(place) <= Class(Held[place])

\* A track without a fault of its own is read in full, wherever the reading of
\* earlier ones left the heads and whatever current_cyl says: tracks with headers
\* of another cylinder send the heads away, steps go wrong, and a drive at track 0
\* counts as recalibrated.  This is said of disks where such headers are on one
\* cylinder: with several, each may send the heads to the next until no retry is left.
Sound(cyl) == disk[cyl].header = cyl /\ disk[cyl].bad = <<>>
CleanTrackRead ==
  pc = "end" /\ clean /\ Sound(try.cyl) /\ Retries > 0 /\ ~ dp.ignore_seek_errors /\ ~ dp.recovery => ~ SectErr

\* Disks without such headers, each of whose cylinders has a header that can be read,
\* read without a list of the sector numbers to expect: there one retry is enough.
Legible(cyl) == \E sector \in Sectors : sector \in DOMAIN disk[cyl].bad => disk[cyl].bad[sector].header
TrueHeaders ==
  /\ dp.sector_numbers = <<>>
  /\ \A cyl \in DOMAIN disk : disk[cyl].header = cyl /\ Legible(cyl)

\* The summary printed at the end tells what the file holds, each sector counted
\* once, whatever number of reads its track took.
StatsTell ==
  pc = "done" /\ ~ dp.ignore_seek_errors =>
     LET OfDisk(rs) == Cardinality({p \in Places : p[1] < dp.num_cyl /\ Held[p] \in rs})
     IN /\ stats.num_good_sectors = OfDisk(Spans \cup {0})
        /\ stats.num_ecc_recovered = OfDisk(Spans)
        /\ stats.num_bad_data + stats.num_bad_header = OfDisk({Unreadable, Unread})

\* The main thread uses the delta thread as DeltasRead has it, so what is proved
\* there of every number of deltas holds of the reader.
FollowsDeltas == DeltaSpec

\* The reading of a disk ends, with or without an interrupt: no retry goes on for
\* ever and nobody waits for a semaphore or a thread that has gone.
Finishes == <>(main \in {"stopped", "exit"})
=============================================================================
