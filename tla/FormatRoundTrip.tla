-------------------------- MODULE FormatRoundTrip --------------------------
(***************************************************************************)
(* ext2emu and mfm_read of the same format: every track Ext2Emu writes is  *)
(* read back with the decoder of its controller (SectorDecoders), part by  *)
(* part in the order the parts pass under the head.  One read of an        *)
(* undamaged track; the retries of the reader are not part of this module. *)
(***************************************************************************)
EXTENDS Ext2Emu, SectorDecoders

CONSTANT Jobs \* What ext2emu is asked to convert: the drive_params of Ext2Emu and the interleaves

ASSUME InterleaveAssumption ==
  \A job \in Jobs : /\ job.info.num_sectors \in Nat \ {0}
                    /\ job.sector_interleave \in Nat /\ job.track_interleave \in Nat

\* Its header is five bytes with the layout ext2emu uses and six for the reader:
\* SectorDecoders has no decoder for it.
NotReadable == {"CONTROLLER_SHUGART_CD9963"}

ASSUME GeometryAssumption ==
  \A job \in Jobs : /\ job.controller \in DOMAIN mfm_controller_info \ NotReadable
                    /\ job.num_head \in Nat \ {0}
                    /\ job.cyls \in Seq(Nat) \ {<<>>} /\ job.heads \in Seq(Nat) \ {<<>>}

ASSUME LayoutAssumption ==
  \A job \in Jobs : LET layout == Unrolled(job.info.track_layout)
                    IN /\ job.info.track_words \in Nat
                       /\ Len(layout) \in Nat /\ DOMAIN layout = 1 .. Len(layout)
                       /\ \A k \in DOMAIN layout :
                            /\ layout[k].count \in Nat
                            /\ layout[k].type = "TRK_FIELD" => Len(layout[k].list) \in Nat

VARIABLES reader, \* The decoder, part the next part of the track; 0 before and after a track
          extract \* The reader's output, Unread until the track is

vars == <<writeVars, slotVars, reader, extract>>

\* The DRIVE_PARAMS of a reader told the geometry of the image.
read_params ==
  [controller |-> drive_params.controller, info |-> controller, num_head |-> drive_params.num_head,
   num_cyl |-> drive_params.num_cyl, num_sectors |-> controller.num_sectors,
   sector_size |-> controller.sector_size, first_sector_number |-> controller.first_sector_number,
   sector_numbers |-> <<>>, ignore_seek_errors |-> FALSE, ignore_header_mismatch |-> FALSE,
   head_3bit |-> FALSE, xebec_skew |-> controller.flag = "FLAG_XEBEC_SKEW"]

NewReader(dp) ==
  [part |-> 1, state |-> "MARK_ID", sector_index |-> 0, seek_difference |-> 0,
   sector_status |-> NoSector, list |-> StartRead(mfm_init_sector_status_list(dp.num_sectors)),
   file |-> <<>>, metadata |-> <<>>, good |-> <<>>, crc |-> <<>>, alternates |-> <<>>,
   header_at |-> 0, resume |-> 0, next_header_time |-> FirstHeaderTime(dp),
   first_sector |-> 0, last_sector |-> 0, remap_list |-> <<>>]

Idle == [part |-> 0]
Unread == [list |-> <<>>]

mfm_decode_track ==
  /\ pc = "written" /\ reader = Idle /\ extract = Unread
  /\ reader' = NewReader(read_params)
  /\ UNCHANGED <<writeVars, slotVars, extract>>

under == track[reader.part]
Reading == pc = "written" /\ reader.part \in DOMAIN track

\* The bytes the decoder takes at a part, from the byte FindSync() names.
BytesAt(base, needed) ==
  LET sync == under.at + base
  IN [base |-> base, sync |-> sync, end |-> sync + needed, length |-> BytesCrcLen(read_params, reader.state),
      found |-> base # NotFound /\ sync + needed <= track_length]
Taken(p) == BytesAt(FindSync(read_params, reader, under, p), BytesNeeded(read_params, reader.state))
underPart == process_field(entries[under.ndx], under.loc)

\* The decoder's tail, after mfm_process_bytes() has set the state.
Moved(after, take) ==
  [after EXCEPT
     !.resume = take.end,
     !.next_header_time = NextHeaderTime(read_params, reader, take.sync, take.end),
     !.header_at = under.at,
     !.part = IF after.state = "DATA_SYNC" /\ read_params.controller \in NORTHSTAR THEN @ ELSE @ + 1]

PassPart ==
  /\ Reading
  /\ ~ Taken(underPart).found
  /\ reader' = [reader EXCEPT !.part = @ + 1]
  /\ UNCHANGED <<writeVars, slotVars, extract>>

mfm_process_bytes(what, p, base, length) ==
  CASE what = "PROCESS_HEADER" ->
         ProcessHeader(read_params, reader, p, base, length, [cyl |-> cyl, head |-> head])
    [] what = "PROCESS_HEADER2" -> ProcessHeader2(read_params, reader, p, base, length)
    [] what = "PROCESS_DATA" ->
         ProcessData(read_params, reader, p, base, length, TooFar(read_params, reader, under.at))

TakeBytes(what, p, take) ==
  /\ take.found
  /\ reader' = Moved(mfm_process_bytes(what, p, take.base, take.length), take)
  /\ UNCHANGED <<writeVars, slotVars, extract>>

ReadPart(what) ==
  /\ Reading
  /\ Processes(read_params, reader.state) = what
  /\ TakeBytes(what, underPart, Taken(underPart))

\* mfm_remap_track(): data_out is not initialised.
Junk == -2
mfm_remap_track(dp, r) ==
  LET first == (cyl * dp.num_head + head) * dp.num_sectors
      From(to) == {i \in DOMAIN r.remap_list : r.remap_list[i] = to}
      Moved1(to) == IF From(to) = {} THEN Junk
                    ELSE LET i == CHOOSE i \in From(to) : \A j \in From(to) : j <= i
                         IN IF first + i \in DOMAIN r.file THEN r.file[first + i] ELSE 0
  IN [b \in first .. first + dp.num_sectors - 1 |-> Moved1(b - first)]

mfm_end_track ==
  /\ pc = "written" /\ reader.part = Len(track) + 1
  /\ extract' = [file |-> IF read_params.xebec_skew THEN mfm_remap_track(read_params, reader) ELSE reader.file,
                 metadata |-> reader.metadata,
                 list |-> reader.list]
  /\ reader' = Idle
  /\ UNCHANGED <<writeVars, slotVars>>

NextRead ==
  /\ extract # Unread
  /\ NextTrack
  /\ extract' = Unread
  /\ UNCHANGED reader

Write == WriteTrack /\ UNCHANGED <<reader, extract>>

Init ==
  /\ drive_params \in Jobs
  /\ num_sectors = controller.num_sectors
  /\ sector_interleave = drive_params.sector_interleave
  /\ track_interleave = drive_params.track_interleave
  /\ track_start_sector = 0 /\ slot = StartSlot(0) /\ order = <<>>
  /\ WriteInit
  /\ reader = Idle
  /\ extract = Unread

Next ==
  \/ Write \/ mfm_decode_track \/ PassPart
  \/ \E what \in {"PROCESS_HEADER", "PROCESS_HEADER2", "PROCESS_DATA"} : ReadPart(what)
  \/ mfm_end_track \/ NextRead

Spec == Init /\ [][Next]_vars

----------------------------------------------------------------------------

States == {"MARK_ID", "HEADER_SYNC", "MARK_DATA", "MARK_DATA1", "DATA_SYNC", "DATA_SYNC2", "HEADER_SYNC2"}

TypeOK ==
  /\ pc \in {"cyl", "track", "entry", "written", "done", "exit"}
  /\ start \in 0 .. track_length
  /\ special_list_ndx \in 0 .. MAX_SECTORS * 5
  /\ slot.sector \in Sectors /\ slot.used \subseteq Sectors
  /\ reader # Idle => /\ reader.state \in States
                      /\ reader.part \in 1 .. Len(track) + 1
                      /\ DOMAIN reader.list = Sectors
                      /\ \A i \in Sectors : reader.list[i].cyl >= 0 /\ reader.list[i].head >= 0

First == (cyl * drive_params.num_head + head) * num_sectors
TrackBlocks == First .. First + num_sectors - 1

\* A sector of the track that was asked to be marked bad.  Where header and data
\* share one check such a sector is lost altogether.
MarkedBad(b) == <<cyl, head, b - First + controller.first_sector_number>> \in drive_params.mark_bad
Lost(b) == MarkedBad(b) /\ ~ controller.separate_data
Whole == [b \in {b \in TrackBlocks : ~ Lost(b)} |-> b]

\* The image comes back: every block of the track that ext2emu wrote is found
\* in its own place of the extracted file, and nothing is found elsewhere.  It
\* takes the layout's fields, the decoder's idea of the header, of what the checks
\* cover and of where the zeros and one bits of a sync are, and the order of the
\* sectors to agree, for each controller; and with Xebec skew also the list that
\* puts the data of each header's successor back in its place.
RoundTrip ==
  extract # Unread =>
     /\ extract.file = Whole
     /\ controller.metadata_bytes > 0 => extract.metadata = [b \in TrackBlocks |-> b]

\* No header ext2emu wrote is taken for that of another track, for a spare or for
\* one that names an alternate track, also at the largest cylinder and head
\* whose bits share bytes with the flags.
HeaderFlags == {"SECT_BAD_HEADER", "SECT_SPARE_BAD", "SECT_WRONG_CYL", "SECT_BAD_LBA_NUMBER", "ANALYZE_WRONG_FORMAT"}
HeadersBelong ==
  /\ reader.sector_status.status \cap HeaderFlags = {}
  /\ reader.alternates = <<>>

\* What the reader says of headers and sectors is true: each header belongs to the
\* track while it is read, and in the end each sector is good, unless ext2emu was
\* told to mark it bad; and then it is the data that is called bad, not the header.
\* A header that is all zero, with a check that is, is still called ambiguous.
BlockOf(i) == IF extract.list[i].is_lba THEN extract.list[i].lba_addr ELSE First + i

StatusTells ==
  /\ reader # Idle => HeadersBelong
  /\ extract # Unread => \A i \in DOMAIN extract.list :
        extract.list[i].status \ {"SECT_AMBIGUOUS_CRC"} =
          CASE Lost(BlockOf(i)) -> {"SECT_BAD_HEADER", "SECT_NOT_WRITTEN"}
            [] MarkedBad(BlockOf(i)) /\ ~ Lost(BlockOf(i)) -> {"SECT_HEADER_FOUND", "SECT_BAD_DATA"}
            [] OTHER -> {"SECT_HEADER_FOUND"}

\* The data of a track is never written over that of another, whatever the parts of
\* the track are read as: of the headers only those of the track the heads are on
\* get past mfm_check_header_values(), except where a header has but a block number.
StaysOnTrack ==
  reader # Idle /\ drive_params.controller # "CONTROLLER_ADAPTEC_4000_18SECTOR_512B" =>
     DOMAIN reader.file \subseteq TrackBlocks

\* The writer takes its sectors as the interleave of SectorSlots says, so what is
\* proved of every interleave there holds of the tracks written here.
FollowsSlots == SlotSpec
=============================================================================
