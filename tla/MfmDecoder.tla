----------------------------- MODULE MfmDecoder -----------------------------
(***************************************************************************)
(* What every format's decoder of the reader shares (mfm/mfm_decoder.c):   *)
(* the check of a sector header against the track it was read from, and    *)
(* the rule that keeps the best of several reads of a sector.              *)
(*                                                                         *)
(* dp is the part of DRIVE_PARAMS these look at; r is the reader's state:  *)
(* "list" the SECTOR_STATUS list of the track, "sector_status" the static  *)
(* status of the sector being decoded, "file" and "metadata" what the      *)
(* output files hold at each sector, "good" and "crc" the arrays           *)
(* sector_good and sector_crc of --ignore_seek_errors.  A status is the    *)
(* set of its flags.                                                       *)
(***************************************************************************)
EXTENDS Integers, Sequences

NoSector ==
  [status |-> {}, last_status |-> {}, cyl |-> 0, head |-> 0, sector |-> 0,
   is_lba |-> FALSE, lba_addr |-> 0, ignore |-> FALSE, ecc |-> 0]

Mark(s, flags) == [s EXCEPT !.status = @ \cup flags]
MarkIf(cond, s, flags) == IF cond THEN Mark(s, flags) ELSE s
Stored(f, i, value) == [k \in DOMAIN f \cup {i} |-> IF k = i THEN value ELSE f[k]]
Distance(a, b) == IF a > b THEN a - b ELSE b - a

mfm_init_sector_status_list(num_sectors) ==
  [i \in 0 .. num_sectors - 1 |-> Mark(NoSector, {"SECT_BAD_HEADER", "SECT_NOT_WRITTEN"})]

\* The start of mfm_decode_track(): nothing seen yet in this read.
StartRead(list) == [i \in DOMAIN list |-> [list[i] EXCEPT !.last_status = {"SECT_BAD_HEADER"}]]

\* "WD 1003 controllers wrote 3 bit head code so head 8 is written as 0."
mfm_fix_head(dp, exp_head, head) ==
  IF dp.head_3bit /\ head = exp_head % 8 THEN exp_head ELSE head

----------------------------------------------------------------------------
(* mfm_check_header_values() *)

\* The header is not that of the track the heads should be on.
Misplaced(dp, s, exp_cyl, exp_head) ==
  /\ ~ s.is_lba
  /\ \/ s.head # exp_head
     \/ s.cyl # exp_cyl /\ ~ dp.ignore_seek_errors
     \/ Distance(s.cyl, exp_cyl) > 250

SeekError(dp, s, exp_cyl, exp_head) ==
  /\ Misplaced(dp, s, exp_cyl, exp_head)
  /\ s.cyl # exp_cyl
  /\ "SECT_BAD_HEADER" \notin s.status

SenselessLba(dp, s, exp_cyl) ==
  s.is_lba /\ s.lba_addr > 2 * ((exp_cyl + 1) * dp.num_head * dp.num_sectors)

\* Where the sector comes in the expected order, num_sectors if it does not.
Expected(dp, s, from) ==
  LET at == {i \in from .. dp.num_sectors - 1 : dp.sector_numbers[i + 1] = s.sector}
  IN IF at = {} THEN dp.num_sectors ELSE CHOOSE i \in at : \A j \in at : i <= j

SectRel0(dp, s) == s.sector - dp.first_sector_number
InRange(dp, s) == SectRel0(dp, s) \in 0 .. dp.num_sectors - 1

\* Faulty variant: a header updates the status of a sector that has been written
AwaitingAny(entry, s) ==
  [Mark(s, {"SECT_BAD_DATA", "SECT_NOT_WRITTEN"}) EXCEPT !.last_status = entry.last_status]

\* "If we haven't written the sector update the sector status info."
Awaiting(entry, s) ==
  IF "SECT_NOT_WRITTEN" \in entry.status
  THEN [Mark(s, {"SECT_BAD_DATA", "SECT_NOT_WRITTEN"}) EXCEPT !.last_status = entry.last_status]
  ELSE entry

mfm_check_header_values(dp, r, sector_size, exp_cyl, exp_head) ==
  LET s == r.sector_status
      ordered == dp.sector_numbers # <<>>
      found == Expected(dp, s, r.sector_index)
      unordered == ordered /\ found = dp.num_sectors
      outside == \/ ~ InRange(dp, s) /\ "SECT_BAD_SECTOR_NUMBER" \notin s.status
                 \/ s.head > dp.num_head
      placed == MarkIf(Misplaced(dp, s, exp_cyl, exp_head),
                       MarkIf(SeekError(dp, s, exp_cyl, exp_head), s, {"ANALYZE_WRONG_FORMAT", "SECT_WRONG_CYL"}),
                       {"SECT_BAD_HEADER"})
      checked == MarkIf(outside \/ unordered,
                        MarkIf(SenselessLba(dp, s, exp_cyl) \/ sector_size # dp.sector_size,
                               placed, {"ANALYZE_WRONG_FORMAT"}),
                        {"SECT_BAD_HEADER", "ANALYZE_WRONG_FORMAT"})
  IN CASE s.ignore -> r
       [] ~ s.ignore /\ dp.ignore_header_mismatch -> [r EXCEPT !.sector_index = @ + 1]
       [] OTHER ->
            [r EXCEPT
               !.seek_difference = IF SeekError(dp, s, exp_cyl, exp_head) THEN exp_cyl - s.cyl ELSE @,
               !.sector_index = IF ~ ordered THEN @ + 1 ELSE IF unordered THEN @ ELSE found,
               !.sector_status = checked,
               !.list = [i \in DOMAIN @ |-> IF i = SectRel0(dp, s) THEN Awaiting(@[i], checked) ELSE @[i]]]

----------------------------------------------------------------------------
(* mfm_write_sector() and mfm_write_metadata() *)

BadData(s) == "SECT_BAD_DATA" \in s.status

\* Faulty variant: any correction replaces another
BetterAnyEcc(dp, entry, s) ==
  \/ entry.status \cap {"SECT_BAD_HEADER", "SECT_NOT_WRITTEN"} # {}
  \/ ~ BadData(s) /\ (BadData(entry) \/ entry.ecc > 0 \/ (dp.ignore_seek_errors /\ s.cyl # entry.cyl))

\* This read of a sector replaces the one the list describes.
Better(dp, entry, s) ==
  \/ "SECT_BAD_HEADER" \in entry.status
  \/ "SECT_NOT_WRITTEN" \in entry.status
  \/ /\ ~ BadData(s)
     /\ \/ BadData(entry)
        \/ entry.ecc > 0 /\ (s.ecc = 0 \/ s.ecc < entry.ecc)
        \/ dp.ignore_seek_errors /\ s.cyl # entry.cyl

\* With --ignore_seek_errors the list of one track cannot tell which read of a
\* sector is best: sector_good and sector_crc remember it for the whole disk.
SECTOR_GOOD_GOOD == 0
SECTOR_GOOD_BAD == 128
NewGood(s) == IF BadData(s) THEN SECTOR_GOOD_BAD ELSE s.ecc

Place(dp, s) == <<s.cyl, s.head, SectRel0(dp, s)>>
Conflicts(dp, r, s, content) ==
  LET at == Place(dp, s)
  IN /\ ~ BadData(s) /\ s.ecc = 0
     /\ r.good[at] = SECTOR_GOOD_GOOD
     /\ r.crc[at] # content

\* Faulty variant: the number of the first sector is not taken off
OffsetOfNumber(dp, s) ==
  IF s.is_lba THEN s.lba_addr
  ELSE (s.cyl * dp.num_head + s.head) * dp.num_sectors + s.sector

Offset(dp, s) ==
  IF s.is_lba THEN s.lba_addr
  ELSE (s.cyl * dp.num_head + s.head) * dp.num_sectors + SectRel0(dp, s)

\* "Check for sector and head in range to prevent bad writes."
Writable(dp, s) == InRange(dp, s) /\ s.head <= dp.num_head

mfm_write_sector(dp, r, content) ==
  LET s == r.sector_status
      i == SectRel0(dp, s)
      entry == r.list[i]
      badLba == "SECT_BAD_LBA_NUMBER" \in s.status
      better == Better(dp, entry, s) /\ ~ badLba
      kept == dp.ignore_seek_errors /\ r.good[Place(dp, s)] < NewGood(s)
      update == /\ better
                /\ dp.ignore_seek_errors => ~ kept /\ ~ Conflicts(dp, r, s, content)
      cleared == [entry EXCEPT !.status = @ \ {"SECT_NOT_WRITTEN"}]
      listed == IF update \/ badLba THEN s ELSE cleared
      seen == [r EXCEPT !.list[i] = [listed EXCEPT !.last_status = s.status],
                        !.file = IF update THEN Stored(@, Offset(dp, s), content) ELSE @]
  IN IF better /\ dp.ignore_seek_errors
     THEN [seen EXCEPT !.good[Place(dp, s)] = IF kept THEN @ ELSE NewGood(s),
                       !.crc[Place(dp, s)] = IF BadData(s) THEN @ ELSE content]
     ELSE seen

\* mfm_handle_alt_track_ch(): "Alternate is reported with same information for
\* each sector. Only add one copy"
mfm_handle_alt_track_ch(dp, r, bad, good) ==
  LET valid(t) == t[1] < dp.num_cyl /\ t[2] < dp.num_head
      repeated == r.alternates # <<>> /\ Head(r.alternates) = <<bad, good>>
  IN IF valid(bad) /\ valid(good) /\ ~ repeated
     THEN [r EXCEPT !.alternates = <<<<bad, good>>>> \o @] ELSE r

\* "We will write the last sector read data."
mfm_write_metadata(dp, r, content) ==
  [r EXCEPT !.metadata = Stored(@, Offset(dp, r.sector_status), content)]
=============================================================================
