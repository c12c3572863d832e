---------------------------- MODULE DiskReadProofs ----------------------------
(***************************************************************************)
(* What mfm_read's reader of a disk does, for every disk, options and      *)
(* faults that the assumptions of DiskRead allow.                          *)
(*                                                                         *)
(* It implements DeltasRead, so every track it decodes is read whole: all  *)
(* that is needed for it is that the track it is at is one of the job's.   *)
(*                                                                         *)
(* Its extracted file implements BestReads.  The argument: without         *)
(* ignore_seek_errors the list of a track and the file say the same of     *)
(* every sector (ListOf), since a header without an error names the track  *)
(* the reader is at (Headed) and no two sectors share an offset, and the   *)
(* tracks ahead are not in the file (AheadOf), so a new list is right too; *)
(* with it sector_good and the file agree (GoodOf).  Either way the rules  *)
(* of mfm_write_sector() let in only a read that is better than the one    *)
(* the file has, or as good.                                               *)
(***************************************************************************)
EXTENDS DiskRead, DeltasReadProofs

TrackInv ==
  /\ \E job \in Jobs : dp = job[1]
  /\ {"cyl", "head"} \subseteq DOMAIN try
  /\ try.cyl \in 0 .. dp.num_cyl - 1
  /\ try.head \in 0 .. dp.num_head - 1

\* The heads are told to read only tracks of the job.
LEMMA TrackInTracks == TrackInv => at \in Tracks
BY JobsAssumption DEF TrackInv, at

\* A step that leaves the track alone.
LEMMA TrackStays ==
  ASSUME TrackInv, dp' = dp, DOMAIN try' = DOMAIN try, try'.cyl = try.cyl, try'.head = try.head
  PROVE  TrackInv'
BY DEF TrackInv

\* The first track is one of the job's.
LEMMA InitTrack == Init => TrackInv
BY JobsAssumption DEF Init, TrackInv

\* Each step of the reader is one of DeltasRead, or leaves its variables alone,
\* and goes to a track of the job.
LEMMA ReaderStep == TrackInv /\ Reader => TrackInv' /\ [DeltaNext]_deltaVars
<1> SUFFICES ASSUME TrackInv, Reader PROVE TrackInv' /\ [DeltaNext]_deltaVars
  OBVIOUS
<1>1. CASE NoSeek \/ EnableRecovery \/ MicroStep \/ SeekBack \/ NowhereToSeek \/ CorrectSeek
  <2>1. dp' = dp /\ UNCHANGED deltaVars
    BY <1>1 DEF NoSeek, EnableRecovery, MicroStep, SeekBack, NowhereToSeek, CorrectSeek
  <2>2. /\ DOMAIN try' = DOMAIN try
        /\ try'.cyl = try.cyl /\ try'.head = try.head
    BY <1>1 DEF NoSeek, EnableRecovery, MicroStep, SeekBack, NowhereToSeek, CorrectSeek, Counting,
                Rested, TrackInv
  <2> QED BY <2>1, <2>2, TrackStays
<1>2. CASE SeekAway \/ GoToTrack \/ mfm_decode_done
  BY <1>2, TrackStays DEF SeekAway, GoToTrack, mfm_decode_done
<1>3. CASE ReadTrack \/ Failed \/ StopThread \/ Join
  <2>1. dp' = dp /\ try' = try
    BY <1>3 DEF ReadTrack, Failed, StopThread, Join, driveVars
  <2>2. DeltaNext
    BY <1>3 DEF ReadTrack, Failed, StopThread, Join, DeltaNext, MainThread
  <2> QED BY <2>1, <2>2, TrackStays
<1>4. CASE StartDecode
  <2>1. dp' = dp /\ try' = try
    BY <1>4 DEF StartDecode
  <2>2. DeltaNext
    BY <1>4, TrackInTracks DEF StartDecode, DeltaNext, MainThread
  <2> QED BY <2>1, <2>2, TrackStays
<1>5. CASE EndDecode
  <2>1. dp' = dp /\ DeltaNext
    BY <1>5 DEF EndDecode, DeltaNext, MainThread
  <2>2. DOMAIN try' = DOMAIN try /\ try'.cyl = try.cyl /\ try'.head = try.head
    BY <1>5 DEF EndDecode, Counting, TrackInv
  <2> QED BY <2>1, <2>2, TrackStays
<1>6. CASE NextTrack
  <2>1. dp' = dp /\ UNCHANGED deltaVars
    BY <1>6 DEF NextTrack
  <2>2. PICK job \in Jobs : dp = job[1]
    BY DEF TrackInv
  <2>3. dp.num_cyl \in Nat \ {0} /\ dp.num_head \in Nat \ {0}
    BY <2>2, JobsAssumption
  <2>4. TrackInv'
    BY <1>6, <2>1, <2>2, <2>3 DEF NextTrack, StartTrack, TrackInv
  <2> QED BY <2>1, <2>4
<1> QED
  BY <1>1, <1>2, <1>3, <1>4, <1>5, <1>6 DEF Reader

\* The same of every step of the whole.
LEMMA NextStep == TrackInv /\ [Next]_vars => TrackInv' /\ [DeltaNext]_deltaVars
<1> SUFFICES ASSUME TrackInv, [Next]_vars PROVE TrackInv' /\ [DeltaNext]_deltaVars
  OBVIOUS
<1>1. CASE Reader
  BY <1>1, ReaderStep
<1>2. CASE DecodeSector
  BY <1>2, TrackStays DEF DecodeSector, DeltaNext, MainThread
<1>3. CASE SigInt
  BY <1>3, TrackStays DEF SigInt, driveVars, DeltaNext, MainThread
<1>4. CASE DeltaThread
  BY <1>4, TrackStays DEF DeltaThread, driveVars, DeltaNext
<1>5. CASE PruRead
  <2>1. dp' = dp /\ try' = try
    BY <1>5 DEF PruRead, driveVars
  <2>2. Pru0
    BY <1>5 DEF PruRead, Pru0, Finished
  <2> QED BY <2>1, <2>2, TrackStays DEF DeltaNext
<1>6. CASE NoIndex
  <2>1. Pru0
    BY <1>6 DEF NoIndex, Pru0, Finished, Faults
  <2> QED BY <1>6, <2>1, TrackStays DEF NoIndex, DeltaNext
<1>7. CASE UNCHANGED vars
  BY <1>7, TrackStays DEF vars, driveVars
<1> QED BY <1>1, <1>2, <1>3, <1>4, <1>5, <1>6, <1>7 DEF Next

\* Reading a disk is a use of the three threads' protocol as DeltasRead has it.
THEOREM ReaderImplementsDeltas == Spec => FollowsDeltas
<1>1. Init => DeltaInit
  BY DEF Init
<1> QED
  BY <1>1, InitTrack, NextStep, PTL DEF Spec, FollowsDeltas, DeltaSpec

\* So each track of each disk is decoded and written from all of its own deltas.
THEOREM DiskReadsWhole == Spec => []ReadsWhole
BY ReaderImplementsDeltas, ReadsEveryDelta, PTL DEF FollowsDeltas
----------------------------------------------------------------------------
(* The records and the numbers of a job                                    *)

\* What a header is marked with
Flags == {"SECT_HEADER_FOUND", "SECT_BAD_HEADER", "SECT_WRONG_CYL", "ANALYZE_WRONG_FORMAT"}

\* A SECTOR_STATUS of the decoder
SectorRecord ==
  [status : SUBSET Statuses, last_status : SUBSET Statuses, cyl : Nat, head : Nat, sector : Nat,
   is_lba : {FALSE}, lba_addr : {0}, ignore : {FALSE}, ecc : Spans \cup {0}]

\* What is asked for is a job.
JobInv == \E job \in Jobs : dp = job[1] /\ disk = job[2]

\* t is s with some flags of a header more
Flagged(s, t) ==
  /\ t \in SectorRecord
  /\ t = [s EXCEPT !.status = t.status]
  /\ s.status \subseteq t.status /\ t.status \subseteq s.status \cup Flags

\* Marking a record adds flags of a header and nothing else.
LEMMA FlagMore ==
  ASSUME NEW s, NEW t, Flagged(s, t), s \in SectorRecord, NEW f \in SUBSET Flags, NEW c
  PROVE  /\ Flagged(s, MarkIf(c, t, f))
         /\ MarkIf(c, t, f).status = t.status \cup (IF c THEN f ELSE {})
<1>1. t \in SectorRecord /\ t.status \cup f \in SUBSET Statuses
  BY DEF Flagged, SectorRecord, Flags, Statuses
<1>2. CASE c
  <2>1. MarkIf(c, t, f) = [t EXCEPT !.status = t.status \cup f]
    BY <1>2 DEF MarkIf, Mark
  <2>2. MarkIf(c, t, f) = [s EXCEPT !.status = t.status \cup f]
    BY <1>1, <2>1 DEF Flagged, SectorRecord
  <2>3. MarkIf(c, t, f) \in SectorRecord
    BY <1>1, <2>1 DEF SectorRecord
  <2>4. MarkIf(c, t, f).status = t.status \cup f
    BY <1>1, <2>1 DEF SectorRecord
  <2> QED BY <1>2, <2>2, <2>3, <2>4 DEF Flagged
<1>3. CASE ~c
  BY <1>3 DEF MarkIf
<1> QED BY <1>2, <1>3

\* A record is itself with no flag more.
LEMMA FlagNone ==
  ASSUME NEW s \in SectorRecord
  PROVE  Flagged(s, s)
BY DEF Flagged, SectorRecord

\* The record of a header before it is looked at
Blank(cyl, head, sector) ==
  [NoSector EXCEPT !.status = {"SECT_HEADER_FOUND"}, !.cyl = cyl, !.head = head, !.sector = sector]

\* dp and disk are those of a job
LEMMA JobFacts ==
  ASSUME JobInv
  PROVE  /\ dp.num_cyl \in Nat \ {0} /\ dp.num_head \in Nat \ {0}
         /\ dp.num_sectors = MaxDeltas /\ dp.first_sector_number = 0 /\ MaxDeltas \in Nat
         /\ ~dp.ignore_header_mismatch /\ dp.ignore_seek_errors \in BOOLEAN /\ dp.retries \in Nat
         /\ LastCyl \in Int /\ LastCyl >= dp.num_cyl - 1
         /\ DOMAIN disk = 0 .. LastCyl
<1>1. PICK job \in Jobs : dp = job[1] /\ disk = job[2]
  BY DEF JobInv
<1>2. /\ dp.num_cyl \in Nat \ {0} /\ dp.num_head \in Nat \ {0}
      /\ dp.num_sectors = MaxDeltas /\ dp.first_sector_number = 0 /\ MaxDeltas \in Nat
      /\ ~dp.ignore_header_mismatch /\ dp.ignore_seek_errors \in BOOLEAN /\ dp.retries \in Nat
  BY <1>1, JobsAssumption, OptionsAssumption, DeltasAssumption
<1>3. /\ Cardinality(DOMAIN disk) \in Nat
      /\ DOMAIN disk = 0 .. Cardinality(DOMAIN disk) - 1
      /\ 0 .. dp.num_cyl - 1 \subseteq DOMAIN disk
  BY <1>1, DisksAssumption
<1>4. dp.num_cyl - 1 \in 0 .. dp.num_cyl - 1
  BY <1>2
<1>5. dp.num_cyl - 1 \in 0 .. Cardinality(DOMAIN disk) - 1
  BY <1>3, <1>4
<1> QED BY <1>2, <1>3, <1>5 DEF LastCyl

\* The sectors that tracks and headers name are places of the disk.
LEMMA PlaceFacts ==
  ASSUME JobInv
  PROVE  /\ \A p \in Places : p \in Nat \X (0 .. dp.num_head - 1) \X (0 .. dp.num_sectors - 1)
         /\ \A cyl \in 0 .. dp.num_cyl - 1, head \in 0 .. dp.num_head - 1, sector \in Sectors :
              <<cyl, head, sector>> \in Places
         /\ \A c \in DOMAIN disk, head \in 0 .. dp.num_head - 1, sector \in Sectors :
              disk[c].header \in Nat /\ <<disk[c].header, head, sector>> \in Places
<1>1. PICK job \in Jobs : dp = job[1] /\ disk = job[2]
  BY DEF JobInv
<1> DEFINE OfTrack == (0 .. dp.num_head - 1) \X (0 .. dp.num_sectors - 1)
           Cyls == (0 .. dp.num_cyl - 1) \cup {disk[cyl].header : cyl \in DOMAIN disk}
<1>2. /\ \A p \in Places : p \in Nat \X (0 .. dp.num_head - 1) \X (0 .. dp.num_sectors - 1)
      /\ \A cyl \in Cyls, t \in OfTrack : <<cyl, t[1], t[2]>> \in Places
  BY <1>1, PlacesAssumption
<1>3. \A c \in DOMAIN disk : disk[c].header \in Nat /\ disk[c].header \in Cyls
  BY <1>1, DisksAssumption
<1>4. \A head \in 0 .. dp.num_head - 1, sector \in Sectors : <<head, sector>> \in OfTrack
  BY DEF Sectors
<1>5. \A cyl \in Cyls, head \in 0 .. dp.num_head - 1, sector \in Sectors :
         <<cyl, head, sector>> \in Places
  <2> SUFFICES ASSUME NEW cyl \in Cyls, NEW head \in 0 .. dp.num_head - 1, NEW sector \in Sectors
               PROVE  <<cyl, head, sector>> \in Places
    OBVIOUS
  <2>1. <<head, sector>> \in OfTrack
    BY <1>4
  <2>2. <<cyl, <<head, sector>>[1], <<head, sector>>[2]>> \in Places
    BY <1>2, <2>1
  <2> QED BY <2>2
<1>6. \A cyl \in 0 .. dp.num_cyl - 1 : cyl \in Cyls
  OBVIOUS
<1> HIDE DEF Cyls, OfTrack
<1> QED BY <1>2, <1>3, <1>5, <1>6

\* Two sectors never share an offset.
LEMMA OffsetsDiffer ==
  ASSUME JobInv, NEW p \in Places, NEW q \in Places, OffsetOf(p) = OffsetOf(q)
  PROVE  p = q
<1> DEFINE H == dp.num_head  S == dp.num_sectors
<1>1. H \in Nat \ {0} /\ S \in Nat /\ dp.first_sector_number = 0
  BY JobFacts
<1>2. /\ p \in Nat \X (0 .. H - 1) \X (0 .. S - 1)
      /\ q \in Nat \X (0 .. H - 1) \X (0 .. S - 1)
  BY PlaceFacts
<1>3. /\ OffsetOf(p) = (p[1] * H + p[2]) * S + p[3]
      /\ OffsetOf(q) = (q[1] * H + q[2]) * S + q[3]
  BY <1>1, <1>2 DEF OffsetOf, Offset, NoSector, SectRel0
<1> HIDE DEF H, S
<1>4. ASSUME NEW M \in Nat, NEW a \in Nat, NEW b \in Nat, NEW x \in 0 .. M - 1, NEW y \in 0 .. M - 1,
             a * M + x = b * M + y
      PROVE  a = b /\ x = y
  <2>1. ASSUME NEW c \in Nat, NEW d \in Nat, c < d PROVE c * M + M <= d * M
    <3>1. d - c - 1 \in Nat
      BY <2>1
    <3>2. (d - c - 1) * M \in Nat
      BY <3>1
    <3>3. (d - c - 1) * M = d * M - c * M - M
      OBVIOUS
    <3>4. c * M \in Nat /\ d * M \in Nat
      OBVIOUS
    <3> QED BY <3>2, <3>3, <3>4
  <2>2. a * M \in Nat /\ b * M \in Nat
    OBVIOUS
  <2>3. ~(a < b)
    <3> SUFFICES ASSUME a < b PROVE FALSE
      OBVIOUS
    <3>1. a * M + M <= b * M
      BY <2>1
    <3> DEFINE u == a * M  v == b * M
    <3>2. u \in Nat /\ v \in Nat /\ u + M <= v /\ u + x = v + y
      BY <2>2, <3>1, <1>4
    <3> HIDE DEF u, v
    <3> QED BY <3>2
  <2>4. ~(b < a)
    <3> SUFFICES ASSUME b < a PROVE FALSE
      OBVIOUS
    <3>1. b * M + M <= a * M
      BY <2>1
    <3> DEFINE u == a * M  v == b * M
    <3>2. u \in Nat /\ v \in Nat /\ v + M <= u /\ u + x = v + y
      BY <2>2, <3>1, <1>4
    <3> HIDE DEF u, v
    <3> QED BY <3>2
  <2>5. a = b
    BY <2>3, <2>4
  <2>6. x = y
    <3> DEFINE u == a * M
    <3>1. u \in Nat /\ u + x = u + y
      BY <2>2, <2>5, <1>4
    <3> HIDE DEF u
    <3> QED BY <3>1
  <2> QED BY <2>5, <2>6
<1> DEFINE s == p[1] * H + p[2]  t == q[1] * H + q[2]
<1>5. s \in Nat /\ t \in Nat
  BY <1>1, <1>2
<1>6. s * S + p[3] = t * S + q[3]
  BY <1>3
<1>7. s = t /\ p[3] = q[3]
  <2> HIDE DEF s, t
  <2>1. p[3] \in 0 .. S - 1 /\ q[3] \in 0 .. S - 1
    BY <1>2
  <2> QED BY <1>1, <1>4, <1>5, <1>6, <2>1
<1>8. p[1] = q[1] /\ p[2] = q[2]
  BY <1>1, <1>2, <1>4, <1>7
<1> QED BY <1>2, <1>7, <1>8

----------------------------------------------------------------------------
(* A header                                                                *)

\* The decoder's state that is read or changed
Fields == {"state", "list", "sector_status", "file", "good", "crc", "sector_index", "seek_difference"}

\* What the decoder keeps
DecoderType(d) ==
  /\ Fields \subseteq DOMAIN d
  /\ d.list \in [Sectors -> SectorRecord]
  /\ d.sector_status \in SectorRecord
  /\ d.good \in [Places -> Spans \cup {0, SECTOR_GOOD_BAD}]
  /\ d.seek_difference \in Int

\* A header that was looked at in this track.
Headed(s) ==
  /\ s.sector \in Sectors /\ s.head = try.head /\ <<s.cyl, s.head, s.sector>> \in Places
  /\ s.status \subseteq Flags /\ s.ecc = 0
  /\ "SECT_BAD_HEADER" \notin s.status =>
       /\ dp.ignore_seek_errors \/ s.cyl = try.cyl
       /\ "SECT_WRONG_CYL" \notin s.status

\* A header changes the entry only of a sector that has not been written.
LEMMA AwaitingRecord ==
  ASSUME NEW e \in SectorRecord, NEW s \in SectorRecord
  PROVE  /\ Awaiting(e, s) \in SectorRecord
         /\ "SECT_NOT_WRITTEN" \notin e.status => Awaiting(e, s) = e
         /\ "SECT_NOT_WRITTEN" \in e.status =>
              Awaiting(e, s).status = s.status \cup {"SECT_BAD_DATA", "SECT_NOT_WRITTEN"}
<1>1. s.status \cup {"SECT_BAD_DATA", "SECT_NOT_WRITTEN"} \in SUBSET Statuses
  BY DEF SectorRecord, Statuses
<1>2. e.last_status \in SUBSET Statuses
  BY DEF SectorRecord
<1> QED BY <1>1, <1>2 DEF Awaiting, Mark, SectorRecord

\* What a header does to the decoder: its record belongs to the track, or is marked.
LEMMA HeaderRead ==
  ASSUME JobInv, TrackInv, drive.arm \in DOMAIN disk, NEW d, DecoderType(d), NEW sector \in Sectors
  PROVE  LET h == ReadHeader(d, sector)
         IN /\ DecoderType(h) /\ h.state = "MARK_DATA"
            /\ DOMAIN h = DOMAIN d /\ h.file = d.file /\ h.good = d.good /\ h.crc = d.crc
            /\ Headed(h.sector_status) /\ h.sector_status.sector = sector
            /\ h.list = [d.list EXCEPT ![sector] = Awaiting(d.list[sector], h.sector_status)]
<1>1. /\ Medium.header \in Nat /\ try.cyl \in Nat /\ try.head \in Nat /\ sector \in Nat
      /\ try.head \in 0 .. dp.num_head - 1
      /\ <<Medium.header, try.head, sector>> \in Places
      /\ SectRel0(dp, Blank(Medium.header, try.head, sector)) = sector
  <2>1. try.head \in 0 .. dp.num_head - 1 /\ try.cyl \in 0 .. dp.num_cyl - 1
    BY DEF TrackInv
  <2>2. Medium.header \in Nat /\ <<Medium.header, try.head, sector>> \in Places
    BY <2>1, PlaceFacts DEF Medium
  <2>3. sector \in Nat /\ try.head \in Nat /\ try.cyl \in Nat /\ dp.first_sector_number = 0
    BY <2>1, JobFacts DEF Sectors
  <2>4. Blank(Medium.header, try.head, sector).sector = sector
    BY <2>2, <2>3 DEF Blank, NoSector
  <2> QED BY <2>1, <2>2, <2>3, <2>4 DEF SectRel0
<1> DEFINE b == Blank(Medium.header, try.head, sector)
           d1 == [d EXCEPT !.sector_status = b, !.state = "MARK_DATA"]
           s == d1.sector_status
           ordered == dp.sector_numbers # <<>>
           found == Expected(dp, s, d1.sector_index)
           unordered == ordered /\ found = dp.num_sectors
           outside == \/ ~ InRange(dp, s) /\ "SECT_BAD_SECTOR_NUMBER" \notin s.status
                      \/ s.head > dp.num_head
           once == MarkIf(SeekError(dp, s, try.cyl, try.head), s, {"ANALYZE_WRONG_FORMAT", "SECT_WRONG_CYL"})
           placed == MarkIf(Misplaced(dp, s, try.cyl, try.head), once, {"SECT_BAD_HEADER"})
           sensible == MarkIf(SenselessLba(dp, s, try.cyl) \/ dp.sector_size # dp.sector_size,
                              placed, {"ANALYZE_WRONG_FORMAT"})
           checked == MarkIf(outside \/ unordered, sensible, {"SECT_BAD_HEADER", "ANALYZE_WRONG_FORMAT"})
           difference == IF SeekError(dp, s, try.cyl, try.head) THEN try.cyl - s.cyl ELSE d1.seek_difference
           index == IF ~ ordered THEN d1.sector_index + 1 ELSE IF unordered THEN d1.sector_index ELSE found
           list == [i \in DOMAIN d1.list |->
                      IF i = SectRel0(dp, s) THEN Awaiting(d1.list[i], checked) ELSE d1.list[i]]
           h == ReadHeader(d, sector)
<1>2. /\ s = b /\ d1.list = d.list /\ d1.file = d.file /\ d1.good = d.good /\ d1.crc = d.crc
      /\ d1.state = "MARK_DATA" /\ DOMAIN d1 = DOMAIN d /\ d1.seek_difference = d.seek_difference
  BY DEF DecoderType, Fields
<1>3. /\ s \in SectorRecord /\ s.status = {"SECT_HEADER_FOUND"}
      /\ s.cyl = Medium.header /\ s.head = try.head /\ s.sector = sector /\ s.ecc = 0
      /\ ~s.ignore /\ ~s.is_lba
  <2>1. /\ b \in SectorRecord /\ b.status = {"SECT_HEADER_FOUND"}
        /\ b.cyl = Medium.header /\ b.head = try.head /\ b.sector = sector /\ b.ecc = 0
        /\ ~b.ignore /\ ~b.is_lba
    BY <1>1 DEF Blank, NoSector, SectorRecord, Statuses
  <2> HIDE DEF d1, b
  <2> QED BY <1>2, <2>1
<1>4. h = [d1 EXCEPT !.seek_difference = difference, !.sector_index = index,
                     !.sector_status = checked, !.list = list]
  <2>1. ReadHeader(d, sector)
          = mfm_check_header_values(dp, d1, dp.sector_size, try.cyl, try.head)
    BY DEF ReadHeader, Blank
  <2>2. ~dp.ignore_header_mismatch
    BY JobFacts
  <2> HIDE DEF d1
  <2> QED BY <1>3, <2>1, <2>2 DEF mfm_check_header_values
<1>5. /\ Flagged(s, checked)
      /\ Misplaced(dp, s, try.cyl, try.head) => "SECT_BAD_HEADER" \in checked.status
      /\ "SECT_WRONG_CYL" \in checked.status => "SECT_BAD_HEADER" \in checked.status
  <2>0. SeekError(dp, s, try.cyl, try.head) => Misplaced(dp, s, try.cyl, try.head)
    BY DEF SeekError
  <2> HIDE DEF s, outside, unordered
  <2>1. Flagged(s, s)
    BY <1>3, FlagNone
  <2>2. /\ Flagged(s, once)
        /\ "SECT_WRONG_CYL" \in once.status => Misplaced(dp, s, try.cyl, try.head)
    BY <1>3, <2>0, <2>1, FlagMore DEF Flags
  <2> HIDE DEF once
  <2>3. /\ Flagged(s, placed)
        /\ Misplaced(dp, s, try.cyl, try.head) => "SECT_BAD_HEADER" \in placed.status
        /\ "SECT_WRONG_CYL" \in placed.status => Misplaced(dp, s, try.cyl, try.head)
    BY <1>3, <2>2, FlagMore DEF Flags
  <2> HIDE DEF placed
  <2>4. /\ Flagged(s, sensible) /\ placed.status \subseteq sensible.status
        /\ "SECT_WRONG_CYL" \in sensible.status => "SECT_WRONG_CYL" \in placed.status
    BY <1>3, <2>3, FlagMore DEF Flags
  <2> HIDE DEF sensible
  <2>5. /\ Flagged(s, checked) /\ sensible.status \subseteq checked.status
        /\ "SECT_WRONG_CYL" \in checked.status => "SECT_WRONG_CYL" \in sensible.status
    BY <1>3, <2>4, FlagMore DEF Flags
  <2> QED BY <2>3, <2>4, <2>5
<1> HIDE DEF d1, checked, h, difference, index, s
<1>6. /\ checked \in SectorRecord /\ checked.cyl = Medium.header /\ checked.head = try.head
      /\ checked.sector = sector /\ checked.ecc = 0 /\ checked.status \subseteq Flags
  BY <1>3, <1>5 DEF Flagged, SectorRecord, Flags
<1>7. Headed(checked)
  <2>1. s.cyl # try.cyl /\ ~dp.ignore_seek_errors => Misplaced(dp, s, try.cyl, try.head)
    BY <1>3 DEF Misplaced
  <2> QED BY <1>1, <1>3, <1>5, <1>6, <2>1 DEF Headed
<1>8. difference \in Int
  BY <1>1, <1>2, <1>3 DEF difference, DecoderType
<1>9. /\ DOMAIN h = DOMAIN d /\ h.state = "MARK_DATA" /\ h.file = d.file /\ h.good = d.good
      /\ h.crc = d.crc /\ h.sector_status = checked /\ h.list = list /\ h.seek_difference = difference
  <2> HIDE DEF list
  <2>1. {"state", "list", "sector_status", "file", "good", "crc", "sector_index", "seek_difference"}
          \subseteq DOMAIN d1
    BY <1>2 DEF DecoderType, Fields
  <2> QED BY <1>2, <1>4, <2>1
<1>10. list = [d.list EXCEPT ![sector] = Awaiting(d.list[sector], checked)]
  <2>1. SectRel0(dp, s) = sector
    BY <1>1, <1>2 DEF s
  <2> QED BY <1>2, <2>1
<1>11. list \in [Sectors -> SectorRecord]
  BY <1>6, <1>10, AwaitingRecord DEF DecoderType
<1> HIDE DEF list
<1>12. DecoderType(h)
  BY <1>6, <1>8, <1>9, <1>11 DEF DecoderType
<1> QED BY <1>6, <1>7, <1>9, <1>10, <1>12 DEF h

----------------------------------------------------------------------------
(* What the file holds                                                     *)

\* The ranks of reads
ReadRanks == Spans \cup {0, Unreadable}

\* What a file has of each sector
HeldIn(f) ==
  [p \in Places |-> IF OffsetOf(p) \notin DOMAIN f THEN Unread
                    ELSE IF f[OffsetOf(p)].place = p THEN f[OffsetOf(p)].rank ELSE Misfiled]

\* What the file of the decoder holds
LEMMA HeldIsHeldIn == Held = HeldIn(r.file)
BY DEF Held, HeldIn, RankAt

\* What is stored at the offset of a sector is seen at that sector alone.
LEMMA StoredHolds ==
  ASSUME JobInv, NEW f, NEW p \in Places, NEW rank
  PROVE  HeldIn(Stored(f, OffsetOf(p), [place |-> p, rank |-> rank]))
           = [HeldIn(f) EXCEPT ![p] = rank]
<1> DEFINE c == [place |-> p, rank |-> rank]
           o == OffsetOf(p)
           g == Stored(f, o, c)
<1>1. /\ DOMAIN g = DOMAIN f \cup {o} /\ g[o] = c
      /\ \A k \in DOMAIN f : k # o => g[k] = f[k]
  BY DEF Stored
<1>2. c.place = p /\ c.rank = rank
  OBVIOUS
<1> HIDE DEF g, c
<1>3. HeldIn(g)[p] = rank
  BY <1>1, <1>2 DEF HeldIn
<1>4. ASSUME NEW q \in Places, q # p
      PROVE  HeldIn(g)[q] = HeldIn(f)[q]
  <2>1. OffsetOf(q) # o
    BY <1>4, OffsetsDiffer
  <2> QED BY <1>1, <2>1 DEF HeldIn
<1>5. HeldIn(g) = [HeldIn(f) EXCEPT ![p] = rank]
  <2>1. HeldIn(g) = [q \in Places |-> HeldIn(g)[q]]
    BY DEF HeldIn
  <2>2. [HeldIn(f) EXCEPT ![p] = rank] = [q \in Places |-> IF q = p THEN rank ELSE HeldIn(f)[q]]
    BY DEF HeldIn
  <2> QED BY <1>3, <1>4, <2>1, <2>2
<1> QED BY <1>5 DEF g, c

\* The status of a sector after its data
LEMMA DataStatusFacts ==
  ASSUME NEW d, DecoderType(d), Headed(d.sector_status), NEW rank \in ReadRanks
  PROVE  LET s == DataStatus(d, rank)
             h == d.sector_status
         IN /\ s \in SectorRecord
            /\ s.cyl = h.cyl /\ s.head = h.head /\ s.sector = h.sector
            /\ s.status = h.status \cup (IF rank = Unreadable THEN {"SECT_BAD_DATA"} ELSE {})
                                   \cup (IF rank \in Spans THEN {"SECT_ECC_RECOVERED"} ELSE {})
            /\ s.ecc = (IF rank = Unreadable THEN 0 ELSE rank)
            /\ BadData(s) <=> rank = Unreadable
            /\ RankOf(s) = rank
            /\ NewGood(s) = IF rank = Unreadable THEN SECTOR_GOOD_BAD ELSE rank
<1> DEFINE h == d.sector_status
           one == MarkIf(rank = Unreadable, h, {"SECT_BAD_DATA"})
           two == MarkIf(rank \in Spans, one, {"SECT_ECC_RECOVERED"})
           s == DataStatus(d, rank)
<1>1. h \in SectorRecord /\ h.status \subseteq Flags /\ h.ecc = 0
  BY DEF DecoderType, Headed
<1> HIDE DEF h
<1>2. Unreadable \notin Spans /\ (rank = Unreadable \/ rank \in Spans \/ rank = 0) /\ 0 # Unreadable
      /\ 0 \notin Spans
  BY SpansAssumption DEF ReadRanks, Unreadable
<1>3. one \in SectorRecord /\ one = [h EXCEPT !.status = one.status]
      /\ one.status = h.status \cup (IF rank = Unreadable THEN {"SECT_BAD_DATA"} ELSE {})
  BY <1>1 DEF MarkIf, Mark, SectorRecord, Statuses
<1> HIDE DEF one
<1>4. two \in SectorRecord /\ two = [h EXCEPT !.status = two.status]
      /\ two.status = one.status \cup (IF rank \in Spans THEN {"SECT_ECC_RECOVERED"} ELSE {})
  BY <1>1, <1>3 DEF MarkIf, Mark, SectorRecord, Statuses
<1>5. s = [two EXCEPT !.ecc = IF rank \in Spans THEN rank ELSE 0]
  BY DEF DataStatus, one, h
<1> HIDE DEF two
<1>6. /\ s \in SectorRecord /\ s.status = two.status
      /\ s.cyl = h.cyl /\ s.head = h.head /\ s.sector = h.sector
      /\ s.ecc = IF rank \in Spans THEN rank ELSE 0
  <2> HIDE DEF s
  <2> QED BY <1>1, <1>4, <1>5 DEF SectorRecord
<1> HIDE DEF s
<1>7. "SECT_BAD_DATA" \in s.status <=> rank = Unreadable
  BY <1>1, <1>3, <1>4, <1>6 DEF Flags
<1>8. s.ecc = IF rank = Unreadable THEN 0 ELSE rank
  BY <1>2, <1>6
<1> QED BY <1>3, <1>4, <1>6, <1>7, <1>8 DEF h, s, BadData, RankOf, NewGood

----------------------------------------------------------------------------
(* The data of a sector                                                    *)

\* Where a record belongs
PlaceOf(s) == <<s.cyl, s.head, s.sector>>

\* What the data of a sector, read so, does to the decoder d: it is not taken ...
NotTaken(d, s, x) ==
  /\ x.file = d.file /\ x.good = d.good
  /\ \/ dp.ignore_seek_errors
     \/ "SECT_BAD_HEADER" \in s.status /\ x.list = d.list
     \/ /\ "SECT_BAD_HEADER" \notin s.status
        /\ ~ Better(dp, d.list[s.sector], s)
        /\ x.list = [d.list EXCEPT ![s.sector] = [d.list[s.sector] EXCEPT !.last_status = s.status]]

\* ... or it is better than the one before.
Taken(d, s, rank, x) ==
  /\ "SECT_BAD_HEADER" \notin s.status
  /\ Better(dp, d.list[s.sector], s)
  /\ dp.ignore_seek_errors => ~(d.good[PlaceOf(s)] < NewGood(s))
  /\ x.file = Stored(d.file, OffsetOf(PlaceOf(s)), [place |-> PlaceOf(s), rank |-> rank])
  /\ x.good = IF dp.ignore_seek_errors THEN [d.good EXCEPT ![PlaceOf(s)] = NewGood(s)] ELSE d.good
  /\ x.list = [d.list EXCEPT ![s.sector] = [s EXCEPT !.last_status = s.status]]

\* The data of a sector is taken or not, and the decoder looks for a mark again.
LEMMA DataRead ==
  ASSUME JobInv, NEW d, DecoderType(d), Headed(d.sector_status), NEW rank \in ReadRanks
  PROVE  LET x == ReadData(d, rank)
             s == DataStatus(d, rank)
         IN /\ DecoderType(x) /\ x.state = "MARK_ID"
            /\ NotTaken(d, s, x) \/ Taken(d, s, rank, x)
<1> DEFINE s == DataStatus(d, rank)
           h == d.sector_status
           q == [d EXCEPT !.sector_status = s, !.state = "MARK_ID"]
           x == ReadData(d, rank)
           p == PlaceOf(s)
           e == d.list[s.sector]
<1>1. /\ s \in SectorRecord
      /\ s.cyl = h.cyl /\ s.head = h.head /\ s.sector = h.sector
      /\ s.status = h.status \cup (IF rank = Unreadable THEN {"SECT_BAD_DATA"} ELSE {})
                             \cup (IF rank \in Spans THEN {"SECT_ECC_RECOVERED"} ELSE {})
      /\ BadData(s) <=> rank = Unreadable
      /\ NewGood(s) = IF rank = Unreadable THEN SECTOR_GOOD_BAD ELSE rank
  BY DataStatusFacts
<1>2. h.sector \in Sectors /\ PlaceOf(h) \in Places /\ h.status \subseteq Flags
  BY DEF Headed, PlaceOf
<1>3. s.sector \in Sectors /\ p \in Places
  BY <1>1, <1>2 DEF PlaceOf
<1>4. /\ DOMAIN q = DOMAIN d /\ q.sector_status = s /\ q.state = "MARK_ID"
      /\ q.list = d.list /\ q.file = d.file /\ q.good = d.good /\ q.crc = d.crc
      /\ q.seek_difference = d.seek_difference
  <2> HIDE DEF s
  <2> QED BY DEF DecoderType, Fields
<1>5. x = IF Writes(s) THEN mfm_write_sector(dp, q, Content(s, rank)) ELSE q
  BY DEF ReadData
<1>6. ~s.ignore /\ ~s.is_lba /\ "SECT_BAD_LBA_NUMBER" \notin s.status
  BY <1>1 DEF SectorRecord, Statuses
<1>7. s.sector \in Int /\ dp.first_sector_number = 0
  BY <1>3, JobFacts DEF Sectors
<1>8. /\ SectRel0(dp, s) = s.sector
      /\ Place(dp, s) = p
      /\ Offset(dp, s) = OffsetOf(p)
      /\ Content(s, rank) = [place |-> p, rank |-> rank]
  <2> HIDE DEF s
  <2>1. SectRel0(dp, s) = s.sector
    BY <1>7 DEF SectRel0
  <2>2. OffsetOf(p) = (s.cyl * dp.num_head + s.head) * dp.num_sectors + s.sector
    <3> DEFINE n == [NoSector EXCEPT !.cyl = p[1], !.head = p[2], !.sector = p[3]]
    <3>1. p[1] = s.cyl /\ p[2] = s.head /\ p[3] = s.sector
      BY DEF PlaceOf
    <3>2. ~n.is_lba /\ n.cyl = s.cyl /\ n.head = s.head /\ n.sector = s.sector
      BY <3>1 DEF NoSector
    <3>3. OffsetOf(p) = Offset(dp, n)
      BY DEF OffsetOf
    <3> HIDE DEF n
    <3>4. SectRel0(dp, n) = s.sector
      BY <1>7, <3>2 DEF SectRel0
    <3> QED BY <3>2, <3>3, <3>4, Zenon DEF Offset
  <2>3. Offset(dp, s) = OffsetOf(p)
    BY <1>6, <2>1, <2>2 DEF Offset
  <2> QED BY <2>1, <2>3 DEF Place, PlaceOf, Content
<1>9. CASE ~Writes(s)
  <2>1. "SECT_BAD_HEADER" \in s.status
    BY <1>6, <1>9 DEF Writes
  <2>2. x = q
    BY <1>5, <1>9
  <2> HIDE DEF s, q, x
  <2>3. DecoderType(x) /\ x.state = "MARK_ID"
    BY <1>1, <1>4, <2>2 DEF DecoderType
  <2>4. NotTaken(d, s, x)
    BY <1>4, <2>1, <2>2 DEF NotTaken
  <2> QED BY <2>3, <2>4 DEF s, x
<1>10. CASE Writes(s)
  <2> DEFINE kept == dp.ignore_seek_errors /\ d.good[p] < NewGood(s)
             better == Better(dp, e, s)
             update == /\ better
                       /\ dp.ignore_seek_errors => ~ kept /\ ~ Conflicts(dp, q, s, Content(s, rank))
             listed == IF update THEN s ELSE [e EXCEPT !.status = @ \ {"SECT_NOT_WRITTEN"}]
             entry == [listed EXCEPT !.last_status = s.status]
             file == IF update THEN Stored(d.file, OffsetOf(p), Content(s, rank)) ELSE d.file
             seen == [q EXCEPT !.list[s.sector] = entry, !.file = file]
             good == IF kept THEN d.good[p] ELSE NewGood(s)
  <2>1. "SECT_BAD_HEADER" \notin s.status
    BY <1>10 DEF Writes
  <2>2. x = mfm_write_sector(dp, q, Content(s, rank))
    BY <1>5, <1>10
  <2> HIDE DEF s, q, x, p, e
  <2>3. /\ DOMAIN x = DOMAIN d /\ x.sector_status = s /\ x.state = "MARK_ID"
        /\ x.seek_difference = d.seek_difference
        /\ x.list = [d.list EXCEPT ![s.sector] = entry]
        /\ x.file = file
        /\ x.good = IF better /\ dp.ignore_seek_errors THEN [d.good EXCEPT ![p] = good] ELSE d.good
    <3> HIDE DEF kept
    <3>1. e = q.list[SectRel0(dp, s)] /\ q.good[Place(dp, s)] = d.good[p]
      BY <1>4, <1>8 DEF e
    <3>2. x = IF better /\ dp.ignore_seek_errors
              THEN [seen EXCEPT !.good[p] = good,
                                !.crc[p] = IF BadData(s) THEN @ ELSE Content(s, rank)]
              ELSE seen
      BY <1>4, <1>6, <1>8, <2>2, <3>1, ZenonT(60) DEF mfm_write_sector, kept
    <3>3. Fields \subseteq DOMAIN q
      BY <1>4 DEF DecoderType
    <3> HIDE DEF entry, file, good, better
    <3>4. /\ DOMAIN seen = DOMAIN d /\ seen.sector_status = s /\ seen.state = "MARK_ID"
          /\ seen.seek_difference = d.seek_difference
          /\ seen.list = [d.list EXCEPT ![s.sector] = entry] /\ seen.file = file
          /\ seen.good = d.good
      BY <1>4, <3>3 DEF Fields
    <3> HIDE DEF seen
    <3>5. Fields \subseteq DOMAIN seen
      BY <3>3, <3>4, <1>4
    <3> QED BY <3>2, <3>4, <3>5 DEF Fields
  <2>4. e \in SectorRecord
    BY <1>3 DEF DecoderType, e
  <2>5. entry \in SectorRecord
    <3>1. e.status \ {"SECT_NOT_WRITTEN"} \in SUBSET Statuses /\ s.status \in SUBSET Statuses
      BY <1>1, <2>4 DEF SectorRecord
    <3>2. listed \in SectorRecord
      <4> HIDE DEF update
      <4> QED BY <1>1, <2>4, <3>1 DEF SectorRecord
    <3> HIDE DEF listed
    <3> QED BY <3>1, <3>2 DEF SectorRecord
  <2>6. good \in Spans \cup {0, SECTOR_GOOD_BAD}
    <3>1. d.good[p] \in Spans \cup {0, SECTOR_GOOD_BAD}
      BY <1>3 DEF DecoderType
    <3> QED BY <1>1, <3>1 DEF ReadRanks
  <2>7. DecoderType(x)
    <3> HIDE DEF entry, file, good, better
    <3> QED BY <1>1, <1>3, <2>3, <2>5, <2>6 DEF DecoderType
  <2>8. CASE update
    <3>1. /\ better /\ entry = [s EXCEPT !.last_status = s.status]
          /\ file = Stored(d.file, OffsetOf(p), [place |-> p, rank |-> rank])
          /\ dp.ignore_seek_errors => ~kept
      BY <1>8, <2>8
    <3>2. x.good = IF dp.ignore_seek_errors THEN [d.good EXCEPT ![p] = NewGood(s)] ELSE d.good
      BY <2>3, <3>1
    <3> HIDE DEF entry, file, update, good
    <3>3. Taken(d, s, rank, x)
      BY <2>1, <2>3, <3>1, <3>2 DEF Taken, p, e
    <3> QED BY <2>3, <2>7, <3>3 DEF x, s
  <2>9. CASE ~update
    <3>1. x.file = d.file
      BY <2>3, <2>9
    <3>2. x.good = d.good
      <4>1. d.good = [d.good EXCEPT ![p] = d.good[p]]
        BY DEF DecoderType
      <4>2. CASE better /\ dp.ignore_seek_errors /\ ~kept
        <5>1. d.good[p] = NewGood(s)
          <6>1. Conflicts(dp, q, s, Content(s, rank))
            BY <2>9, <4>2
          <6>2. s.ecc = 0 /\ ~BadData(s) /\ q.good[Place(dp, s)] = SECTOR_GOOD_GOOD
            BY <6>1 DEF Conflicts
          <6> QED BY <1>4, <1>8, <6>2 DEF NewGood, SECTOR_GOOD_GOOD
        <5> QED BY <2>3, <4>1, <5>1
      <4>3. CASE ~(better /\ dp.ignore_seek_errors /\ ~kept)
        BY <2>3, <4>1, <4>3
      <4> QED BY <4>2, <4>3
    <3>3. \/ dp.ignore_seek_errors
          \/ /\ ~better
             /\ x.list = [d.list EXCEPT ![s.sector] = [e EXCEPT !.last_status = s.status]]
      <4> SUFFICES ASSUME ~dp.ignore_seek_errors
                   PROVE  /\ ~better
                          /\ x.list = [d.list EXCEPT ![s.sector] = [e EXCEPT !.last_status = s.status]]
        OBVIOUS
      <4>1. ~better
        BY <2>9
      <4>2. "SECT_NOT_WRITTEN" \notin e.status
        BY <4>1 DEF Better
      <4>3. [e EXCEPT !.status = @ \ {"SECT_NOT_WRITTEN"}] = e
        <5>1. e.status \ {"SECT_NOT_WRITTEN"} = e.status
          BY <4>2
        <5> QED BY <2>4, <5>1 DEF SectorRecord
      <4>4. entry = [e EXCEPT !.last_status = s.status]
        BY <2>9, <4>3
      <4> QED BY <2>3, <4>1, <4>4
    <3> HIDE DEF entry, file, update, good
    <3>4. NotTaken(d, s, x)
      BY <2>1, <3>1, <3>2, <3>3 DEF NotTaken, e
    <3> QED BY <2>3, <2>7, <3>4 DEF x, s
  <2> QED BY <2>8, <2>9
<1> QED BY <1>9, <1>10

----------------------------------------------------------------------------
(* The invariant                                                           *)

\* No delta is counted that PRU 0 did not capture.
CountsInv ==
  PRU0_WRITE_PTR <= MaxDeltas /\ track_deltas <= MaxDeltas
  /\ num_deltas <= MaxDeltas /\ processed <= MaxDeltas

\* The words of one sector
Slots == [place : Places \cup {NoTrack}, rank : ReadRanks]

\* The retries of a track
TryInv ==
  /\ pc \in {"retry", "back", "go", "read", "decode", "correct", "end", "done"}
  /\ {"cyl", "head", "err_cnt", "no_seek_count", "seek_len", "recovery_active"} \subseteq DOMAIN try
  /\ try.err_cnt \in Nat /\ try.err_cnt <= Retries + 1
  /\ pc \notin {"end", "done"} => try.err_cnt <= Retries
  /\ try.seek_len \in - dp.num_cyl .. dp.num_cyl

\* The heads and the faults so far
DriveInv ==
  /\ drive.arm \in 0 .. LastCyl /\ drive.current_cyl \in Int
  /\ faults \in 0 .. MaxFaults

\* Data is read of a header of this track, one word for each sector so far.
DecoderInv ==
  /\ DecoderType(r)
  /\ main = "decode" /\ r.state = "MARK_DATA" => Headed(r.sector_status)
  /\ "current" \in DOMAIN emu /\ emu.current \in Seq(Slots) /\ Len(emu.current) <= MaxDeltas
  /\ main \in {"idle", "exec"} => emu.current = <<>>
  /\ main = "decode" => Len(emu.current) = processed

\* A sector of the track
PlaceAt(i) == <<try.cyl, try.head, i>>

\* A track not come to yet
Ahead(p) == p[1] > try.cyl \/ (p[1] = try.cyl /\ p[2] > try.head)

\* The list says what the file holds.
ListOf(d) ==
  ~dp.ignore_seek_errors =>
    \A i \in Sectors :
      IF "SECT_NOT_WRITTEN" \in d.list[i].status THEN HeldIn(d.file)[PlaceAt(i)] = Unread
      ELSE /\ "SECT_BAD_HEADER" \notin d.list[i].status
           /\ HeldIn(d.file)[PlaceAt(i)] = RankOf(d.list[i])

\* The tracks ahead are not in the file.
AheadOf(d) ==
  ~dp.ignore_seek_errors => \A p \in Places : Ahead(p) => HeldIn(d.file)[p] = Unread

\* sector_good says what the file holds.
GoodOf(d) ==
  dp.ignore_seek_errors =>
    \A p \in Places :
      IF d.good[p] = SECTOR_GOOD_BAD THEN HeldIn(d.file)[p] \in {Unread, Unreadable}
      ELSE HeldIn(d.file)[p] = d.good[p]

\* The file is in step with what the decoder remembers of it.
HoldOf(d) == ListOf(d) /\ AheadOf(d) /\ GoodOf(d)

\* It always is.
HoldInv == HoldOf(r)

----------------------------------------------------------------------------
(* The rules of the list and those of sector_good let in better reads only *)

\* At most one sector has got a better read.
Improved(f, g) ==
  \/ HeldIn(g) = HeldIn(f)
  \/ \E p \in Places : /\ HeldIn(g)[p] \in ReadRanks
                       /\ HeldIn(g)[p] < HeldIn(f)[p]
                       /\ HeldIn(g) = [HeldIn(f) EXCEPT ![p] = HeldIn(g)[p]]

\* The sectors of the track
LEMMA TrackPlaces ==
  ASSUME JobInv, TrackInv, NEW i \in Sectors
  PROVE  PlaceAt(i) \in Places /\ ~Ahead(PlaceAt(i))
<1>1. try.cyl \in 0 .. dp.num_cyl - 1 /\ try.head \in 0 .. dp.num_head - 1
  BY DEF TrackInv
<1>2. PlaceAt(i) \in Places
  BY <1>1, PlaceFacts DEF PlaceAt
<1>3. PlaceAt(i)[1] = try.cyl /\ PlaceAt(i)[2] = try.head
  BY DEF PlaceAt
<1>4. dp.num_cyl \in Nat /\ dp.num_head \in Nat
  BY JobFacts
<1> QED BY <1>1, <1>2, <1>3, <1>4 DEF Ahead

\* A header changes the status only of a sector that is not in the file.
LEMMA HeaderHeld ==
  ASSUME JobInv, TrackInv, drive.arm \in DOMAIN disk, NEW d, DecoderType(d), NEW sector \in Sectors,
         HoldOf(d)
  PROVE  HoldOf(ReadHeader(d, sector))
<1> DEFINE h == ReadHeader(d, sector)
           e == d.list[sector]
           a == Awaiting(e, h.sector_status)
<1>1. /\ DecoderType(h) /\ h.file = d.file /\ h.good = d.good
      /\ h.list = [d.list EXCEPT ![sector] = Awaiting(d.list[sector], h.sector_status)]
  BY HeaderRead
<1>2. e \in SectorRecord /\ h.sector_status \in SectorRecord
  BY <1>1 DEF DecoderType
<1> HIDE DEF h
<1>3. /\ "SECT_NOT_WRITTEN" \notin e.status => a = e
      /\ "SECT_NOT_WRITTEN" \in e.status => "SECT_NOT_WRITTEN" \in a.status
  BY <1>2, AwaitingRecord
<1>4. h.list = [d.list EXCEPT ![sector] = a]
  BY <1>1
<1> HIDE DEF a
<1>5. ListOf(h)
  <2> SUFFICES ASSUME ~dp.ignore_seek_errors, NEW i \in Sectors
               PROVE  IF "SECT_NOT_WRITTEN" \in h.list[i].status
                      THEN HeldIn(h.file)[PlaceAt(i)] = Unread
                      ELSE /\ "SECT_BAD_HEADER" \notin h.list[i].status
                           /\ HeldIn(h.file)[PlaceAt(i)] = RankOf(h.list[i])
    BY DEF ListOf
  <2>1. IF "SECT_NOT_WRITTEN" \in d.list[i].status THEN HeldIn(d.file)[PlaceAt(i)] = Unread
        ELSE /\ "SECT_BAD_HEADER" \notin d.list[i].status
             /\ HeldIn(d.file)[PlaceAt(i)] = RankOf(d.list[i])
    BY DEF HoldOf, ListOf
  <2>2. CASE i # sector
    <3>1. h.list[i] = d.list[i]
      BY <1>4, <2>2 DEF DecoderType
    <3> QED BY <1>1, <2>1, <3>1
  <2>3. CASE i = sector
    <3>1. h.list[i] = a /\ d.list[i] = e
      BY <1>4, <2>3 DEF DecoderType
    <3> QED BY <1>1, <1>3, <2>1, <3>1
  <2> QED BY <2>2, <2>3
<1>6. AheadOf(h) /\ GoodOf(h)
  BY <1>1 DEF HoldOf, AheadOf, GoodOf
<1> QED BY <1>5, <1>6 DEF HoldOf, h

\* A sector that the rules of the list say is better is better than the one of the file.
LEMMA BetterRead ==
  ASSUME JobInv, TrackInv, NEW d, DecoderType(d), Headed(d.sector_status), NEW rank \in ReadRanks,
         ~dp.ignore_seek_errors, ListOf(d), "SECT_BAD_HEADER" \notin DataStatus(d, rank).status,
         Better(dp, d.list[DataStatus(d, rank).sector], DataStatus(d, rank))
  PROVE  /\ PlaceOf(DataStatus(d, rank)) = PlaceAt(DataStatus(d, rank).sector)
         /\ rank < HeldIn(d.file)[PlaceOf(DataStatus(d, rank))]
<1> DEFINE s == DataStatus(d, rank)
           h == d.sector_status
           e == d.list[s.sector]
           held == HeldIn(d.file)[PlaceOf(s)]
<1>1. /\ s.cyl = h.cyl /\ s.head = h.head /\ s.sector = h.sector /\ h.status \subseteq s.status
      /\ s.ecc = (IF rank = Unreadable THEN 0 ELSE rank)
      /\ BadData(s) <=> rank = Unreadable
  BY DataStatusFacts
<1>2. s.sector \in Sectors /\ s.head = try.head /\ s.cyl = try.cyl
  BY <1>1 DEF Headed
<1>3. PlaceOf(s) = PlaceAt(s.sector)
  BY <1>2 DEF PlaceOf, PlaceAt
<1>4. rank \in Nat /\ rank <= Unreadable /\ Unreadable = 100 /\ Unread = 101
  BY SpansAssumption DEF ReadRanks, Unreadable, Unread
<1>5. IF "SECT_NOT_WRITTEN" \in e.status THEN held = Unread
      ELSE "SECT_BAD_HEADER" \notin e.status /\ held = RankOf(e)
  BY <1>2, <1>3 DEF ListOf
<1>6. Better(dp, e, s)
  OBVIOUS
<1> HIDE DEF s, e, held
<1>7. rank < held
  <2>1. CASE "SECT_NOT_WRITTEN" \in e.status
    BY <1>4, <1>5, <2>1
  <2>2. CASE "SECT_NOT_WRITTEN" \notin e.status
    <3>1. /\ ~BadData(s)
          /\ BadData(e) \/ (e.ecc > 0 /\ (s.ecc = 0 \/ s.ecc < e.ecc))
      BY <1>5, <1>6, <2>2 DEF Better
    <3>2. rank < Unreadable /\ s.ecc = rank
      BY <1>1, <1>4, <3>1
    <3>3. CASE BadData(e)
      <4>1. held = Unreadable
        BY <1>5, <2>2, <3>3 DEF RankOf, BadData
      <4> QED BY <3>2, <4>1
    <3>4. CASE ~BadData(e)
      <4>1. held = e.ecc
        BY <1>5, <2>2, <3>4 DEF RankOf, BadData
      <4>2. e.ecc \in Nat
        <5>1. e \in SectorRecord
          BY <1>2 DEF DecoderType, e
        <5>2. e.ecc \in Spans \cup {0}
          BY <5>1 DEF SectorRecord
        <5>3. Spans \cup {0} \subseteq Nat
          BY SpansAssumption DEF Unreadable
        <5> QED BY <5>2, <5>3
      <4>3. rank < e.ecc
        BY <1>4, <3>1, <3>2, <3>4, <4>2
      <4> QED BY <4>1, <4>3
    <3> QED BY <3>3, <3>4
  <2> QED BY <2>1, <2>2
<1>8. rank < HeldIn(d.file)[PlaceOf(s)]
  BY <1>7 DEF held
<1> QED BY <1>3, <1>8, Zenon DEF s

\* Reading the data of a sector keeps the file in step with the list, or with
\* sector_good, and puts in at most a better read of one sector.
LEMMA DataHeld ==
  ASSUME JobInv, TrackInv, NEW d, DecoderType(d), Headed(d.sector_status), NEW rank \in ReadRanks,
         HoldOf(d)
  PROVE  /\ HoldOf(ReadData(d, rank))
         /\ Improved(d.file, ReadData(d, rank).file)
<1> DEFINE x == ReadData(d, rank)
           s == DataStatus(d, rank)
           p == PlaceOf(s)
           held == HeldIn(d.file)
<1>1. /\ s \in SectorRecord
      /\ s.sector = d.sector_status.sector /\ s.head = d.sector_status.head
      /\ s.cyl = d.sector_status.cyl
      /\ s.status = d.sector_status.status \cup (IF rank = Unreadable THEN {"SECT_BAD_DATA"} ELSE {})
                     \cup (IF rank \in Spans THEN {"SECT_ECC_RECOVERED"} ELSE {})
      /\ RankOf(s) = rank
      /\ NewGood(s) = IF rank = Unreadable THEN SECTOR_GOOD_BAD ELSE rank
  BY DataStatusFacts
<1>2. s.sector \in Sectors /\ p \in Places /\ s.head = try.head
  BY <1>1 DEF Headed, PlaceOf
<1>3. DecoderType(x) /\ (NotTaken(d, s, x) \/ Taken(d, s, rank, x))
  BY DataRead
<1>4. rank \in Nat /\ rank <= Unreadable /\ Unreadable = 100 /\ Unread = 101 /\ SECTOR_GOOD_BAD = 128
  BY SpansAssumption DEF ReadRanks, Unreadable, Unread, SECTOR_GOOD_BAD
<1>w. "SECT_NOT_WRITTEN" \notin s.status
  <2>1. d.sector_status.status \subseteq Flags
    BY DEF Headed
  <2> HIDE DEF s
  <2> QED BY <1>1, <2>1 DEF Flags
<1>5. CASE NotTaken(d, s, x)
  <2> HIDE DEF s, x
  <2>1. x.file = d.file /\ x.good = d.good
    BY <1>5 DEF NotTaken
  <2>2. ASSUME ~dp.ignore_seek_errors, NEW i \in Sectors
        PROVE  x.list[i].status = d.list[i].status /\ RankOf(x.list[i]) = RankOf(d.list[i])
    <3>1. CASE x.list = d.list
      BY <3>1
    <3>2. CASE x.list = [d.list EXCEPT ![s.sector] = [d.list[s.sector] EXCEPT !.last_status = s.status]]
      <4> DEFINE e == d.list[s.sector]
                 l == [e EXCEPT !.last_status = s.status]
      <4>1. e \in SectorRecord
        BY <1>2 DEF DecoderType
      <4> HIDE DEF e
      <4>2. l.status = e.status /\ l.ecc = e.ecc
        BY <4>1 DEF SectorRecord
      <4>3. x.list[i] = IF i = s.sector THEN l ELSE d.list[i]
        BY <3>2 DEF DecoderType, e
      <4> HIDE DEF l
      <4> QED BY <4>2, <4>3 DEF RankOf, e
    <3> QED BY <1>5, <2>2, <3>1, <3>2 DEF NotTaken
  <2>3. HoldOf(x)
    BY <2>1, <2>2 DEF HoldOf, ListOf, AheadOf, GoodOf
  <2>4. Improved(d.file, x.file)
    BY <2>1 DEF Improved
  <2> QED BY <2>3, <2>4 DEF x
<1>6. CASE Taken(d, s, rank, x)
  <2>1. HeldIn(x.file) = [held EXCEPT ![p] = rank]
    <3>1. x.file = Stored(d.file, OffsetOf(p), [place |-> p, rank |-> rank])
      BY <1>6 DEF Taken
    <3> HIDE DEF x, p
    <3> QED BY <1>2, <3>1, StoredHolds
  <2>2. /\ "SECT_BAD_HEADER" \notin s.status
        /\ Better(dp, d.list[s.sector], s)
        /\ dp.ignore_seek_errors => ~(d.good[p] < NewGood(s))
        /\ x.good = IF dp.ignore_seek_errors THEN [d.good EXCEPT ![p] = NewGood(s)] ELSE d.good
        /\ x.list = [d.list EXCEPT ![s.sector] = [s EXCEPT !.last_status = s.status]]
    BY <1>6 DEF Taken
  <2>3. ListOf(d) /\ AheadOf(d) /\ GoodOf(d)
    BY DEF HoldOf
  <2>4. DOMAIN held = Places
    BY DEF HeldIn
  <2>5. ~dp.ignore_seek_errors => p = PlaceAt(s.sector) /\ rank < held[p]
    BY <2>2, <2>3, BetterRead
  <2>6. ~dp.ignore_seek_errors => s.cyl = try.cyl
    BY <1>1, <2>2, <2>5 DEF PlaceOf, PlaceAt
  <2>7. d.good \in [Places -> Spans \cup {0, SECTOR_GOOD_BAD}]
    BY DEF DecoderType
  <2>8. d.list \in [Sectors -> SectorRecord]
    BY DEF DecoderType
  <2> HIDE DEF s, x, held
  <2>9. ListOf(x)
    <3> SUFFICES ASSUME ~dp.ignore_seek_errors, NEW i \in Sectors
                 PROVE  IF "SECT_NOT_WRITTEN" \in x.list[i].status
                        THEN HeldIn(x.file)[PlaceAt(i)] = Unread
                        ELSE /\ "SECT_BAD_HEADER" \notin x.list[i].status
                             /\ HeldIn(x.file)[PlaceAt(i)] = RankOf(x.list[i])
      BY DEF ListOf
    <3>1. PlaceAt(i) \in Places
      BY TrackPlaces
    <3>2. CASE i = s.sector
      <4> DEFINE l == [s EXCEPT !.last_status = s.status]
      <4>1. l.status = s.status /\ l.ecc = s.ecc
        BY <1>1 DEF SectorRecord
      <4>2. x.list[i] = l
        BY <1>2, <2>2, <2>8, <3>2
      <4> HIDE DEF l
      <4>3. RankOf(x.list[i]) = rank /\ x.list[i].status = s.status
        BY <1>1, <4>1, <4>2 DEF RankOf
      <4>4. HeldIn(x.file)[PlaceAt(i)] = rank
        BY <2>1, <2>4, <2>5, <3>1, <3>2
      <4> QED BY <1>w, <2>2, <4>3, <4>4
    <3>3. CASE i # s.sector
      <4>1. x.list[i] = d.list[i]
        BY <1>2, <2>2, <2>8, <3>3
      <4>2. PlaceAt(i) # p
        BY <2>5, <3>3 DEF PlaceAt
      <4>3. HeldIn(x.file)[PlaceAt(i)] = HeldIn(d.file)[PlaceAt(i)]
        BY <2>1, <2>4, <3>1, <4>2 DEF held
      <4> QED BY <2>3, <4>1, <4>3 DEF ListOf
    <3> QED BY <3>2, <3>3
  <2>10. AheadOf(x)
    <3> SUFFICES ASSUME ~dp.ignore_seek_errors, NEW q \in Places, Ahead(q)
                 PROVE  HeldIn(x.file)[q] = Unread
      BY DEF AheadOf
    <3>1. q # p
      BY <1>2, <2>5, TrackPlaces
    <3>2. HeldIn(d.file)[q] = Unread
      BY <2>3 DEF AheadOf
    <3> QED BY <2>1, <2>4, <3>1, <3>2 DEF held
  <2>11. GoodOf(x)
    <3> SUFFICES ASSUME dp.ignore_seek_errors, NEW q \in Places
                 PROVE  IF x.good[q] = SECTOR_GOOD_BAD THEN HeldIn(x.file)[q] \in {Unread, Unreadable}
                        ELSE HeldIn(x.file)[q] = x.good[q]
      BY DEF GoodOf
    <3>1. CASE q = p
      <4>1. x.good[q] = NewGood(s) /\ HeldIn(x.file)[q] = rank
        BY <1>2, <2>1, <2>2, <2>4, <2>7, <3>1
      <4> QED BY <1>1, <1>4, <4>1
    <3>2. CASE q # p
      <4>1. x.good[q] = d.good[q] /\ HeldIn(x.file)[q] = HeldIn(d.file)[q]
        BY <1>2, <2>1, <2>2, <2>4, <2>7, <3>2 DEF held
      <4> QED BY <2>3, <4>1 DEF GoodOf
    <3> QED BY <3>1, <3>2
  <2>12. rank < held[p] \/ rank = held[p]
    <3>1. CASE ~dp.ignore_seek_errors
      BY <2>5, <3>1
    <3>2. CASE dp.ignore_seek_errors
      <4>1. /\ ~(d.good[p] < NewGood(s))
            /\ IF d.good[p] = SECTOR_GOOD_BAD THEN held[p] \in {Unread, Unreadable}
               ELSE held[p] = d.good[p]
        BY <1>2, <2>2, <2>3, <3>2 DEF GoodOf, held
      <4>2. d.good[p] \in Spans \cup {0, SECTOR_GOOD_BAD}
        BY <1>2, <2>7
      <4>3. d.good[p] \in Nat /\ (d.good[p] = 128 \/ d.good[p] < 100)
        <5>1. \A n \in Spans \cup {0, SECTOR_GOOD_BAD} : n \in Nat /\ (n = 128 \/ n < 100)
          BY <1>4, SpansAssumption
        <5> QED BY <4>2, <5>1
      <4> QED BY <1>1, <1>4, <4>1, <4>3
    <3> QED BY <3>1, <3>2
  <2>13. Improved(d.file, x.file)
    <3>1. CASE rank < held[p]
      <4>1. HeldIn(x.file)[p] = rank
        BY <1>2, <2>1, <2>4
      <4> QED BY <1>2, <2>1, <3>1, <4>1 DEF Improved, held
    <3>2. CASE rank = held[p]
      <4>1. HeldIn(x.file) = held
        BY <2>1, <3>2 DEF held, HeldIn
      <4> QED BY <4>1 DEF Improved, held
    <3> QED BY <2>12, <3>1, <3>2
  <2> QED BY <2>9, <2>10, <2>11, <2>13 DEF HoldOf, x
<1> QED BY <1>3, <1>5, <1>6

----------------------------------------------------------------------------
(* A sector of the track                                                   *)

\* Nothing has been counted at first.
LEMMA InitCounts == DeltaInit => CountsInv
BY DeltasAssumption DEF DeltaInit, CountsInv

\* A count is only ever copied from another.
LEMMA CountsStep == IInv /\ CountsInv /\ [DeltaNext]_deltaVars => CountsInv'
<1> SUFFICES ASSUME IInv, CountsInv, [DeltaNext]_deltaVars PROVE CountsInv'
  OBVIOUS
<1> USE DEF CountsInv, pruVars, localVars, countVars
<1>1. /\ MaxDeltas \in Nat /\ PRU0_WRITE_PTR \in Nat /\ track_deltas \in Nat
      /\ num_deltas \in Nat /\ processed \in Nat
  BY DeltasAssumption DEF IInv, DeltaTypeOK
<1>2. CASE ExecRead \/ ReadFailed \/ Decoded \/ Joined
  BY <1>2 DEF ExecRead, ReadFailed, Decoded, Joined
<1>3. CASE \E track \in Tracks : deltas_start_read(track)
  BY <1>1, <1>3 DEF deltas_start_read, deltas_update_count
<1>4. CASE Process
  BY <1>1, <1>4 DEF Process
<1>5. CASE Stop \/ Interrupt
  BY <1>5 DEF Stop, Interrupt, deltas_stop_thread
<1>6. CASE WaitRead \/ CheckStatus \/ WriteDeltas
  BY <1>1, <1>6 DEF WaitRead, CheckStatus, WriteDeltas
<1>7. CASE CopyDeltas \/ Complete
  BY <1>7 DEF CopyDeltas, Complete, deltas_update_count
<1>8. CASE Pru0
  BY <1>1, <1>8 DEF Pru0, PruStart, PruCapture, PruFinish
<1>9. CASE UNCHANGED deltaVars
  BY <1>9 DEF deltaVars
<1> QED
  BY <1>2, <1>3, <1>4, <1>5, <1>6, <1>7, <1>8, <1>9 DEF DeltaNext, MainThread, delta_proc

\* Nothing but the start of a read, a sector and a new track changes the decoder's state.
Others ==
  \/ NoSeek \/ EnableRecovery \/ MicroStep \/ SeekAway \/ SeekBack \/ NowhereToSeek \/ GoToTrack
  \/ ReadTrack \/ Failed \/ EndDecode \/ CorrectSeek \/ mfm_decode_done \/ StopThread \/ Join
  \/ SigInt \/ DeltaThread \/ PruRead \/ NoIndex \/ UNCHANGED vars

\* The other steps leave the decoder and the track alone.
LEMMA OthersStep ==
  ASSUME TrackInv, Others
  PROVE  /\ dp' = dp /\ disk' = disk /\ r' = r
         /\ try'.cyl = try.cyl /\ try'.head = try.head
<1>1. CASE NoSeek \/ EnableRecovery \/ MicroStep \/ SeekBack \/ NowhereToSeek \/ CorrectSeek
  BY <1>1 DEF NoSeek, EnableRecovery, MicroStep, SeekBack, NowhereToSeek, CorrectSeek, Counting,
              Rested, TrackInv
<1>2. CASE SeekAway \/ GoToTrack \/ ReadTrack \/ mfm_decode_done \/ NoIndex
  BY <1>2 DEF SeekAway, GoToTrack, ReadTrack, mfm_decode_done, NoIndex
<1>3. CASE EndDecode
  BY <1>3 DEF EndDecode, Counting, TrackInv
<1>4. CASE Failed \/ StopThread \/ Join \/ SigInt \/ DeltaThread \/ PruRead
  BY <1>4 DEF Failed, StopThread, Join, SigInt, DeltaThread, PruRead, driveVars
<1>5. CASE UNCHANGED vars
  BY <1>5 DEF vars, driveVars
<1> QED BY <1>1, <1>2, <1>3, <1>4, <1>5 DEF Others

\* Every step is one of the three or another.
LEMMA OneOf ==
  ASSUME [Next]_vars
  PROVE  Others \/ StartDecode \/ NextTrack \/ DecodeSector
BY DEF Next, Reader, Others

\* What is asked for and the disk stay as they are.
LEMMA JobStays ==
  ASSUME TrackInv, [Next]_vars
  PROVE  dp' = dp /\ disk' = disk
<1>1. CASE Others
  BY <1>1, OthersStep
<1>2. CASE StartDecode \/ NextTrack \/ DecodeSector
  BY <1>2 DEF StartDecode, NextTrack, DecodeSector
<1> QED BY <1>1, <1>2, OneOf

\* What is read of a sector is well or badly read.
LEMMA SeenFacts ==
  ASSUME JobInv, drive.arm \in DOMAIN disk, NEW sector, NEW seen \in MayRead(sector)
  PROVE  seen.header \in BOOLEAN /\ seen.mark \in BOOLEAN /\ seen.rank \in ReadRanks
<1>1. ASSUME NEW f \in Faulty \cup {Fine}
      PROVE  f.header \in BOOLEAN /\ f.mark \in BOOLEAN /\ f.rank \in ReadRanks
  <2>1. CASE f = Fine
    BY <2>1 DEF Fine, ReadRanks
  <2>2. CASE f = [Fine EXCEPT !.header = FALSE]
    <3>1. f = [header |-> FALSE, mark |-> TRUE, rank |-> 0]
      BY <2>2 DEF Fine
    <3> QED BY <3>1 DEF ReadRanks
  <2>3. CASE f = [Fine EXCEPT !.mark = FALSE]
    <3>1. f = [header |-> TRUE, mark |-> FALSE, rank |-> 0]
      BY <2>3 DEF Fine
    <3> QED BY <3>1 DEF ReadRanks
  <2>4. ASSUME NEW n \in Spans \cup {Unreadable}, f = [Fine EXCEPT !.rank = n]
        PROVE  f.header \in BOOLEAN /\ f.mark \in BOOLEAN /\ f.rank \in ReadRanks
    <3>1. f = [header |-> TRUE, mark |-> TRUE, rank |-> n]
      BY <2>4 DEF Fine
    <3> QED BY <3>1 DEF ReadRanks
  <2>5. \/ f = Fine \/ f = [Fine EXCEPT !.header = FALSE] \/ f = [Fine EXCEPT !.mark = FALSE]
        \/ \E n \in Spans \cup {Unreadable} : f = [Fine EXCEPT !.rank = n]
    BY Zenon DEF Faulty
  <2> QED BY <2>1, <2>2, <2>3, <2>4, <2>5
<1>2. PICK job \in Jobs : dp = job[1] /\ disk = job[2]
  BY DEF JobInv
<1>3. \A n \in DOMAIN Medium.bad : Medium.bad[n] \in Faulty
  BY <1>2, DisksAssumption DEF Medium
<1>4. seen \in Faulty \cup {Fine}
  BY <1>3 DEF MayRead, Natural
<1> QED BY <1>1, <1>4

\* A sector: the next one of the track, read in one of the ways it may be.
LEMMA SectorDecoded ==
  ASSUME JobInv, TrackInv, DriveInv, DecoderInv, HoldInv, IInv, CountsInv, DecodeSector
  PROVE  /\ DecoderType(r')
         /\ r'.state = "MARK_DATA" => Headed(r'.sector_status)
         /\ HoldOf(r') /\ Improved(r.file, r'.file)
         /\ \E slot \in Slots : emu'.current = Append(emu.current, slot)
         /\ DOMAIN emu' = DOMAIN emu
<1>1. PICK seen \in MayRead(processed) : ReadSector(processed, seen) \/ MissHeader(seen)
  BY DEF DecodeSector
<1>2. processed \in Sectors
  <2>1. processed \in Nat /\ processed < num_deltas /\ num_deltas \in Nat /\ num_deltas <= MaxDeltas
    BY DEF DecodeSector, Process, CountsInv, IInv, DeltaTypeOK
  <2> QED BY <2>1, JobFacts DEF Sectors
<1>3. drive.arm \in DOMAIN disk
  BY JobFacts DEF DriveInv
<1>4. seen.header \in BOOLEAN /\ seen.mark \in BOOLEAN /\ seen.rank \in ReadRanks
  BY <1>1, <1>3, SeenFacts
<1>5. DecoderType(r) /\ HoldOf(r) /\ (r.state = "MARK_DATA" => Headed(r.sector_status))
      /\ "current" \in DOMAIN emu
  BY DEF DecoderInv, HoldInv, DecodeSector
<1>6. Unreadable \in ReadRanks
  BY DEF ReadRanks
<1>7. ASSUME NEW slot, NEW d, NEW rank
      PROVE  /\ update_emu_track_sector(Gathered(emu, slot), d, rank).current = Append(emu.current, slot)
             /\ DOMAIN update_emu_track_sector(Gathered(emu, slot), d, rank) = DOMAIN emu
             /\ Gathered(emu, slot).current = Append(emu.current, slot)
             /\ DOMAIN Gathered(emu, slot) = DOMAIN emu
  <2> DEFINE e == Gathered(emu, slot)
  <2>1. e.current = Append(emu.current, slot) /\ DOMAIN e = DOMAIN emu
    BY <1>5 DEF Gathered
  <2> HIDE DEF e
  <2>2. /\ update_emu_track_sector(e, d, rank).current = e.current
        /\ DOMAIN update_emu_track_sector(e, d, rank) = DOMAIN e
    BY DEF update_emu_track_sector
  <2> QED BY <2>1, <2>2 DEF e
<1>8. CASE ReadSector(processed, seen)
  <2> DEFINE h == ReadHeader(r, processed)
             slot == IF seen.mark THEN Content(h.sector_status, seen.rank) ELSE Unseen
  <2>1. /\ DecoderType(h) /\ Headed(h.sector_status) /\ h.file = r.file
    BY <1>2, <1>3, <1>5, HeaderRead
  <2>2. HoldOf(h)
    BY <1>2, <1>3, <1>5, HeaderHeld
  <2>3. /\ r' = IF seen.mark THEN ReadData(h, seen.rank) ELSE h
        /\ emu' = IF seen.mark THEN update_emu_track_sector(Gathered(emu, slot), h, seen.rank)
                  ELSE Gathered(emu, slot)
    BY <1>8 DEF ReadSector
  <2> HIDE DEF h
  <2>4. slot \in Slots
    <3>1. Unseen \in Slots
      BY <1>6 DEF Unseen, Slots
    <3>2. Content(h.sector_status, seen.rank) \in Slots
      BY <1>4, <2>1 DEF Content, Slots, Headed
    <3> QED BY <3>1, <3>2
  <2> HIDE DEF slot
  <2>5. emu'.current = Append(emu.current, slot) /\ DOMAIN emu' = DOMAIN emu
    BY <1>7, <2>3
  <2>6. CASE seen.mark
    <3>1. r' = ReadData(h, seen.rank)
      BY <2>3, <2>6
    <3>2. DecoderType(r') /\ r'.state = "MARK_ID"
      BY <1>4, <2>1, <3>1, DataRead
    <3>3. HoldOf(r') /\ Improved(h.file, r'.file)
      BY <1>4, <2>1, <2>2, <3>1, DataHeld
    <3> QED BY <2>1, <2>4, <2>5, <3>2, <3>3
  <2>7. CASE ~seen.mark
    <3>1. r' = h
      BY <2>3, <2>7
    <3>2. Improved(r.file, r'.file)
      BY <2>1, <3>1 DEF Improved
    <3> QED BY <2>1, <2>2, <2>4, <2>5, <3>1, <3>2
  <2> QED BY <2>6, <2>7
<1>9. CASE MissHeader(seen)
  <2>1. Unseen \in Slots
    BY <1>6 DEF Unseen, Slots
  <2>2. /\ r' = IF r.state = "MARK_DATA" THEN ReadData(r, Unreadable) ELSE r
        /\ emu' = IF r.state = "MARK_DATA"
                  THEN update_emu_track_sector(Gathered(emu, Unseen), r, Unreadable)
                  ELSE Gathered(emu, Unseen)
    BY <1>9 DEF MissHeader
  <2>3. emu'.current = Append(emu.current, Unseen) /\ DOMAIN emu' = DOMAIN emu
    BY <1>7, <2>2
  <2>4. CASE r.state = "MARK_DATA"
    <3>1. r' = ReadData(r, Unreadable)
      BY <2>2, <2>4
    <3>2. DecoderType(r') /\ r'.state = "MARK_ID"
      BY <1>5, <1>6, <2>4, <3>1, DataRead
    <3>3. HoldOf(r') /\ Improved(r.file, r'.file)
      BY <1>5, <1>6, <2>4, <3>1, DataHeld
    <3> QED BY <2>1, <2>3, <3>2, <3>3
  <2>5. CASE r.state # "MARK_DATA"
    <3>1. r' = r
      BY <2>2, <2>5
    <3> QED BY <1>5, <2>1, <2>3, <2>5, <3>1 DEF Improved
  <2> QED BY <2>4, <2>5
<1> QED BY <1>1, <1>8, <1>9

----------------------------------------------------------------------------
(* The file agrees with the list at every step                             *)

\* The file that a step leaves, at the same track
LEMMA HoldStays ==
  ASSUME dp' = dp, try'.cyl = try.cyl, try'.head = try.head, HoldOf(r')
  PROVE  HoldInv'
<1>1. HeldIn(r.file)' = HeldIn(r'.file)
  BY DEF HeldIn, OffsetOf, Offset, SectRel0
<1>2. ListOf(r)' <=> ListOf(r')
  BY <1>1 DEF ListOf, PlaceAt, Sectors, RankOf
<1>3. AheadOf(r)' <=> AheadOf(r')
  BY <1>1 DEF AheadOf, Ahead
<1>4. GoodOf(r)' <=> GoodOf(r')
  BY <1>1 DEF GoodOf
<1> QED BY <1>2, <1>3, <1>4 DEF HoldInv, HoldOf

\* The type of what a step leaves of the decoder
LEMMA TypeStays ==
  ASSUME dp' = dp, DecoderType(r')
  PROVE  DecoderType(r)'
BY DEF DecoderType, Sectors

\* The header that a step leaves, at the same track
LEMMA HeadedStays ==
  ASSUME dp' = dp, try'.cyl = try.cyl, try'.head = try.head, Headed(r'.sector_status)
  PROVE  Headed(r.sector_status)'
BY DEF Headed, Sectors

\* The list of a new track: no sector has been seen or written.
LEMMA NewList ==
  ASSUME JobInv
  PROVE  /\ mfm_init_sector_status_list(dp.num_sectors) \in [Sectors -> SectorRecord]
         /\ \A i \in Sectors : "SECT_NOT_WRITTEN" \in mfm_init_sector_status_list(dp.num_sectors)[i].status
<1> DEFINE new == Mark(NoSector, {"SECT_BAD_HEADER", "SECT_NOT_WRITTEN"})
<1>1. new \in SectorRecord /\ "SECT_NOT_WRITTEN" \in new.status
  BY DEF Mark, NoSector, SectorRecord, Statuses
<1>2. mfm_init_sector_status_list(dp.num_sectors) = [i \in Sectors |-> new]
  BY DEF mfm_init_sector_status_list, Sectors
<1> HIDE DEF new
<1> QED BY <1>1, <1>2

\* A read starts with the list of the last one.
LEMMA ListStarted ==
  ASSUME JobInv, DecoderInv, StartDecode
  PROVE  /\ DecoderType(r') /\ r'.state = "MARK_ID"
         /\ r'.file = r.file /\ r'.good = r.good
         /\ \A i \in Sectors : /\ r'.list[i].status = r.list[i].status
                               /\ RankOf(r'.list[i]) = RankOf(r.list[i])
<1>1. DecoderType(r)
  BY DEF DecoderInv
<1>2. r' = [r EXCEPT !.list = StartRead(r.list), !.state = "MARK_ID", !.sector_index = 0]
  BY DEF StartDecode
<1>3. DOMAIN r.list = Sectors
  BY <1>1 DEF DecoderType
<1>4. ASSUME NEW i \in Sectors
      PROVE  /\ StartRead(r.list)[i] \in SectorRecord
             /\ StartRead(r.list)[i].status = r.list[i].status
             /\ StartRead(r.list)[i].ecc = r.list[i].ecc
  <2> DEFINE e == r.list[i]
             l == [e EXCEPT !.last_status = {"SECT_BAD_HEADER"}]
  <2>1. StartRead(r.list)[i] = l
    BY <1>3 DEF StartRead
  <2>2. e \in SectorRecord
    BY <1>1 DEF DecoderType
  <2> HIDE DEF e
  <2>3. l \in SectorRecord /\ l.status = e.status /\ l.ecc = e.ecc
    BY <2>2 DEF SectorRecord, Statuses
  <2> QED BY <2>1, <2>3 DEF e
<1>5. StartRead(r.list) \in [Sectors -> SectorRecord]
  <2>1. StartRead(r.list) = [i \in Sectors |-> StartRead(r.list)[i]]
    BY <1>3 DEF StartRead
  <2> QED BY <1>4, <2>1
<1> DEFINE list == StartRead(r.list)
<1> HIDE DEF list
<1>6. /\ Fields \subseteq DOMAIN r' /\ r'.list = list /\ r'.state = "MARK_ID"
      /\ r'.sector_status = r.sector_status /\ r'.file = r.file /\ r'.good = r.good
      /\ r'.seek_difference = r.seek_difference
  BY <1>1, <1>2 DEF DecoderType, Fields, list
<1>7. DecoderType(r')
  BY <1>1, <1>5, <1>6 DEF DecoderType, list
<1> QED BY <1>4, <1>6, <1>7 DEF RankOf, list

\* A new track starts with a new list.
LEMMA TrackStarted ==
  ASSUME JobInv, TrackInv, DecoderInv, NextTrack
  PROVE  /\ DecoderType(r') /\ r'.file = r.file /\ r'.good = r.good
         /\ \A i \in Sectors : "SECT_NOT_WRITTEN" \in r'.list[i].status
         /\ \/ try'.cyl = try.cyl /\ try'.head = try.head + 1 /\ try'.head < dp.num_head
            \/ try'.cyl = try.cyl + 1 /\ try'.head = 0 /\ try'.cyl < dp.num_cyl
         /\ DOMAIN try' = {"cyl", "head", "err_cnt", "no_seek_count", "seek_len", "recovery_active"}
         /\ try'.err_cnt = 0 /\ try'.seek_len = 1
<1>1. DecoderType(r)
  BY DEF DecoderInv
<1> DEFINE list == mfm_init_sector_status_list(dp.num_sectors)
<1>2. r' = [r EXCEPT !.list = list]
  BY DEF NextTrack, StartTrack
<1>3. list \in [Sectors -> SectorRecord] /\ \A i \in Sectors : "SECT_NOT_WRITTEN" \in list[i].status
  BY NewList
<1> HIDE DEF list
<1>4. /\ Fields \subseteq DOMAIN r' /\ r'.list = list
      /\ r'.sector_status = r.sector_status /\ r'.file = r.file /\ r'.good = r.good
      /\ r'.seek_difference = r.seek_difference
  BY <1>1, <1>2 DEF DecoderType, Fields
<1>5. DecoderType(r')
  BY <1>1, <1>3, <1>4 DEF DecoderType
<1>6. /\ \/ try'.cyl = try.cyl /\ try'.head = try.head + 1 /\ try'.head < dp.num_head
         \/ try'.cyl = try.cyl + 1 /\ try'.head = 0 /\ try'.cyl < dp.num_cyl
      /\ DOMAIN try' = {"cyl", "head", "err_cnt", "no_seek_count", "seek_len", "recovery_active"}
      /\ try'.err_cnt = 0 /\ try'.seek_len = 1
  BY DEF NextTrack, StartTrack
<1> QED BY <1>3, <1>4, <1>5, <1>6

\* The empty file agrees with the list of the first track.
LEMMA InitHold == Init => HoldInv
<1> SUFFICES ASSUME Init PROVE HoldInv
  OBVIOUS
<1>1. JobInv /\ TrackInv
  BY InitTrack DEF Init, JobInv
<1>2. /\ r.file = <<>> /\ r.list = mfm_init_sector_status_list(dp.num_sectors)
      /\ r.good = [p \in Places |-> SECTOR_GOOD_BAD]
  BY DEF Init
<1>3. \A p \in Places : HeldIn(r.file)[p] = Unread
  <2>1. \A o : o \notin DOMAIN <<>>
    OBVIOUS
  <2> QED BY <1>2, <2>1 DEF HeldIn
<1>4. ListOf(r)
  BY <1>1, <1>2, <1>3, NewList, TrackPlaces DEF ListOf
<1>5. AheadOf(r) /\ GoodOf(r)
  BY <1>2, <1>3 DEF AheadOf, GoodOf
<1> QED BY <1>4, <1>5 DEF HoldInv, HoldOf

\* Every step keeps the file in step, and changes it to a better read at most.
LEMMA HoldStep ==
  ASSUME JobInv, TrackInv, DriveInv, DecoderInv, HoldInv, IInv, CountsInv, [Next]_vars
  PROVE  HoldInv' /\ Improved(r.file, r'.file)
<1>1. CASE Others
  <2>1. dp' = dp /\ r' = r /\ try'.cyl = try.cyl /\ try'.head = try.head
    BY <1>1, OthersStep
  <2>2. HoldOf(r')
    BY <2>1 DEF HoldInv
  <2> QED BY <2>1, <2>2, HoldStays DEF Improved
<1>2. CASE StartDecode
  <2>1. dp' = dp /\ try' = try
    BY <1>2 DEF StartDecode
  <2>2. /\ r'.file = r.file /\ r'.good = r.good
        /\ \A i \in Sectors : /\ r'.list[i].status = r.list[i].status
                              /\ RankOf(r'.list[i]) = RankOf(r.list[i])
    BY <1>2, ListStarted
  <2>3. HoldOf(r')
    BY <2>2 DEF HoldInv, HoldOf, ListOf, AheadOf, GoodOf
  <2> QED BY <2>1, <2>2, <2>3, HoldStays DEF Improved
<1>3. CASE DecodeSector
  <2>1. dp' = dp /\ try' = try
    BY <1>3 DEF DecodeSector
  <2>2. HoldOf(r') /\ Improved(r.file, r'.file)
    BY <1>3, SectorDecoded
  <2> QED BY <2>1, <2>2, HoldStays
<1>4. CASE NextTrack
  <2>1. dp' = dp
    BY <1>4 DEF NextTrack
  <2>2. /\ r'.file = r.file /\ r'.good = r.good
        /\ \A i \in Sectors : "SECT_NOT_WRITTEN" \in r'.list[i].status
        /\ \/ try'.cyl = try.cyl /\ try'.head = try.head + 1 /\ try'.head < dp.num_head
           \/ try'.cyl = try.cyl + 1 /\ try'.head = 0 /\ try'.cyl < dp.num_cyl
    BY <1>4, TrackStarted
  <2>3. HeldIn(r.file)' = HeldIn(r.file)
    BY <2>1, <2>2 DEF HeldIn, OffsetOf, Offset, SectRel0
  <2>4. ListOf(r) /\ AheadOf(r) /\ GoodOf(r)
    BY DEF HoldInv, HoldOf
  <2>5. /\ try.cyl \in Nat /\ try.head \in Nat /\ dp.num_cyl \in Nat /\ dp.num_head \in Nat
    BY JobFacts DEF TrackInv
  <2>6. try'.cyl \in 0 .. dp.num_cyl - 1 /\ try'.head \in 0 .. dp.num_head - 1
    BY <2>2, <2>5 DEF TrackInv
  <2>7. ASSUME NEW p \in Places, Ahead(p)' PROVE Ahead(p)
    <3>1. p[1] \in Nat /\ p[2] \in Nat
      BY PlaceFacts
    <3>2. p[1] > try'.cyl \/ (p[1] = try'.cyl /\ p[2] > try'.head)
      BY <2>7 DEF Ahead
    <3> QED BY <2>2, <2>5, <3>1, <3>2 DEF Ahead
  <2>8. AheadOf(r)' /\ GoodOf(r)'
    BY <2>1, <2>2, <2>3, <2>4, <2>7 DEF AheadOf, GoodOf
  <2>9. ListOf(r)'
    <3> SUFFICES ASSUME ~dp'.ignore_seek_errors, NEW i \in Sectors
                 PROVE  IF "SECT_NOT_WRITTEN" \in r'.list[i].status
                        THEN HeldIn(r.file)'[PlaceAt(i)'] = Unread
                        ELSE /\ "SECT_BAD_HEADER" \notin r'.list[i].status
                             /\ HeldIn(r.file)'[PlaceAt(i)'] = RankOf(r.list[i])'
      BY <2>1 DEF ListOf, Sectors
    <3> DEFINE p == <<try'.cyl, try'.head, i>>
    <3>1. p \in Places
      BY <2>6, PlaceFacts
    <3>2. Ahead(p)
      BY <2>2, <2>5 DEF Ahead
    <3>3. HeldIn(r.file)[p] = Unread
      BY <2>1, <2>4, <3>1, <3>2 DEF AheadOf
    <3>4. PlaceAt(i)' = p
      BY DEF PlaceAt
    <3> QED BY <2>2, <2>3, <3>3, <3>4
  <2> QED BY <2>2, <2>8, <2>9 DEF HoldInv, HoldOf, Improved
<1> QED BY <1>1, <1>2, <1>3, <1>4, OneOf

----------------------------------------------------------------------------
(* The reader stays within its bounds                                      *)

\* The variables of drive_read_disk() for a track
TryFields == {"cyl", "head", "err_cnt", "no_seek_count", "seek_len", "recovery_active"}

\* The limit of the retries is a number.
LEMMA RetriesNat == JobInv => Retries \in Nat /\ Retries <= dp.retries
BY JobFacts DEF Retries

\* Counting an error leaves the rest.
LEMMA CountingFacts ==
  ASSUME JobInv, TrackInv, TryInv, try.err_cnt <= Retries
  PROVE  /\ DOMAIN Counting = DOMAIN try
         /\ Counting.cyl = try.cyl /\ Counting.head = try.head
         /\ Counting.seek_len = try.seek_len
         /\ Counting.err_cnt \in Nat /\ Counting.err_cnt <= Retries + 1
         /\ Again => Counting.err_cnt <= Retries
<1>1. Retries \in Nat /\ try.err_cnt \in Nat
  BY RetriesNat DEF TryInv
<1>2. "err_cnt" \in DOMAIN try
  BY DEF TryInv
<1>3. /\ DOMAIN Counting = DOMAIN try
      /\ Counting.cyl = try.cyl /\ Counting.head = try.head
      /\ Counting.seek_len = try.seek_len
      /\ Counting.err_cnt = IF SectErr THEN try.err_cnt + 1 ELSE try.err_cnt
  BY <1>2 DEF Counting
<1>4. CASE SectErr
  BY <1>1, <1>3, <1>4 DEF Again
<1>5. CASE ~SectErr
  BY <1>1, <1>3, <1>5 DEF Again
<1> QED BY <1>3, <1>4, <1>5

\* A seek before a retry changes seek_len at most.
LEMMA RestedFacts ==
  ASSUME TryInv
  PROVE  /\ DOMAIN Rested = DOMAIN try
         /\ Rested.cyl = try.cyl /\ Rested.head = try.head
         /\ Rested.seek_len = try.seek_len /\ Rested.err_cnt = try.err_cnt
         /\ DOMAIN [Rested EXCEPT !.seek_len = NextSeekLen] = DOMAIN try
         /\ [Rested EXCEPT !.seek_len = NextSeekLen].cyl = try.cyl
         /\ [Rested EXCEPT !.seek_len = NextSeekLen].head = try.head
         /\ [Rested EXCEPT !.seek_len = NextSeekLen].err_cnt = try.err_cnt
         /\ [Rested EXCEPT !.seek_len = NextSeekLen].seek_len = NextSeekLen
<1>1. TryFields \subseteq DOMAIN try
  BY DEF TryInv, TryFields
<1>2. /\ DOMAIN Rested = DOMAIN try
      /\ Rested.cyl = try.cyl /\ Rested.head = try.head
      /\ Rested.seek_len = try.seek_len /\ Rested.err_cnt = try.err_cnt
  BY <1>1 DEF Rested, TryFields
<1> HIDE DEF Rested
<1> QED BY <1>1, <1>2 DEF TryFields

\* The seeks before a retry get longer, in both directions, and stay on the disk.
LEMMA SeekLengths ==
  ASSUME JobInv, TrackInv, TryInv
  PROVE  /\ NextSeekLen \in - dp.num_cyl .. dp.num_cyl
         /\ ClipSeekLen \in Int
<1>1. /\ dp.num_cyl \in Nat \ {0} /\ try.cyl \in Nat
      /\ try.seek_len \in - dp.num_cyl .. dp.num_cyl
  BY JobFacts DEF TrackInv, TryInv
<1>2. NextSeekLen \in - dp.num_cyl .. dp.num_cyl
  BY <1>1 DEF NextSeekLen
<1>3. ClipSeekLen \in Int
  BY <1>1 DEF ClipSeekLen
<1> QED BY <1>2, <1>3

\* The heads stay on the disk, whatever is asked of the drive.
LEMMA Steps ==
  ASSUME JobInv, DriveInv, NEW steps \in Int, NEW update_cyl \in BOOLEAN, disk' = disk,
         drive_step(steps, update_cyl)
  PROVE  DriveInv'
<1>1. LastCyl \in Int /\ LastCyl >= 0 /\ drive.arm \in 0 .. LastCyl /\ drive.current_cyl \in Int
  BY JobFacts DEF DriveInv
<1>2. PICK slip \in {-1, 0, 1} :
        LET current == drive.current_cyl + (IF update_cyl THEN steps ELSE 0)
            recalibrated == Moved(steps, slip) = 0 /\ drive.current_cyl # 0 /\ current # 0
        IN /\ slip # 0 => faults < MaxFaults
           /\ drive' = [arm |-> Moved(steps, slip), current_cyl |-> IF recalibrated THEN 0 ELSE current]
           /\ faults' = faults + (IF slip = 0 THEN 0 ELSE 1)
  BY DEF drive_step
<1>3. Moved(steps, slip) \in 0 .. LastCyl
  BY <1>1 DEF Moved, Stopped, Pulses
<1>4. faults' \in 0 .. MaxFaults
  BY <1>2, FaultsAssumption DEF DriveInv
<1>5. LastCyl' = LastCyl
  BY DEF LastCyl
<1>6. drive'.arm = Moved(steps, slip) /\ drive'.current_cyl \in Int
  BY <1>1, <1>2
<1> QED BY <1>3, <1>4, <1>5, <1>6 DEF DriveInv

\* Any step of the drive leaves its own state within its bounds.
LEMMA DriveStep ==
  ASSUME JobInv, TrackInv, TryInv, DriveInv, DecoderInv, [Next]_vars
  PROVE  DriveInv'
<1>1. dp' = dp /\ disk' = disk
  BY JobStays
<1>2. LastCyl' = LastCyl
  BY <1>1 DEF LastCyl
<1>3. ASSUME drive' = drive, faults' = faults PROVE DriveInv'
  BY <1>2, <1>3 DEF DriveInv
<1>4. CASE SeekAway \/ SeekBack
  <2>1. ClipSeekLen \in Int /\ - ClipSeekLen \in Int
    BY SeekLengths
  <2>2. drive_step(ClipSeekLen, TRUE) \/ drive_step(- ClipSeekLen, TRUE)
    BY <1>4 DEF SeekAway, SeekBack, DRIVE_STEP_UPDATE_CYL
  <2> QED BY <1>1, <2>1, <2>2, Steps
<1>5. CASE GoToTrack
  <2>1. try.cyl - drive.current_cyl \in Int
    BY JobFacts DEF TrackInv, DriveInv
  <2>2. CASE try.cyl # drive.current_cyl
    <3>1. drive_step(try.cyl - drive.current_cyl, TRUE)
      BY <1>5, <2>2 DEF GoToTrack, DRIVE_STEP_UPDATE_CYL
    <3> QED BY <1>1, <2>1, <3>1, Steps
  <2>3. CASE try.cyl = drive.current_cyl
    BY <1>3, <1>5, <2>3 DEF GoToTrack
  <2> QED BY <2>2, <2>3
<1>6. CASE MicroStep \/ CorrectSeek
  <2>1. r.seek_difference \in Int /\ 1 \in Int
    BY DEF DecoderInv, DecoderType
  <2>2. drive_step(1, FALSE) \/ drive_step(r.seek_difference, FALSE)
    BY <1>6 DEF MicroStep, CorrectSeek, DRIVE_STEP_NO_UPDATE_CYL
  <2> QED BY <1>1, <2>1, <2>2, Steps
<1>7. CASE DecodeSector \/ NoIndex
  <2>1. faults' = faults \/ (faults < MaxFaults /\ faults' = faults + 1)
    <3>1. CASE NoIndex
      BY <3>1 DEF NoIndex
    <3>2. CASE DecodeSector
      <4>1. PICK seen \in MayRead(processed) :
              faults' = faults + (IF seen = Natural(processed) THEN 0 ELSE 1)
        BY <3>2 DEF DecodeSector
      <4>2. CASE seen = Natural(processed)
        BY <4>1, <4>2 DEF DriveInv
      <4>3. CASE seen # Natural(processed)
        <5>1. faults < MaxFaults
          BY <4>3 DEF MayRead
        <5> QED BY <4>1, <4>3, <5>1
      <4> QED BY <4>2, <4>3
    <3> QED BY <1>7, <3>1, <3>2
  <2>2. faults' \in 0 .. MaxFaults
    BY <2>1, FaultsAssumption DEF DriveInv
  <2>3. drive' = drive
    BY <1>7 DEF DecodeSector, NoIndex
  <2> QED BY <1>2, <2>2, <2>3 DEF DriveInv
<1>8. CASE NoSeek \/ EnableRecovery \/ NowhereToSeek \/ ReadTrack \/ StartDecode \/ EndDecode
           \/ NextTrack \/ mfm_decode_done
  <2>1. drive' = drive /\ faults' = faults
    BY <1>8 DEF NoSeek, EnableRecovery, NowhereToSeek, ReadTrack, StartDecode, EndDecode,
                NextTrack, mfm_decode_done
  <2> QED BY <1>3, <2>1
<1>9. CASE Failed \/ StopThread \/ Join \/ SigInt \/ DeltaThread \/ PruRead \/ UNCHANGED vars
  <2>1. drive' = drive /\ faults' = faults
    BY <1>9 DEF Failed, StopThread, Join, SigInt, DeltaThread, PruRead, vars, driveVars
  <2> QED BY <1>3, <2>1
<1> QED BY <1>4, <1>5, <1>6, <1>7, <1>8, <1>9 DEF Next, Reader

\* The reader reads and decodes where it said so.
PhaseInv == main \in {"exec", "decode"} => pc = "decode"

\* Only a read starts to decode.
LEMMA PhaseStep ==
  ASSUME PhaseInv, [Next]_vars
  PROVE  PhaseInv'
<1>1. CASE \/ NoSeek \/ EnableRecovery \/ MicroStep \/ SeekAway \/ SeekBack \/ NowhereToSeek
           \/ GoToTrack \/ CorrectSeek \/ NextTrack \/ mfm_decode_done
  BY <1>1 DEF NoSeek, EnableRecovery, MicroStep, SeekAway, SeekBack, NowhereToSeek, GoToTrack,
              CorrectSeek, NextTrack, mfm_decode_done, Idle, deltaVars, PhaseInv
<1>2. CASE ReadTrack \/ StartDecode \/ EndDecode \/ DecodeSector
  BY <1>2 DEF ReadTrack, ExecRead, StartDecode, deltas_start_read, EndDecode, Decoded, DecodeSector,
              Process, PhaseInv
<1>3. CASE Failed \/ StopThread \/ Join \/ SigInt
  BY <1>3 DEF Failed, ReadFailed, StopThread, Stop, deltas_stop_thread, Join, Joined, SigInt, Interrupt,
              driveVars, PhaseInv
<1>4. CASE DeltaThread
  BY <1>4 DEF DeltaThread, driveVars, delta_proc, WaitRead, CopyDeltas, CheckStatus, WriteDeltas,
              Complete, PhaseInv
<1>5. CASE PruRead \/ NoIndex
  BY <1>5 DEF PruRead, NoIndex, PruStart, PruCapture, PruFinish, driveVars, PhaseInv
<1>6. CASE UNCHANGED vars
  BY <1>6 DEF vars, deltaVars, driveVars, PhaseInv
<1> QED BY <1>1, <1>2, <1>3, <1>4, <1>5, <1>6 DEF Next, Reader

\* The retries of a track are counted up to their limit.
LEMMA TryStep ==
  ASSUME JobInv, TrackInv, TryInv, PhaseInv, DecoderInv, [Next]_vars
  PROVE  TryInv'
<1>1. dp' = dp
  BY JobStays
<1>2. Retries \in Nat /\ dp.num_cyl \in Nat \ {0}
  BY RetriesNat, JobFacts
<1>3. ASSUME try'.cyl = try.cyl, try'.head = try.head PROVE Retries' = Retries
  BY <1>1, <1>3 DEF Retries
<1>4. TryFields \subseteq DOMAIN try
  BY DEF TryInv, TryFields
\* The track stays, and its errors stay as they are.
<1>5. ASSUME DOMAIN try' = DOMAIN try, try'.cyl = try.cyl, try'.head = try.head,
             try'.err_cnt = try.err_cnt, try'.seek_len \in - dp.num_cyl .. dp.num_cyl,
             pc' = pc \/ (pc \notin {"end", "done"}
                          /\ pc' \in {"retry", "back", "go", "read", "decode", "correct", "end"})
                      \/ (pc = "end" /\ pc' = "done")
      PROVE  TryInv'
  <2>1. Retries' = Retries
    BY <1>3, <1>5
  <2> QED BY <1>1, <1>4, <1>5, <2>1 DEF TryInv, TryFields
<1>6. CASE NoSeek \/ EnableRecovery
  <2>1. /\ DOMAIN try' = DOMAIN try /\ try'.cyl = try.cyl /\ try'.head = try.head
        /\ try'.err_cnt = try.err_cnt /\ try'.seek_len = try.seek_len
    BY <1>4, <1>6 DEF NoSeek, EnableRecovery, TryFields
  <2>2. pc' = pc \/ (pc = "retry" /\ pc' = "go")
    BY <1>6 DEF NoSeek, EnableRecovery
  <2>3. try'.seek_len \in - dp.num_cyl .. dp.num_cyl
    BY <2>1 DEF TryInv
  <2> QED BY <1>5, <2>1, <2>2, <2>3
<1>7. CASE MicroStep \/ SeekBack \/ NowhereToSeek
  <2>1. /\ try' = Rested \/ try' = [Rested EXCEPT !.seek_len = NextSeekLen]
        /\ pc \in {"retry", "back"} /\ pc' = "go"
    BY <1>7 DEF MicroStep, SeekBack, NowhereToSeek
  <2>2. /\ DOMAIN try' = DOMAIN try /\ try'.cyl = try.cyl /\ try'.head = try.head
        /\ try'.err_cnt = try.err_cnt
        /\ try'.seek_len = try.seek_len \/ try'.seek_len = NextSeekLen
    BY <2>1, RestedFacts
  <2>3. try'.seek_len \in - dp.num_cyl .. dp.num_cyl
    BY <2>2, SeekLengths DEF TryInv
  <2> QED BY <1>5, <2>1, <2>2, <2>3
<1>8. CASE SeekAway \/ GoToTrack \/ ReadTrack \/ StartDecode \/ DecodeSector \/ mfm_decode_done
           \/ NoIndex
  <2>1. /\ try' = try
        /\ pc' = pc \/ (pc \notin {"end", "done"} /\ pc' \in {"back", "read", "decode"})
                    \/ (pc = "end" /\ pc' = "done")
    BY <1>8 DEF SeekAway, GoToTrack, ReadTrack, StartDecode, DecodeSector, mfm_decode_done, NoIndex
  <2>2. try'.seek_len \in - dp.num_cyl .. dp.num_cyl
    BY <2>1 DEF TryInv
  <2> QED BY <1>5, <2>1, <2>2
<1>9. CASE Failed \/ StopThread \/ Join \/ SigInt \/ DeltaThread \/ PruRead \/ UNCHANGED vars
  <2>1. try' = try /\ pc' = pc
    BY <1>9 DEF Failed, StopThread, Join, SigInt, DeltaThread, PruRead, vars, driveVars
  <2>2. try'.seek_len \in - dp.num_cyl .. dp.num_cyl
    BY <2>1 DEF TryInv
  <2> QED BY <1>5, <2>1, <2>2
<1>10. CASE EndDecode \/ CorrectSeek
  <2>1. pc \notin {"end", "done"}
    BY <1>10 DEF EndDecode, Decoded, CorrectSeek, PhaseInv
  <2>2. try.err_cnt <= Retries
    BY <2>1 DEF TryInv
  <2>3. \/ try' = try /\ pc' = "correct"
        \/ try' = Counting /\ pc' = IF Again THEN "retry" ELSE "end"
    BY <1>10 DEF EndDecode, CorrectSeek
  <2>4. CASE try' = try /\ pc' = "correct"
    <3>1. try'.seek_len \in - dp.num_cyl .. dp.num_cyl
      BY <2>4 DEF TryInv
    <3> QED BY <1>5, <2>1, <2>4, <3>1
  <2>5. CASE try' = Counting /\ pc' = IF Again THEN "retry" ELSE "end"
    <3>1. /\ DOMAIN try' = DOMAIN try /\ try'.cyl = try.cyl /\ try'.head = try.head
          /\ try'.seek_len = try.seek_len
          /\ try'.err_cnt \in Nat /\ try'.err_cnt <= Retries + 1
          /\ Again => try'.err_cnt <= Retries
      BY <2>2, <2>5, CountingFacts
    <3>2. Retries' = Retries
      BY <1>3, <3>1
    <3>3. pc' \in {"retry", "end"} /\ (pc' = "retry" => Again)
      BY <2>5
    <3> QED BY <1>1, <1>4, <3>1, <3>2, <3>3 DEF TryInv, TryFields
  <2> QED BY <2>3, <2>4, <2>5
<1>11. CASE NextTrack
  <2>1. /\ DOMAIN try' = TryFields /\ try'.err_cnt = 0 /\ try'.seek_len = 1
        /\ pc' = "retry"
    BY <1>11, TrackStarted DEF NextTrack, TryFields
  <2>2. Retries' \in Nat
    BY <1>1, JobFacts DEF Retries
  <2>3. try'.seek_len \in - dp'.num_cyl .. dp'.num_cyl
    BY <1>1, <1>2, <2>1
  <2>4. try'.err_cnt \in Nat /\ try'.err_cnt <= Retries' + 1 /\ try'.err_cnt <= Retries'
    <3>1. \A n \in Nat : 0 <= n + 1 /\ 0 <= n
      OBVIOUS
    <3>2. 0 <= Retries' + 1 /\ 0 <= Retries'
      BY <2>2, <3>1, Zenon
    <3>3. 0 \in Nat
      OBVIOUS
    <3> QED BY <2>1, <3>2, <3>3, Zenon
  <2> QED BY <2>1, <2>3, <2>4 DEF TryInv, TryFields
<1> QED
  BY <1>6, <1>7, <1>8, <1>9, <1>10, <1>11 DEF Next, Reader

----------------------------------------------------------------------------
(* What follows of the whole                                               *)

\* The words of the track are those of its sectors so far, and a new read starts with none.
LEMMA DecodeStep ==
  ASSUME JobInv, TrackInv, DriveInv, DecoderInv, HoldInv, IInv, CountsInv, [Next]_vars
  PROVE  DecoderInv'
<1>1. dp' = dp
  BY JobStays
<1>2. MaxDeltas \in Nat
  BY DeltasAssumption
<1>3. CASE Others
  <2>1. r' = r /\ try'.cyl = try.cyl /\ try'.head = try.head
    BY <1>3, OthersStep
  <2>2. /\ main' = "decode" => main = "decode" /\ processed' = processed /\ emu' = emu
        /\ \/ emu' = emu
           \/ DOMAIN emu' = DOMAIN emu /\ emu'.current = <<>>
        /\ main' \in {"idle", "exec"} =>
             \/ main \in {"idle", "exec"}
             \/ emu'.current = <<>>
    <3>1. CASE EndDecode \/ mfm_decode_done
      <4>1. DOMAIN emu' = DOMAIN emu /\ emu'.current = <<>>
        <5>1. \E track, list : update_stats(track, list)
          BY <3>1 DEF EndDecode, mfm_decode_done
        <5> QED BY <5>1 DEF update_stats, update_emu_track_words, DecoderInv
      <4>2. main' = "idle"
        BY <3>1 DEF EndDecode, Decoded, mfm_decode_done, Idle, deltaVars
      <4> QED BY <4>1, <4>2
    <3>2. CASE \/ NoSeek \/ EnableRecovery \/ MicroStep \/ SeekAway \/ SeekBack \/ NowhereToSeek
               \/ GoToTrack \/ CorrectSeek
      BY <3>2 DEF NoSeek, EnableRecovery, MicroStep, SeekAway, SeekBack, NowhereToSeek, GoToTrack,
                  CorrectSeek, Idle, deltaVars
    <3>3. CASE ReadTrack
      BY <3>3 DEF ReadTrack, ExecRead
    <3>4. CASE Failed \/ StopThread \/ Join \/ SigInt
      BY <3>4 DEF Failed, ReadFailed, StopThread, Stop, deltas_stop_thread, Join, Joined, SigInt,
                  Interrupt, driveVars
    <3>5. CASE DeltaThread
      BY <3>5 DEF DeltaThread, driveVars, delta_proc, WaitRead, CopyDeltas, CheckStatus, WriteDeltas,
                  Complete
    <3>6. CASE PruRead \/ NoIndex
      BY <3>6 DEF PruRead, NoIndex, PruStart, PruCapture, PruFinish, driveVars
    <3>7. CASE UNCHANGED vars
      BY <3>7 DEF vars, deltaVars, driveVars
    <3> QED BY <1>3, <3>1, <3>2, <3>3, <3>4, <3>5, <3>6, <3>7 DEF Others
  <2>3. DecoderType(r)'
    BY <1>1, <2>1, TypeStays DEF DecoderInv
  <2>4. main' = "decode" /\ r'.state = "MARK_DATA" => Headed(r.sector_status)'
    BY <1>1, <2>1, <2>2, HeadedStays DEF DecoderInv
  <2>5. <<>> \in Seq(Slots) /\ Len(<<>>) = 0
    OBVIOUS
  <2>6. /\ "current" \in DOMAIN emu' /\ emu'.current \in Seq(Slots) /\ Len(emu'.current) <= MaxDeltas
    <3>1. CASE emu' = emu
      BY <3>1 DEF DecoderInv
    <3>2. CASE DOMAIN emu' = DOMAIN emu /\ emu'.current = <<>>
      <4>1. "current" \in DOMAIN emu'
        BY <3>2 DEF DecoderInv
      <4> QED BY <1>2, <2>5, <3>2, <4>1
    <3> QED BY <2>2, <3>1, <3>2
  <2>7. /\ main' \in {"idle", "exec"} => emu'.current = <<>>
        /\ main' = "decode" => Len(emu'.current) = processed'
    BY <2>2 DEF DecoderInv
  <2>8. Slots' = Slots
    BY DEF Slots
  <2> QED BY <2>3, <2>4, <2>6, <2>7, <2>8 DEF DecoderInv
<1>4. CASE StartDecode
  <2>1. DecoderType(r') /\ r'.state = "MARK_ID"
    BY <1>4, ListStarted
  <2>2. DecoderType(r)'
    BY <1>1, <2>1, TypeStays
  <2>3. emu' = emu /\ main = "exec" /\ main' = "decode" /\ processed' = 0
    BY <1>4 DEF StartDecode, deltas_start_read
  <2>4. Len(emu.current) = 0
    BY <2>3 DEF DecoderInv
  <2> QED BY <1>2, <2>1, <2>2, <2>3, <2>4 DEF DecoderInv, Slots
<1>5. CASE NextTrack
  <2>1. DecoderType(r)'
    BY <1>1, <1>5, TrackStarted, TypeStays
  <2>2. emu' = emu /\ main = "idle" /\ main' = "idle"
    BY <1>5 DEF NextTrack, Idle, deltaVars
  <2> QED BY <2>1, <2>2 DEF DecoderInv, Slots
<1>6. CASE DecodeSector
  <2>1. /\ dp' = dp /\ try' = try /\ main = "decode" /\ main' = "decode"
        /\ processed' = processed + 1 /\ processed' <= num_deltas
    <3>1. processed \in Nat /\ num_deltas \in Nat
      BY DEF IInv, DeltaTypeOK
    <3> QED BY <1>6, <3>1 DEF DecodeSector, Process
  <2>2. /\ DecoderType(r') /\ (r'.state = "MARK_DATA" => Headed(r'.sector_status))
        /\ DOMAIN emu' = DOMAIN emu
    BY <1>6, SectorDecoded
  <2>3. PICK slot \in Slots : emu'.current = Append(emu.current, slot)
    BY <1>6, SectorDecoded
  <2>4. emu.current \in Seq(Slots) /\ Len(emu.current) = processed
    BY <2>1 DEF DecoderInv
  <2>5. emu'.current \in Seq(Slots) /\ Len(emu'.current) = processed'
    BY <2>1, <2>3, <2>4
  <2>6. processed' <= MaxDeltas
    BY <1>2, <2>1 DEF CountsInv, IInv, DeltaTypeOK
  <2>7. DecoderType(r)'
    BY <2>1, <2>2, TypeStays
  <2>8. r'.state = "MARK_DATA" => Headed(r.sector_status)'
    BY <2>1, <2>2, HeadedStays
  <2>9. Slots' = Slots
    BY DEF Slots
  <2> QED BY <2>1, <2>2, <2>5, <2>6, <2>7, <2>8, <2>9 DEF DecoderInv
<1> QED BY <1>3, <1>4, <1>5, <1>6, OneOf

\* The inductive invariant
ReaderInv ==
  JobInv /\ TrackInv /\ TryInv /\ PhaseInv /\ DriveInv /\ DecoderInv /\ HoldInv /\ IInv /\ CountsInv

\* The invariant holds at the start ...
LEMMA InitReader == Init => ReaderInv
<1> SUFFICES ASSUME Init PROVE ReaderInv
  OBVIOUS
<1>1. JobInv /\ TrackInv
  BY InitTrack DEF Init, JobInv
<1>2. DeltaInit /\ IInv /\ CountsInv
  BY InitInv, InitCounts DEF Init
<1>3. /\ dp.num_cyl \in Nat \ {0} /\ LastCyl \in Nat /\ Retries \in Nat /\ MaxDeltas \in Nat
  BY <1>1, JobFacts, RetriesNat
<1>4. TryInv
  <2>1. /\ pc = "retry" /\ DOMAIN try = TryFields /\ try.err_cnt = 0 /\ try.seek_len = 1
    BY DEF Init, TryFields
  <2> QED BY <1>3, <2>1 DEF TryInv, TryFields
<1>5. PhaseInv
  BY <1>2 DEF DeltaInit, PhaseInv
<1>6. DriveInv
  BY <1>3, FaultsAssumption DEF Init, DriveInv
<1>7. DecoderType(r)
  <2> DEFINE list == mfm_init_sector_status_list(dp.num_sectors)
  <2>1. /\ Fields \subseteq DOMAIN r /\ r.list = list
        /\ r.sector_status = NoSector /\ r.good = [p \in Places |-> SECTOR_GOOD_BAD]
        /\ r.seek_difference = 0
    BY DEF Init, Fields
  <2>2. NoSector \in SectorRecord
    BY DEF NoSector, SectorRecord
  <2>3. list \in [Sectors -> SectorRecord]
    BY <1>1, NewList
  <2> HIDE DEF list
  <2> QED BY <2>1, <2>2, <2>3 DEF DecoderType
<1>8. DecoderInv
  <2>1. emu.current = <<>> /\ "current" \in DOMAIN emu /\ main = "idle"
    BY <1>2 DEF Init, DeltaInit
  <2> QED BY <1>3, <1>7, <2>1 DEF DecoderInv
<1> QED BY <1>1, <1>2, <1>4, <1>5, <1>6, <1>8, InitHold DEF ReaderInv

\* ... at every step ...
LEMMA StepReader ==
  ASSUME ReaderInv, [Next]_vars
  PROVE  ReaderInv' /\ Improved(r.file, r'.file)
<1> USE DEF ReaderInv
<1>1. dp' = dp /\ disk' = disk
  BY JobStays
<1>2. JobInv'
  BY <1>1 DEF JobInv
<1>3. TrackInv' /\ [DeltaNext]_deltaVars
  BY NextStep
<1>4. IInv' /\ CountsInv'
  BY <1>3, StepInv, CountsStep
<1>5. TryInv' /\ PhaseInv'
  BY TryStep, PhaseStep
<1>6. DriveInv'
  BY DriveStep
<1>7. DecoderInv'
  BY DecodeStep
<1>8. HoldInv' /\ Improved(r.file, r'.file)
  BY HoldStep
<1> QED BY <1>2, <1>3, <1>4, <1>5, <1>6, <1>7, <1>8

\* ... and so always.
LEMMA ReaderInvAlways == Spec => []ReaderInv
<1>1. ReaderInv /\ [Next]_vars => ReaderInv'
  BY StepReader
<1> QED BY <1>1, InitReader, PTL DEF Spec

\* The reader's state is what TypeOK says, whatever goes wrong: the retries stop at
\* their limit, no word is gathered for a sector the track does not have, and the
\* heads stay on the disk.
THEOREM TypeAlways == Spec => []TypeOK
<1>1. ReaderInv => TypeOK
  <2> SUFFICES ASSUME ReaderInv PROVE TypeOK
    OBVIOUS
  <2> USE DEF ReaderInv
  <2>1. /\ dp.num_sectors = MaxDeltas /\ MaxDeltas \in Nat
        /\ Retries \in Nat /\ Retries <= dp.retries /\ dp.retries \in Nat
    BY JobFacts, RetriesNat
  <2>2. /\ main \in {"idle", "exec", "decode", "join", "stopped", "exit"}
        /\ thread \in {"wait", "copy", "check", "write", "complete", "ended"}
        /\ processed \in 0 .. dp.num_sectors /\ num_deltas \in 0 .. dp.num_sectors
    BY <2>1 DEF IInv, DeltaTypeOK, CountsInv
  <2>3. \A i \in DOMAIN r.list : r.list[i].status \cup r.list[i].last_status \subseteq Statuses
    BY DEF DecoderInv, DecoderType, SectorRecord
  <2>4. Len(emu.current) <= dp.num_sectors
    BY <2>1 DEF DecoderInv
  <2>5. /\ pc \in {"retry", "back", "go", "read", "decode", "correct", "end", "done"}
        /\ try.cyl \in 0 .. dp.num_cyl - 1 /\ try.err_cnt \in 0 .. dp.retries + 1
        /\ try.seek_len \in - dp.num_cyl .. dp.num_cyl
    BY <2>1 DEF TryInv, TrackInv
  <2>6. drive.arm \in 0 .. LastCyl /\ faults \in 0 .. MaxFaults
    BY DEF DriveInv
  <2> QED BY <2>2, <2>3, <2>4, <2>5, <2>6 DEF TypeOK
<1> QED BY <1>1, ReaderInvAlways, PTL

\* The sector list of a track and the extracted file always say the same, so that
\* the retries of drive_read_disk() end only when the file has every sector well.
THEOREM FileMatchesAlways == Spec => []FileMatchesStatus
<1>1. ReaderInv => FileMatchesStatus
  <2> SUFFICES ASSUME ReaderInv, ~dp.ignore_seek_errors, NEW i \in DOMAIN r.list
               PROVE  Held[<<try.cyl, try.head, i>>]
                        = IF "SECT_NOT_WRITTEN" \in r.list[i].status THEN Unread ELSE RankOf(r.list[i])
    BY DEF FileMatchesStatus
  <2>1. i \in Sectors /\ ListOf(r)
    BY DEF ReaderInv, DecoderInv, DecoderType, HoldInv, HoldOf
  <2> QED BY <2>1, HeldIsHeldIn DEF ListOf, PlaceAt
<1> QED BY <1>1, ReaderInvAlways, PTL

\* The extracted file is a store of the best reads: mfm_write_sector() never loses a
\* sector that was read well, nor puts it in another's place.
THEOREM BestReadsKept == Spec => ImplementsBestReads
<1>1. Init => Best!Init
  <2> SUFFICES ASSUME Init PROVE Best!Init
    OBVIOUS
  <2>1. r.file = <<>>
    BY DEF Init
  <2>2. \A o : o \notin DOMAIN <<>>
    OBVIOUS
  <2> QED BY <2>1, <2>2, HeldIsHeldIn DEF Best!Init, Best!Unread, HeldIn, Unread
<1>2. ReaderInv /\ [Next]_vars => [Best!Next]_Held
  <2> SUFFICES ASSUME ReaderInv, [Next]_vars PROVE [Best!Next]_Held
    OBVIOUS
  <2>1. Improved(r.file, r'.file)
    BY StepReader
  <2>2. dp' = dp
    BY JobStays DEF ReaderInv
  <2>3. Held = HeldIn(r.file)
    BY HeldIsHeldIn
  <2>4. Held' = HeldIn(r'.file)
    BY <2>2 DEF Held, RankAt, HeldIn, OffsetOf, Offset, SectRel0
  <2> QED BY <2>1, <2>3, <2>4 DEF Improved, Best!Next, Best!Improve, ReadRanks
<1> QED BY <1>1, <1>2, ReaderInvAlways, PTL DEF Spec, ImplementsBestReads, Best!Spec
=============================================================================
