------------------------------ MODULE Ext2Emu ------------------------------
(***************************************************************************)
(* ext2emu() of mfm/mfm_util.c: turns an extracted image into the tracks   *)
(* of an emulator file, by walking the layout of the format (TrackFormats) *)
(* and placing in it the sectors in the order of SectorSlots.              *)
(*                                                                         *)
(* A part of a track is known by the positions of its one bits, by the     *)
(* regions that hold data of the image, and by the check values over it:   *)
(* the data of block b is only known to be that of block b, and a check    *)
(* value only by its parameters and the bytes it was computed over.        *)
(***************************************************************************)
EXTENDS SectorSlots, TrackFormats, SequencesExt, FiniteSetsExt

VARIABLES drive_params, \* The command line, [controller, info, num_head, cyls, heads, mark_bad]:
                        \* info is the row of mfm_controller_info; the cylinders and
                        \* heads are those followed, the others of the image left out
          cyl, head,    \* The track being written
          pc,           \* Where the loops of ext2emu() are
          ndx,          \* The next entry of the layout
          start,        \* Where in the track it goes, in bytes
          gaps,         \* The runs <<bytes, value>> filled since the last part, its last zeros included
          special_list_ndx, \* Marks on the track so far
          track,        \* The parts of the track, [ndx, at, gaps, loc]
          fatal         \* What ext2emu() said before exit(1), or ""

writeVars == <<drive_params, cyl, head, pc, ndx, start, gaps, special_list_ndx, track, fatal>>

MAX_SECTORS == 70

controller == drive_params.info
track_length == (controller.track_words * 4) \div 2

\* The layout with its sub lists repeated: process_track() calling itself.
Unrolled(layout) ==
  FoldLeft(LAMBDA acc, e :
             acc \o IF e.type = "TRK_SUB"
                    THEN [i \in 1 .. e.count * Len(e.list) |-> e.list[((i - 1) % Len(e.list)) + 1]]
                    ELSE <<e>>,
           <<>>, layout)
entries == Unrolled(controller.track_layout)

----------------------------------------------------------------------------
(* What a field writes.  "loc" is where it is written: [cyl, head, sector,    *)
(* phys_sector].                                                              *)

get_sector(loc) == loc.sector + controller.first_sector_number
get_lba(loc) == (loc.cyl * drive_params.num_head + loc.head) * num_sectors + loc.sector
block(loc, sector) ==
  (loc.cyl * drive_params.num_head + loc.head) * num_sectors + sector - controller.first_sector_number

FieldValue(f, loc) ==
  CASE f.type = "CYL" -> loc.cyl
    [] f.type = "CYL_SEAGATE_ST11M" -> IF loc.cyl > 0 THEN loc.cyl - 1 ELSE 0
    [] f.type = "HEAD" -> loc.head
    [] f.type = "HEAD_SEAGATE_ST11M" -> IF loc.cyl = 0 THEN \hFF ELSE loc.head
    [] f.type = "SECTOR" -> get_sector(loc)
    [] f.type = "LBA" -> get_lba(loc)
    [] OTHER -> f.value

FieldBytes(f) == f.at .. f.at + f.len - 1

\* The bits of the field, most significant first; -2 stands for a discarded one.
Positions(f) ==
  LET bits == IF f.bits = <<>> THEN [k \in 1 .. 8 * f.len |-> 8 * f.at + k - 1]
              ELSE FlattenSeq([i \in DOMAIN f.bits |->
                     [k \in 1 .. f.bits[i][2] |->
                        IF f.bits[i][1] = -2 THEN -2 ELSE f.bits[i][1] + k - 1]])
  IN IF f.op \in {"REVERSE", "REVERSE_XOR"} THEN Reverse(bits) ELSE bits

\* The positions that receive a one (no value has more than 31 bits).
OnesOf(positions, value) ==
  {positions[k] : k \in {j \in DOMAIN positions :
     /\ Len(positions) - j < 31
     /\ (value \div 2 ^ (Len(positions) - j)) % 2 = 1}} \ {-2}

Xors(f) == f.op \in {"XOR", "REVERSE_XOR"}

\* A write over bytes a region or check covers leaves nothing known of it.
Clobber(acc, bytes) ==
  [acc EXCEPT !.regions = {r \in @ : (r.at .. r.at + r.len - 1) \cap bytes = {}},
              !.checks = {c \in @ : (c.from .. c.at + c.len - 1) \cap bytes = {}}]

Fail(acc, why) == [acc EXCEPT !.fatal = why]
Filled(acc, byte) == [acc EXCEPT !.field_filled = Max({@, byte})]

WriteOnes(acc, f, touched, ones) ==
  [Clobber(acc, {p \div 8 : p \in touched}) EXCEPT
     !.ones = IF Xors(f) THEN SymDiff(@, ones) ELSE (@ \ touched) \cup ones]

\* Faulty variant: a field up to the end of its part counts as too long
TooLongByOne(f, length) == f.at + f.len >= length

TooLong(f, length) == f.at + f.len > length

\* FIELD_FILL and FIELD_FILL_LAST_SECTOR
PutFill(acc, f, loc, length) ==
  LET byteOnes == {b \in 0 .. 7 : (f.value \div 2 ^ (7 - b)) % 2 = 1}
  IN IF f.type = "FILL_LAST_SECTOR" /\ loc.phys_sector # num_sectors - 1
     THEN Filled(acc, f.at + f.len - 1)
     ELSE IF TooLong(f, length) THEN Fail(acc, "Track overflow field fill")
     ELSE Filled(WriteOnes(acc, f, 8 * f.at .. 8 * (f.at + f.len) - 1,
                           {8 * i + b : i \in FieldBytes(f), b \in byteOnes}), f.at + f.len - 1)

\* A value without a bit list goes into whole bytes.
PutBytes(acc, f, value, length) ==
  IF TooLong(f, length) THEN Fail(acc, "Track overflow field update")
  ELSE Filled(WriteOnes(acc, f, 8 * f.at .. 8 * (f.at + f.len) - 1, OnesOf(Positions(f), value)),
              f.at + f.len - 1)

\* With one, bit by bit; "at" is then the number of bits of the value.
PutBits(acc, f, value, length) ==
  LET positions == Positions(f)
      touched == Range(positions) \ {-2}
  IN CASE \E p \in touched : p \div 8 >= length -> Fail(acc, "Track overflow bit field")
       [] Len(positions) # f.at -> Fail(acc, "Bit field length mismatch")
       [] OTHER -> Filled(WriteOnes(acc, f, touched, OnesOf(positions, value)),
                          Max({p \div 8 : p \in touched}))

\* The bytes under an exclusive or: all zero, all ones, or neither.
Mask(acc, f) ==
  LET under == {o \in acc.ones : o \div 8 \in FieldBytes(f)}
  IN CASE ~ Xors(f) \/ under = {} -> 0
       [] Cardinality(under) = 8 * f.len -> \hFF
       [] OTHER -> -1

\* FIELD_HDR_CRC and FIELD_DATA_CRC: the end stays with the part once it is set.
Parity(ones, from, to) == Cardinality({o \in ones : o \div 8 \in from .. to}) % 2

\* Faulty variant: the header's check is spoilt too
InvertedBoth(header, loc) == <<loc.cyl, loc.head, get_sector(loc)>> \in drive_params.mark_bad

\* A sector to be marked bad gets the complement of its data's check.
Inverted(header, loc) ==
  ~ header /\ <<loc.cyl, loc.head, get_sector(loc)>> \in drive_params.mark_bad

PutCheck(acc, f, loc, length) ==
  LET header == f.type = "HDR_CRC"
      to == IF acc.crc_end = -1 THEN f.at - 1 ELSE acc.crc_end
      check == [from |-> acc.crc_start, to |-> to, at |-> f.at, len |-> f.len,
                crc |-> IF header THEN controller.header_crc ELSE controller.data_crc,
                type |-> IF header THEN controller.header_check ELSE controller.data_check,
                mask |-> Mask(acc, f),
                inverted |-> Inverted(header, loc)]
      marked == [acc EXCEPT !.crc_end = to]
  IN CASE TooLong(f, length) -> Fail(acc, "Track overflow field update")
       [] check.type = "CHECK_PARITY" ->
            PutBytes(marked, f, Parity(acc.ones, acc.crc_start, to), length)
       [] OTHER ->
            [Filled(Clobber(marked, FieldBytes(f)), f.at + f.len - 1) EXCEPT
               !.ones = {o \in @ : o \div 8 \notin FieldBytes(f)},
               !.checks = @ \cup {check}]

\* Faulty variant: the data follows its own header in every format
DataBlockOwn(loc) == block(loc, get_sector(loc))

\* FIELD_SECTOR_DATA (get_data()) and FIELD_SECTOR_METADATA (get_metadata()).
\* "This is a stupid format where the sector header sector field is different
\* than the actual sector."
DataBlock(loc) ==
  IF drive_params.controller \in {"CONTROLLER_EC1841", "CONTROLLER_XEBEC_104527_C0_256B"}
  THEN block(loc, (get_sector(loc) + num_sectors - sector_interleave) % num_sectors)
  ELSE block(loc, get_sector(loc))

PutData(acc, f, loc, length) ==
  LET meta == f.type = "SECTOR_METADATA"
      size == IF meta THEN controller.metadata_bytes ELSE controller.sector_size
      region == [kind |-> f.type, at |-> f.at, len |-> f.len, mask |-> Mask(acc, f),
                 reversed |-> f.op = "REVERSE",
                 block |-> IF meta THEN block(loc, get_sector(loc)) ELSE DataBlock(loc)]
  IN CASE f.len # size -> Fail(acc, "Sector length mismatch")
       [] size > length - f.at -> Fail(acc, "Track overflow get_data")
       [] OTHER ->
            [Filled(Clobber(acc, FieldBytes(f)), f.at + f.len - 1) EXCEPT
               !.ones = {o \in @ : o \div 8 \notin FieldBytes(f)},
               !.regions = @ \cup {region}]

\* FIELD_A1, FIELD_42 to FIELD_C0 and FIELD_XEBEC_ID: bytes whose encoding is
\* replaced by a pattern with a missing clock.
XebecPatterns == <<"2448", "9122", "4489", "1224", "4aaa">>
SpecialPattern(f) ==
  CASE f.type = "A1" -> "4489" [] f.value = \h42 -> "1224" [] f.value = \h85 -> "4891"
    [] f.value = \h0A -> "2244" [] f.value = \h10 -> "89aa" [] f.value = \hC0 -> "12aa"

PutSpecial(acc, f, length) ==
  LET marks == IF f.type = "XEBEC_ID" THEN {<<f.at + i - 1, XebecPatterns[i]>> : i \in DOMAIN XebecPatterns}
               ELSE {<<f.at, SpecialPattern(f)>>}
      patterns == {m \in marks : m[1] \in FieldBytes(f)}
  IN IF special_list_ndx + Cardinality(acc.marks \cup marks) > MAX_SECTORS * 5
     THEN Fail(acc, "Special list overflow")
     ELSE IF patterns # marks THEN Fail(acc, "XEBEC id length wrong")
     ELSE [PutBytes(acc, f, f.value, length) EXCEPT !.marks = @ \cup marks]

PutField(acc, f, loc, length) ==
  IF acc.fatal # "" THEN acc ELSE
  CASE f.type \in {"FILL", "FILL_LAST_SECTOR"} -> PutFill(acc, f, loc, length)
    [] f.type \in {"HDR_CRC", "DATA_CRC"} -> PutCheck(acc, f, loc, length)
    [] f.type = "MARK_CRC_START" -> Filled([acc EXCEPT !.crc_start = f.at], f.at - 1)
    [] f.type = "MARK_CRC_END" -> Filled([acc EXCEPT !.crc_end = f.at], f.at - 1)
    [] f.type \in {"SECTOR_DATA", "SECTOR_METADATA"} -> PutData(acc, f, loc, length)
    [] f.type \in {"A1", "SPECIAL", "XEBEC_ID"} -> PutSpecial(acc, f, length)
    [] f.type = "NEXT_SECTOR" -> acc
    [] f.bits # <<>> -> PutBits(acc, f, FieldValue(f, loc), length)
    [] OTHER -> PutBytes(acc, f, FieldValue(f, loc), length)

\* The bytes of a part: process_field() over its fields.
Blank == [ones |-> {}, regions |-> {}, checks |-> {}, marks |-> {},
          crc_start |-> 0, crc_end |-> -1, field_filled |-> 0, fatal |-> ""]

FilledUp(acc, length) ==
  IF acc.fatal = "" /\ acc.field_filled # length - 1 THEN Fail(acc, "Incorrect field length") ELSE acc

process_field(part, loc) ==
  LET put[n \in 0 .. Len(part.list)] ==
        IF n = 0 THEN Blank ELSE PutField(put[n - 1], part.list[n], loc, part.count)
  IN FilledUp(put[Len(part.list)], part.count)

\* FIELD_NEXT_SECTOR comes last in the parts that have it.
Advances(part) == part.list[Len(part.list)].type = "NEXT_SECTOR"
ASSUME NextSectorIsLast ==
  \A c \in DOMAIN mfm_controller_info :
     \A part \in {e \in ToSet(Unrolled(mfm_controller_info[c].track_layout)) : e.type = "TRK_FIELD"} :
        \A k \in DOMAIN part.list : part.list[k].type = "NEXT_SECTOR" => k = Len(part.list)

----------------------------------------------------------------------------
(* The loops of ext2emu() and process_track().                                *)

WriteInit ==
  /\ cyl = drive_params.cyls[1]
  /\ head = drive_params.heads[1]
  /\ pc = "cyl"
  /\ ndx = 1 /\ start = 0 /\ gaps = <<>>
  /\ special_list_ndx = 0
  /\ track = <<>>
  /\ fatal = ""

StartCyl ==
  /\ pc = "cyl"
  /\ start_new_cyl
  /\ head' = drive_params.heads[1]
  /\ pc' = "track"
  /\ UNCHANGED <<drive_params, cyl, ndx, start, gaps, special_list_ndx, track, fatal>>

\* Faulty variant: the track interleave is not applied
StartTrackAtZero ==
  /\ pc = "track"
  /\ slot' = StartSlot(0) /\ order' = <<>>
  /\ pc' = "entry"
  /\ ndx' = 1 /\ start' = 0 /\ gaps' = <<>>
  /\ track' = <<>>
  /\ UNCHANGED <<drive_params, cyl, head, special_list_ndx, fatal, interleaveVars, track_start_sector>>

StartTrack ==
  /\ pc = "track"
  /\ start_new_track
  /\ pc' = "entry"
  /\ ndx' = 1 /\ start' = 0 /\ gaps' = <<>>
  /\ track' = <<>>
  /\ UNCHANGED <<drive_params, cyl, head, special_list_ndx, fatal>>

entry == entries[ndx]
AtEntry(type) == pc = "entry" /\ ndx <= Len(entries) /\ entry.type = type

Exit(why) ==
  /\ fatal' = why
  /\ pc' = "exit"
  /\ UNCHANGED <<drive_params, cyl, head, ndx, start, gaps, special_list_ndx, track, slotVars>>

\* Fills of the same value are one run.
AddRun(runs, count, value) ==
  CASE count = 0 -> runs
    [] count # 0 /\ runs # <<>> /\ runs[Len(runs)][2] = value ->
         [runs EXCEPT ![Len(runs)] = <<@[1] + count, value>>]
    [] OTHER -> Append(runs, <<count, value>>)

TrailingZeros(part, count) ==
  LET known == part.regions \cup part.checks
      Holds(i) == \/ \E o \in part.ones : o \div 8 = i
                  \/ \E k \in known : i \in k.at .. k.at + k.len - 1
  IN CHOOSE n \in 0 .. count : (n < count => Holds(count - 1 - n))
                               /\ \A m \in 0 .. n - 1 : ~ Holds(count - 1 - m)

\* Faulty variant: a fill is not held against the track's length
FillUnchecked ==
  /\ AtEntry("TRK_FILL")
  /\ start' = start + entry.count
  /\ gaps' = AddRun(gaps, entry.count, entry.value)
  /\ ndx' = ndx + 1
  /\ UNCHANGED <<drive_params, cyl, head, pc, special_list_ndx, track, fatal, slotVars>>

FillEntry ==
  /\ AtEntry("TRK_FILL")
  /\ IF start + entry.count > track_length THEN Exit("Track overflow fill")
     ELSE /\ start' = start + entry.count
          /\ gaps' = AddRun(gaps, entry.count, entry.value)
          /\ ndx' = ndx + 1
          /\ UNCHANGED <<drive_params, cyl, head, pc, special_list_ndx, track, fatal, slotVars>>

here == [cyl |-> cyl, head |-> head, sector |-> slot.sector, phys_sector |-> slot.phys_sector]

\* Faulty variant: the next sector is taken before the part that ends one is written
PlacePartNext(part) ==
  IF part.fatal # "" THEN Exit(part.fatal)
  ELSE /\ IF Advances(entry) THEN inc_sector ELSE UNCHANGED slotVars
       /\ track' = Append(track, [ndx |-> ndx, at |-> start, gaps |-> gaps,
                                  loc |-> [here EXCEPT !.sector = slot'.sector]])
       /\ special_list_ndx' = special_list_ndx + Cardinality(part.marks)
       /\ start' = start + entry.count
       /\ gaps' = AddRun(<<>>, TrailingZeros(part, entry.count), 0)
       /\ ndx' = ndx + 1
       /\ UNCHANGED <<drive_params, cyl, head, pc, fatal>>

PlacePart(part) ==
  IF part.fatal # "" THEN Exit(part.fatal)
  ELSE /\ track' = Append(track, [ndx |-> ndx, at |-> start, gaps |-> gaps, loc |-> here])
       /\ special_list_ndx' = special_list_ndx + Cardinality(part.marks)
       /\ start' = start + entry.count
       /\ gaps' = AddRun(<<>>, TrailingZeros(part, entry.count), 0)
       /\ ndx' = ndx + 1
       /\ IF Advances(entry) THEN inc_sector ELSE UNCHANGED slotVars
       /\ UNCHANGED <<drive_params, cyl, head, pc, fatal>>

FieldEntry ==
  /\ AtEntry("TRK_FIELD")
  /\ IF start + entry.count >= track_length THEN Exit("Track overflow field")
     ELSE PlacePart(process_field(entry, here))

\* emu_file_write_track_bits()
EndTrack ==
  /\ pc = "entry" /\ ndx > Len(entries)
  /\ pc' = "written"
  /\ special_list_ndx' = 0
  /\ UNCHANGED <<drive_params, cyl, head, ndx, start, gaps, track, fatal, slotVars>>

Following(seq, x) == {i \in DOMAIN seq : i > 1 /\ seq[i - 1] = x}

\* The next head, the next cylinder, or the end.
NextTrack ==
  /\ pc = "written"
  /\ \/ \E i \in Following(drive_params.heads, head) :
          head' = drive_params.heads[i] /\ pc' = "track" /\ UNCHANGED cyl
     \/ /\ Following(drive_params.heads, head) = {}
        /\ \E i \in Following(drive_params.cyls, cyl) :
             cyl' = drive_params.cyls[i] /\ pc' = "cyl" /\ UNCHANGED head
     \/ /\ Following(drive_params.heads, head) = {}
        /\ Following(drive_params.cyls, cyl) = {}
        /\ pc' = "done" /\ UNCHANGED <<cyl, head>>
  /\ UNCHANGED <<drive_params, ndx, start, gaps, special_list_ndx, track, fatal, slotVars>>

WriteTrack == StartCyl \/ StartTrack \/ FillEntry \/ FieldEntry \/ EndTrack

----------------------------------------------------------------------------

\* ext2emu() never stops at a layout of mfm_decoder.h: the entries fit the track,
\* the fields fit and fill their parts, the marks fit their list, and the sizes
\* of the layout agree with those of the controller's row.  Except that the 18
\* sectors and the last gap of CORVUS_OMNI are 260 bytes more than its track.
LayoutsFit == fatal # "" => drive_params.controller = "CONTROLLER_CORVUS_OMNI"

\* What lies on a written track, whatever the layout and the interleave: no part is
\* over another or past the end, a header and the data after it are of one sector,
\* and the parts that end a sector, if there are as many, end each sector once.
SectorsPlaced ==
  LET layout == entries
      EndOf(k) == track[k].at + layout[track[k].ndx].count
      ends == {k \in DOMAIN track : Advances(layout[track[k].ndx])}
      first == {k \in ends : Cardinality({j \in ends : j <= k}) <= num_sectors}
  IN pc = "written" =>
       /\ \A k \in DOMAIN track : EndOf(k) <= (IF k = Len(track) THEN track_length ELSE track[k + 1].at)
       /\ \A k \in 1 .. Len(track) - 1 : k \notin ends => track[k + 1].loc = track[k].loc
       /\ \A j, k \in first : track[j].loc.sector = track[k].loc.sector => j = k
       /\ Cardinality(ends) >= num_sectors => {track[k].loc.sector : k \in first} = Sectors
=============================================================================
