--------------------------- MODULE SectorDecoders ---------------------------
(***************************************************************************)
(* The decoders of the formats ext2emu can write: wd_, tagged_, xebec_,    *)
(* corvus_, northstar_ and perq_mfm_decoder.c.  They turn a part of a      *)
(* track into the header or the data of a sector.                          *)
(*                                                                         *)
(* A part p is what Ext2Emu!process_field() says of it: its one bits, the  *)
(* regions that hold data of the image, the check values over it and the   *)
(* bytes written as a mark.  t is the part's place on the track, [at,      *)
(* gaps]: its first byte, and the runs <<bytes, value>> before it.  The    *)
(* decoders look for a run of zeros and a mark or a one bit; they are not  *)
(* fooled by the data of the image, nor do they ever correct it.           *)
(***************************************************************************)
EXTENDS MfmDecoder, TrackFormats, FiniteSets, Functions, Folds

Info(dp) == dp.info

Bit(p, o) == IF o \in p.ones THEN 1 ELSE 0
Cut(x, low, n) == (x \div 2 ^ low) % 2 ^ n
Byte(p, i) ==
  128 * Bit(p, 8 * i) + 64 * Bit(p, 8 * i + 1) + 32 * Bit(p, 8 * i + 2) + 16 * Bit(p, 8 * i + 3)
  + 8 * Bit(p, 8 * i + 4) + 4 * Bit(p, 8 * i + 5) + 2 * Bit(p, 8 * i + 6) + Bit(p, 8 * i + 7)
REV_BYTE(x) ==
  128 * Cut(x, 0, 1) + 64 * Cut(x, 1, 1) + 32 * Cut(x, 2, 1) + 16 * Cut(x, 3, 1)
  + 8 * Cut(x, 4, 1) + 4 * Cut(x, 5, 1) + 2 * Cut(x, 6, 1) + Cut(x, 7, 1)

\* SAGA_FOX bytes are stored with their bits reversed.
Bytes(dp, p, base) ==
  [i \in 0 .. 10 |-> IF dp.controller = "CONTROLLER_SAGA_FOX" THEN REV_BYTE(Byte(p, base + i))
                     ELSE Byte(p, base + i)]

----------------------------------------------------------------------------
(* mfm_crc_bytes() *)

Over(c, from, to, at, bytes) == c.from = from /\ c.to = to /\ c.at = at /\ c.len = bytes
Plain(c) == c.mask = 0 /\ ~ c.inverted
Complement(c) == c.mask = \hFF /\ ~ c.inverted

\* Zeros after a CRC leave its remainder zero.
Zeros(p, from, end) ==
  /\ from <= end
  /\ \A o \in p.ones : o \div 8 \notin from .. end - 1
  /\ \A k \in p.regions \cup p.checks : k.at \notin from .. end - 1

mfm_crc_bytes(dp, p, header, base, length) ==
  LET info == Info(dp)
      crc == IF header THEN info.header_crc ELSE info.data_crc
      type == IF header THEN info.header_check ELSE info.data_check
      start == base + (IF header THEN info.header_crc_ignore ELSE info.data_crc_ignore)
      end == base + length
      len == crc[3] \div 8
      checks == {c \in p.checks : c.type = type /\ c.crc = crc}
  IN CASE type = "CHECK_CHKSUM" ->
            /\ \E c \in checks : Over(c, start, end - len - 1, end - len, len \div 2) /\ Plain(c)
            /\ \E c \in checks : Over(c, start, end - len - 1, end - len \div 2, len \div 2) /\ Complement(c)
       [] type = "CHECK_PARITY" ->
            Cardinality({o \in p.ones : o \div 8 \in start .. end - 1}) % 2 = 1
       [] OTHER -> \E c \in checks :
            /\ Over(c, start, c.at - 1, c.at, len)
            /\ Plain(c)
            /\ \/ c.at + len = end
               \/ type = "CHECK_CRC" /\ Zeros(p, c.at + len, end)

\* "mark it as ambiguous crc since any polynomial will match"
Ambiguous(dp, p, base, length) ==
  LET info == Info(dp)
      bytes == base + info.header_crc_ignore .. base + length - 1
  IN /\ info.header_check = "CHECK_CRC" /\ info.header_crc[1] = "0"
     /\ \A o \in p.ones : o \div 8 \notin bytes
     /\ \A g \in p.regions : g.at \notin bytes

----------------------------------------------------------------------------
(* The headers of wd_process_data(), one operator per branch.  b is the       *)
(* header's bytes; "exp" the track the heads are on, [cyl, head].             *)

Header(cyl, head, sector) ==
  [cyl |-> cyl, head |-> head, sector |-> sector, size |-> 0, flags |-> {}, lba |-> -1,
   ignore |-> FALSE, alternate |-> <<>>]

Flag(cond, flag) == IF cond THEN {flag} ELSE {}
BadHeader(cond) == Flag(cond, "SECT_BAD_HEADER")
SpareBad(cond) == Flag(cond, "SECT_SPARE_BAD")

OmtiHeader(b) ==
  [Header(256 * b[2] + b[3], b[4] % 16, b[5]) EXCEPT
     !.flags = SpareBad(b[4] >= 128) \cup BadHeader(b[1] # \hFE)]

Sa1400Header(b) == [Header(b[2], b[3], b[4]) EXCEPT !.flags = BadHeader(b[1] # \hFE)]

\* The low bit aside, FE is exclusive-ored with the high bits of the cylinder.
XorE(x) == (14 - 2 * (x \div 2)) + (x % 2)

MyarcHeader(dp, b) ==
  LET cyl == 256 * Cut(b[3], 4, 4) + b[2]
      ecc_size == CASE Cut(b[5], 4, 3) = 0 -> 4 [] OTHER -> -1
  IN [Header(cyl, b[3] % 16, b[4]) EXCEPT
        !.size = 128 * 2 ^ (b[5] % 8),
        !.flags = SpareBad(b[5] >= 128)
                  \cup BadHeader(Info(dp).data_crc[3] \div 8 # ecc_size \/ b[1] # \hF0 + XorE(Cut(cyl, 8, 4)))]

\* With both flag bits the header names the track that replaces this one.
Shugart1610Header(b, exp) ==
  LET flag == 2 * Cut(b[3], 7, 1) + Cut(b[3], 3, 1)
      named == <<256 * Cut(b[3], 4, 3) + b[2], b[3] % 8>>
      here == Header(exp.cyl, exp.head, b[4])
      id == BadHeader(b[1] # \hFE)
  IN CASE flag = 3 -> [here EXCEPT !.alternate = named, !.flags = id]
       [] flag = 1 -> [here EXCEPT !.flags = id]
       [] OTHER -> [Header(named[1], named[2], b[4]) EXCEPT !.flags = SpareBad(flag = 2) \cup id]

Mvme320Header(b) ==
  [Header(256 * b[2] + b[3], b[4], b[5]) EXCEPT !.flags = BadHeader(b[1] # \hFE)]

cyl_high_lookup(x) == CASE x \in 0 .. 3 -> x [] x \in 8 .. 11 -> x - 4 [] OTHER -> -1
CylHigh(b) == cyl_high_lookup(XorE(b[1] % 16))
WdCyl(b) == 256 * (IF CylHigh(b) = -1 THEN 0 ELSE CylHigh(b)) + b[2]
sector_size_lookup(b) == <<256, 512, 1024, 128>>[Cut(b[3], 5, 2) + 1]
WdFlags(b) == SpareBad(b[3] >= 128) \cup BadHeader(CylHigh(b) = -1)

\* "3B1 with P5.1 stores 4th head bit in bit 5 of sector number field."
Wd1006Header(dp, b) ==
  LET is3B1 == dp.controller = "CONTROLLER_WD_3B1"
      upper == Cut(b[4], 5, 3)
      fourth == IF upper % 2 = 0 /\ Cut(b[3], 3, 1) = 1 THEN upper + 1 ELSE upper
  IN [Header(WdCyl(b), IF is3B1 THEN (b[3] % 8) + 8 * fourth ELSE b[3] % 16,
             IF is3B1 THEN b[4] % 32 ELSE b[4]) EXCEPT
        !.size = sector_size_lookup(b),
        !.ignore = dp.controller = "CONTROLLER_HP9133XV" /\ b[4] = \hFF,
        !.flags = WdFlags(b)]

Isbc214Header(b) ==
  [Header(WdCyl(b), b[3] % 16, b[4] % 64) EXCEPT
     !.size = sector_size_lookup(b),
     !.flags = WdFlags(b) \cup BadHeader(Cut(b[4], 6, 2) = 3)]

TektronixHeader(b) ==
  [Header(WdCyl(b), (b[3] % 8) + 8 * Cut(b[4], 6, 1), b[4] % 64) EXCEPT
     !.size = sector_size_lookup(b), !.flags = WdFlags(b)]

ElektronikaHeader(b) ==
  [Header(WdCyl(b), b[3] % 16, b[4]) EXCEPT !.flags = BadHeader(CylHigh(b) = -1)]

DtcHeader(dp, b) ==
  LET head_mask == <<1, 1, 1, 3, 3, 7, 7, 7, 7>>
      head == b[3] % 16
  IN [Header(256 * Cut(b[3], 4, 3) + b[2],
             IF dp.num_head < 9 THEN head % (head_mask[dp.num_head + 1] + 1) ELSE head, b[4]) EXCEPT
        !.flags = SpareBad(b[3] >= 128) \cup BadHeader(b[1] # \hFE)]

MacbottomHeader(b) == Header(256 * b[1] + b[2], b[3], b[4])

\* "We can't determine what the actual cylinder sector and head is."
AdaptecHeader(b, exp, sector_index) ==
  [Header(exp.cyl, exp.head, sector_index) EXCEPT
     !.lba = 65536 * b[2] + 256 * b[3] + b[4],
     !.flags = (IF b[2] >= 128 THEN {"SECT_SPARE_BAD", "SECT_BAD_LBA_NUMBER"} ELSE {})
               \cup BadHeader(b[1] # \hFE)]

Symbolics3640Header(b) ==
  LET r7 == REV_BYTE(b[7])  r8 == REV_BYTE(b[8])  r9 == REV_BYTE(b[9])
      header_start == <<\hA1, \h5A, \h96, \h0E, \h0E, \h9E, \h01>>
  IN [Header(Cut(r8, 4, 4) + 16 * r9, Cut(r7, 6, 2) + 4 * (r8 % 4), r7 % 8) EXCEPT
        !.flags = BadHeader(\E i \in 0 .. 6 : b[i] # header_start[i + 1])]

\* Cylinder 0 is the controller's own; the image's start at 1.
SeagateHeader(b, exp) ==
  LET id == BadHeader(b[1] # \hFE)
      named == <<256 * Cut(b[2], 6, 2) + b[3] + 1, b[2] % 16>>
      here == Header(exp.cyl, exp.head, b[4])
      spare == id \cup Flag(b[4] = 254, "SECT_ANALYZE_SPARE")
  IN CASE b[2] = \hFF /\ b[3] = \hFF ->
            [Header(exp.cyl, exp.head, 0) EXCEPT !.flags = {"SECT_BAD_HEADER"}]
       [] b[2] = \hFF /\ b[3] # \hFF -> [Header(b[3], exp.head, b[4]) EXCEPT !.flags = id]
       [] b[2] # \hFF /\ b[5] = 4 -> [here EXCEPT !.alternate = named, !.flags = spare]
       [] b[2] # \hFF /\ b[5] = 8 -> [here EXCEPT !.flags = spare]
       [] OTHER -> [Header(named[1], named[2], b[4]) EXCEPT !.flags = spare]

Att3b2Header(b) ==
  [Header(b[2] + 256 * (255 - b[1]), b[3], b[4]) EXCEPT !.flags = BadHeader(Cut(b[1], 4, 4) # \hF)]

\* ISBC_215 with the id 19, SM_1810 and DSD_5217 with FE.
Isbc215Header(b, id) ==
  [Header(256 * (b[2] % 16) + b[3], b[5], b[4]) EXCEPT
     !.size = 128 * 2 ^ Cut(b[2], 4, 2), !.flags = BadHeader(b[1] # id)]

ConvergentHeader(b) ==
  [Header(256 * (b[2] % 16) + b[3], Cut(b[2], 4, 4), b[4]) EXCEPT !.flags = BadHeader(b[1] # \hFE)]

ISBC_214 == {"CONTROLLER_ISBC_214_128B", "CONTROLLER_ISBC_214_256B", "CONTROLLER_ISBC_214_512B",
             "CONTROLLER_ISBC_214_1024B", "CONTROLLER_MICROBEE_WD1002_05"}
ISBC_215 == {"CONTROLLER_ISBC_215_128B", "CONTROLLER_ISBC_215_256B", "CONTROLLER_ISBC_215_512B",
             "CONTROLLER_ISBC_215_1024B"}

wd_header(dp, b, exp, sector_index) ==
  LET c == dp.controller
  IN CASE c \in {"CONTROLLER_OMTI_5510", "CONTROLLER_OMTI_5200_18SECTOR_512B"} -> OmtiHeader(b)
       [] c = "CONTROLLER_SHUGART_SA1400" -> Sa1400Header(b)
       [] c = "CONTROLLER_MYARC_HFDC" -> MyarcHeader(dp, b)
       [] c = "CONTROLLER_SHUGART_1610" -> Shugart1610Header(b, exp)
       [] c = "CONTROLLER_MVME320" -> Mvme320Header(b)
       [] c \in {"CONTROLLER_HP9133XV", "CONTROLLER_TANDY_16B", "CONTROLLER_CORVUS_OMNI",
                 "CONTROLLER_WD_3B1"} -> Wd1006Header(dp, b)
       [] c \in ISBC_214 -> Isbc214Header(b)
       [] c = "CONTROLLER_TEKTRONIX_6130" -> TektronixHeader(b)
       [] c = "CONTROLLER_ELEKTRONIKA_85" -> ElektronikaHeader(b)
       [] c \in {"CONTROLLER_DTC", "CONTROLLER_DTC_520_256B", "CONTROLLER_DTC_520_512B"} -> DtcHeader(dp, b)
       [] c \in {"CONTROLLER_CTM9016", "CONTROLLER_FUJITSU_K_10R", "CONTROLLER_ACORN_A310_PODULE"} ->
            MacbottomHeader(b)
       [] c = "CONTROLLER_ADAPTEC_4000_18SECTOR_512B" -> AdaptecHeader(b, exp, sector_index)
       [] c = "CONTROLLER_SYMBOLICS_3640" -> Symbolics3640Header(b)
       [] c = "CONTROLLER_SEAGATE_ST11M" -> SeagateHeader(b, exp)
       [] c \in {"CONTROLLER_ATT_3B2", "CONTROLLER_ATT_3B2_17sector"} -> Att3b2Header(b)
       [] c \in ISBC_215 -> Isbc215Header(b, \h19)
       [] c \in {"CONTROLLER_SM_1810_512B", "CONTROLLER_DSD_5217_512B"} -> Isbc215Header(b, \hFE)
       [] c = "CONTROLLER_CONVERGENT_AWS" -> ConvergentHeader(b)

----------------------------------------------------------------------------
(* The headers of the other decoders. *)

XEBEC == {"CONTROLLER_XEBEC_104527_256B", "CONTROLLER_XEBEC_104527_512B",
          "CONTROLLER_XEBEC_104527_C0_256B", "CONTROLLER_EC1841"}
CORVUS == {"CONTROLLER_CORVUS_H", "CONTROLLER_CROMEMCO", "CONTROLLER_SAGA_FOX", "CONTROLLER_IMS_A820"}
NORTHSTAR == {"CONTROLLER_NORTHSTAR_ADVANTAGE", "CONTROLLER_ND100_3041"}
TAGGED == {"CONTROLLER_XEROX_8010"}
PERQ == {"CONTROLLER_PERQ_T2"}

xebec_header(b) ==
  [Header(256 * b[3] + b[4], b[5] % 16, b[6]) EXCEPT
     !.flags = SpareBad(Cut(b[7], 1, 1) = 1)
               \cup BadHeader(Cut(b[5], 4, 3) # 0 \/ b[2] # \hC2
                              \/ Cut(b[7], 5, 3) # 4 \/ Cut(b[7], 3, 1) # 0)]

corvus_header(c, b) ==
  CASE c = "CONTROLLER_CORVUS_H" -> Header(b[1] + 256 * b[2], b[0] \div 32, b[0] % 32)
    [] c = "CONTROLLER_CROMEMCO" -> Header(b[6] + 256 * b[7], b[8], 0)
    [] c = "CONTROLLER_IMS_A820" -> Header(b[0] + 256 * b[1], b[2], b[3])
    [] c = "CONTROLLER_SAGA_FOX" ->
         [Header(b[1] + 256 * b[2], b[3], b[4]) EXCEPT !.flags = BadHeader(b[0] # \hF0)]

northstar_header(c, b) ==
  IF c = "CONTROLLER_NORTHSTAR_ADVANTAGE"
  THEN Header(b[1] + 256 * Cut(b[0], 4, 4), b[2] % 16, b[0] % 16)
  ELSE [Header(8 * b[2] + Cut(b[3], 5, 3), b[1] % 16, b[3] % 32) EXCEPT !.flags = BadHeader(b[0] # 0)]

\* ND100: a header of zeros that is not that of track 0 is passed over.
BlankHeader(dp, b, exp) ==
  /\ dp.controller = "CONTROLLER_ND100_3041"
  /\ exp.cyl # 0 \/ exp.head # 0
  /\ b[1] = 0 /\ b[2] = 0 /\ b[3] = 0

tagged_header(b) ==
  [Header(b[3] + 256 * (b[2] % 16), b[4], b[5]) EXCEPT !.flags = BadHeader(b[1] # \h41)]

perq_header(b) ==
  [Header(REV_BYTE(b[0]) + 256 * Cut(REV_BYTE(b[1]), 4, 4), REV_BYTE(b[1]) % 16, REV_BYTE(b[2])) EXCEPT
     !.flags = BadHeader(b[3] # 0)]

DecodedHeader(dp, b, exp, sector_index) ==
  LET c == dp.controller
  IN CASE c \in XEBEC -> xebec_header(b)
       [] c \in CORVUS -> corvus_header(c, b)
       [] c \in NORTHSTAR -> northstar_header(c, b)
       [] c \in TAGGED -> tagged_header(b)
       [] c \in PERQ -> perq_header(b)
       [] OTHER -> wd_header(dp, b, exp, sector_index)

----------------------------------------------------------------------------
(* mfm_process_bytes() and the state changes of the *_process_data().         *)

\* xebec_process_data() notes which sector each header's data belongs to; the
\* list is emptied at the first header of a track.
NoteRemap(dp, r, sector) ==
  LET s == sector - dp.first_sector_number
      first == IF r.sector_index = 0 THEN s ELSE r.first_sector
      list == IF r.sector_index = 0 THEN <<>> ELSE r.remap_list
      previous == IF r.sector_index = 0 THEN list ELSE Stored(list, s, r.last_sector)
  IN [r EXCEPT !.first_sector = first, !.last_sector = s,
               !.remap_list = IF dp.xebec_skew THEN Stored(previous, first, s) ELSE list]

\* The state after a header: where the data of the sector is looked for.
AfterHeader(dp) ==
  LET c == dp.controller
  IN CASE c = "CONTROLLER_SYMBOLICS_3640" \/ c \in TAGGED -> "MARK_DATA1"
       [] c = "CONTROLLER_NORTHSTAR_ADVANTAGE" \/ c \in XEBEC -> "DATA_SYNC"
       [] c = "CONTROLLER_ND100_3041" -> "DATA_SYNC2"
       [] c \in PERQ -> "HEADER_SYNC2"
       [] c \in CORVUS \ {"CONTROLLER_SAGA_FOX"} -> "MARK_ID"
       [] OTHER -> "MARK_DATA"

\* The image's data in these bytes, if that is what they hold.  SA1400 data is
\* stored inverted; SYMBOLICS_3640, PERQ_T2 and SAGA_FOX bytes reversed.
Content(dp, p, kind, at, len) ==
  LET inverted == dp.controller = "CONTROLLER_SHUGART_SA1400"
      reversed == dp.controller \in {"CONTROLLER_SYMBOLICS_3640", "CONTROLLER_SAGA_FOX"} \cup PERQ
      held == {g \in p.regions : /\ g.kind = kind /\ g.at = at /\ g.len = len
                                 /\ g.mask = IF inverted THEN \hFF ELSE 0
                                 /\ g.reversed = reversed}
  IN IF held = {} THEN -1 ELSE (CHOOSE g \in held : TRUE).block

\* Every decoder's last lines: write the sector unless its header is bad.
WriteSector(dp, r, p, at) ==
  LET s == r.sector_status
  IN CASE s.status \cap {"SECT_BAD_HEADER", "SECT_BAD_SECTOR_NUMBER"} # {} -> r
       [] s.ignore -> r
       [] ~ s.ignore /\ ~ Writable(dp, s) -> [r EXCEPT !.sector_status = Mark(s, {"SECT_BAD_HEADER"})]
       [] OTHER -> mfm_write_sector(dp, r, Content(dp, p, "SECTOR_DATA", at, dp.sector_size))

\* The sector_status of a header h, before its values are checked.
HeaderStatus(dp, h, exp, ambiguous) ==
  [NoSector EXCEPT
     !.cyl = h.cyl, !.sector = h.sector, !.ignore = h.ignore,
     !.head = IF dp.controller = "CONTROLLER_IMS_A820" THEN h.head ELSE mfm_fix_head(dp, exp.head, h.head),
     !.is_lba = h.lba # -1, !.lba_addr = IF h.lba = -1 THEN 0 ELSE h.lba,
     !.status = {"SECT_HEADER_FOUND"} \cup h.flags \cup Flag(ambiguous, "SECT_AMBIGUOUS_CRC")]

TakeHeader(dp, r, h, s, exp) ==
  LET named == IF h.alternate = <<>> THEN r
               ELSE mfm_handle_alt_track_ch(dp, r, <<exp.cyl, exp.head>>, h.alternate)
      noted == IF dp.controller \in XEBEC THEN NoteRemap(dp, named, h.sector) ELSE named
      size == IF h.size = 0 THEN dp.sector_size ELSE h.size
  IN [mfm_check_header_values(dp, [noted EXCEPT !.sector_status = s], size, exp.cyl, exp.head) EXCEPT
        !.state = AfterHeader(dp)]

\* Where a header has no data of its own the data of its sector comes with it.
HeaderRead(dp, r, p, base, length, exp, h) ==
  LET s == HeaderStatus(dp, h, exp, Ambiguous(dp, p, base, length))
  IN CASE BlankHeader(dp, Bytes(dp, p, base), exp) ->
            [r EXCEPT !.sector_status = s, !.state = "HEADER_SYNC"]
       [] OTHER ->
            IF Info(dp).separate_data THEN TakeHeader(dp, r, h, s, exp)
            ELSE WriteSector(dp, TakeHeader(dp, r, h, s, exp), p, base + Info(dp).data_header_bytes)

ProcessHeader(dp, r, p, base, length, exp) ==
  IF mfm_crc_bytes(dp, p, TRUE, base, length)
  THEN HeaderRead(dp, r, p, base, length, exp,
                  DecodedHeader(dp, Bytes(dp, p, base), exp, r.sector_index))
  ELSE [r EXCEPT !.state = "MARK_ID"]

\* PROCESS_HEADER2: the metadata of the sector, written even with a bad check.
ProcessHeader2(dp, r, p, base, length) ==
  LET tagged == dp.controller \in TAGGED
      s == MarkIf(tagged /\ Byte(p, base + 1) # \h43,
                  MarkIf(~ mfm_crc_bytes(dp, p, FALSE, base, length), r.sector_status, {"SECT_BAD_DATA"}),
                  {"SECT_BAD_HEADER"})
      after == [r EXCEPT !.sector_status = s, !.state = IF tagged THEN "MARK_DATA" ELSE "DATA_SYNC"]
      at == IF tagged THEN base + 2 ELSE base
  IN IF "SECT_BAD_HEADER" \in s.status THEN after
     ELSE mfm_write_metadata(dp, after,
            Content(dp, p, "SECTOR_METADATA", at, Info(dp).metadata_bytes))

\* The byte that tells data from a header, where the format has one.
DataIds(dp) ==
  LET c == dp.controller
  IN CASE c \in {"CONTROLLER_MYARC_HFDC", "CONTROLLER_DSD_5217_512B"} -> {\hF8, \hFB}
       [] c = "CONTROLLER_MVME320" -> {\hFB}
       [] c = "CONTROLLER_ELEKTRONIKA_85" -> {\h80}
       [] c \in ISBC_215 -> {\h19, \hD9}
       [] c = "CONTROLLER_SYMBOLICS_3640" -> {REV_BYTE(\hF0)}
       [] c \in TAGGED -> {\h43}
       [] c \in {"CONTROLLER_EC1841", "CONTROLLER_XEBEC_104527_C0_256B"} -> {0}
       [] c \in XEBEC \ {"CONTROLLER_EC1841", "CONTROLLER_XEBEC_104527_C0_256B"} -> {\hC9}
       [] c \in CORVUS \cup NORTHSTAR \cup PERQ -> 0 .. 255
       [] OTHER -> {\hF8}

ProcessData(dp, r, p, base, length, forced) ==
  LET good == /\ ~ forced
              /\ mfm_crc_bytes(dp, p, FALSE, base, length)
              /\ Byte(p, base + 1) \in DataIds(dp)
      read == [r EXCEPT !.sector_status = MarkIf(~ good, @, {"SECT_BAD_DATA"}), !.state = "MARK_ID"]
  IN WriteSector(dp, read, p, base + Info(dp).data_header_bytes)

----------------------------------------------------------------------------
(* The *_decode_track(): where in the part t, p of the track a decoder finds  *)
(* what its state looks for.  The result is the byte of the part its bytes    *)
(* start at, NotFound if it passes the part by.  "resume" is the byte of the  *)
(* track at which it started to look, after the bytes it processed last.      *)

NotFound == -100

\* A byte of a track is 16 raw bits.  The hard sectored formats look for the
\* next header only after a time, here in clocks of 200 MHz from the index.
ClocksOf(dp, bytes) == IF dp.controller = "CONTROLLER_CORVUS_H" THEN (bytes * 3200) \div 11 ELSE bytes * 320
BytesOf(dp, clocks) == IF dp.controller = "CONTROLLER_CORVUS_H" THEN (clocks * 11) \div 3200 ELSE clocks \div 320
FirstHeaderTime(dp) ==
  CASE dp.controller = "CONTROLLER_CORVUS_H" -> 71500 - (312000 \div 5)
    [] dp.controller = "CONTROLLER_CROMEMCO" -> 32000 - (6000 \div 5)
    [] dp.controller = "CONTROLLER_SAGA_FOX" -> 91000 - (330000 \div 5)
    [] dp.controller = "CONTROLLER_IMS_A820" -> 98100 - (485000 \div 5)
    [] dp.controller = "CONTROLLER_NORTHSTAR_ADVANTAGE" -> 74000 - (230000 \div 5)
    [] dp.controller = "CONTROLLER_ND100_3041" -> 4230
    [] dp.controller = "CONTROLLER_PERQ_T2" -> 195000 - (754000 \div 5)
    [] OTHER -> 0
NextHeaderTime(dp, r, sync, end) ==
  LET c == dp.controller
      time(byte) == ClocksOf(dp, byte)
  IN CASE c = "CONTROLLER_CORVUS_H" -> r.next_header_time + 164900
       [] c = "CONTROLLER_SAGA_FOX" -> time(sync) + (IF r.state = "MARK_ID" THEN 4000 ELSE 82000)
       [] c = "CONTROLLER_IMS_A820" -> time(sync) + 178300
       [] c = "CONTROLLER_NORTHSTAR_ADVANTAGE" -> time(end) + 55 * 8 * 40
       [] c = "CONTROLLER_ND100_3041" -> time(end) + 20 * 40
       [] c \in PERQ -> time(sync) + 170000
       [] OTHER -> r.next_header_time

Later(a, b) == IF a > b THEN a ELSE b
ListenFrom(dp, r) == Later(r.resume, BytesOf(dp, r.next_header_time) + 1)

\* The zeros right before the part, and how many of them are after a byte.
ZeroRun(t) == IF t.gaps # <<>> /\ t.gaps[Len(t.gaps)][2] = 0 THEN t.gaps[Len(t.gaps)][1] ELSE 0
ZerosAfter(t, byte) == ZeroRun(t) - Later(0, byte - (t.at - ZeroRun(t)))

FirstOne(p, from) ==
  LET ones == {o \in p.ones : o >= from}
  IN IF ones = {} THEN NotFound ELSE CHOOSE o \in ones : \A q \in ones : o <= q
\* The byte that starts "bits" bits after the one at o, if a byte starts there.
ByteAfter(o, bits) ==
  IF o = NotFound \/ (o + bits) % 8 # 0 THEN NotFound ELSE (o + bits) \div 8

\* wd and tagged: a sync mark after zeros.  "raw_word" must hold 16 zeros twice.
MARK_NUM_ZEROS == 2
mark_sync(r, t, p) ==
  IF <<0, "4489">> \in p.marks /\ 8 * ZeroRun(t) >= 16 + MARK_NUM_ZEROS /\ 8 * ZerosAfter(t, r.resume) >= MARK_NUM_ZEROS
  THEN 0 ELSE NotFound

\* "The 3640 doesn't have a 0xa1 data header, search for its special sync"
symbolics_sync(r, t, p) ==
  LET one == FirstOne(p, 0)
  IN IF 16 * (t.at - r.header_at - 1) + 2 * one > 530 /\ ZerosAfter(t, r.resume) >= 0
     THEN ByteAfter(one, -12) ELSE NotFound

wd_sync(dp, r, t, p) ==
  IF r.state = "MARK_DATA1" /\ dp.controller = "CONTROLLER_SYMBOLICS_3640"
  THEN symbolics_sync(r, t, p) ELSE mark_sync(r, t, p)

\* xebec: the id and more than 50 transitions before the next one bit.
xebec_sync(dp, r, t, p) ==
  LET id == \E m \in p.marks : m[2] = "4489"
      num_zero == IF dp.controller = "CONTROLLER_EC1841" THEN 0 ELSE 8
      zeros == num_zero = 0 \/ (8 * ZeroRun(t) >= 16 + num_zero /\ 8 * ZerosAfter(t, r.resume) >= num_zero)
      header == FirstOne(p, 40)
      data == FirstOne(p, 0)
  IN CASE r.state = "MARK_ID" /\ id /\ zeros /\ header - 40 > 50 -> ByteAfter(header, 1)
       [] r.state = "DATA_SYNC" /\ 8 * ZerosAfter(t, r.resume) + data > 50 -> ByteAfter(data, 1)
       [] OTHER -> NotFound

\* corvus, northstar and perq count transitions that may be those of zeros or of
\* ones, once next_header_time has passed.  The gap in which they count enough:
SyncGap(t, listen, count) ==
  LET n == Len(t.gaps)
      End(k) == t.at - FoldFunctionOnSet(+, 0, [i \in 1 .. n |-> t.gaps[i][1]], k + 1 .. n)
      long == {k \in 1 .. n : /\ t.gaps[k][2] \in {0, \hFF}
                              /\ 8 * (End(k) - Later(listen, End(k) - t.gaps[k][1])) >= 16 + count}
  IN IF long = {} THEN 0 ELSE CHOOSE k \in long : \A j \in long : k <= j

\* And the one bit after it, the last bit of a gap of 01 or the part's first.
SyncBit(t, p, listen, count) ==
  LET gap == SyncGap(t, listen, count)
  IN CASE gap # 0 /\ gap = Len(t.gaps) -> FirstOne(p, 0)
       [] gap # 0 /\ gap = Len(t.gaps) - 1 /\ t.gaps[Len(t.gaps)] = <<1, 1>> -> -1
       [] OTHER -> NotFound

SYNC_ZEROS == 30
corvus_sync(dp, r, t, p) ==
  LET c == dp.controller
      bit == SyncBit(t, p, ListenFrom(dp, r), IF c = "CONTROLLER_SAGA_FOX" THEN 20 ELSE SYNC_ZEROS)
  IN CASE c = "CONTROLLER_CORVUS_H" -> ByteAfter(bit, 2)
       [] c = "CONTROLLER_CROMEMCO" -> ByteAfter(bit, -5)
       [] c = "CONTROLLER_SAGA_FOX" -> ByteAfter(bit, -4)
       [] c = "CONTROLLER_IMS_A820" -> ByteAfter(bit, 1)

northstar_sync(dp, r, t, p) ==
  CASE r.state \in {"MARK_ID", "HEADER_SYNC"} -> ByteAfter(SyncBit(t, p, ListenFrom(dp, r), SYNC_ZEROS), 1)
    [] r.state = "DATA_SYNC" -> r.resume - t.at
    [] r.state = "DATA_SYNC2" -> ByteAfter(SyncBit(t, p, r.resume, 20), 1)

perq_sync(dp, r, t, p) ==
  LET first == FirstOne(p, 8)
      synced == ByteAfter(first, 4)
  IN IF Byte(p, first \div 8) # \h0F THEN NotFound
     ELSE CASE r.state = "MARK_ID" /\ <<0, "12aa">> \in p.marks /\ first - 8 > 20
                 /\ SyncGap(t, ListenFrom(dp, r), SYNC_ZEROS) = Len(t.gaps) -> synced
            [] r.state # "MARK_ID" /\ p.marks = {} /\ 8 * ZerosAfter(t, r.resume) + first > 20 -> synced
            [] OTHER -> NotFound

FindSync(dp, r, t, p) ==
  LET c == dp.controller
  IN CASE c \in XEBEC -> xebec_sync(dp, r, t, p)
       [] c \in CORVUS -> corvus_sync(dp, r, t, p)
       [] c \in NORTHSTAR -> northstar_sync(dp, r, t, p)
       [] c \in PERQ -> perq_sync(dp, r, t, p)
       [] OTHER -> wd_sync(dp, r, t, p)

\* What is processed next in a state.
Processes(dp, state) ==
  CASE state \in {"MARK_ID", "HEADER_SYNC"} -> "PROCESS_HEADER"
    [] state = "HEADER_SYNC2" \/ (state = "MARK_DATA1" /\ dp.controller \in TAGGED) -> "PROCESS_HEADER2"
    [] OTHER -> "PROCESS_DATA"

\* bytes_crc_len, and the bytes read before they are processed.
BytesCrcLen(dp, state) ==
  LET info == Info(dp)
      what == Processes(dp, state)
      data == info.data_trailer_bytes + dp.sector_size
  IN CASE what = "PROCESS_HEADER" ->
            info.header_bytes + (IF info.separate_data THEN 0 ELSE data) + info.header_crc[3] \div 8
       [] what = "PROCESS_HEADER2" ->
            (IF dp.controller \in TAGGED THEN 2 ELSE 0) + info.metadata_bytes + info.header_crc[3] \div 8
       [] what = "PROCESS_DATA" -> info.data_header_bytes + data + info.data_crc[3] \div 8

BytesNeeded(dp, state) ==
  LET c == dp.controller
      header == Processes(dp, state) = "PROCESS_HEADER"
  IN BytesCrcLen(dp, state) +
     CASE c \in XEBEC -> IF header THEN 0 ELSE IF c = "CONTROLLER_XEBEC_104527_C0_256B" THEN 1 ELSE 8
       [] c \in NORTHSTAR -> IF header THEN 0 ELSE 2
       [] c \in CORVUS \cup PERQ -> 2
       [] c = "CONTROLLER_DSD_5217_512B" /\ header -> 5
       [] OTHER -> 10

\* wd_decode_track(): "Ignored data too far from header"
TooFar(dp, r, at) ==
  /\ dp.controller \notin XEBEC \cup CORVUS \cup NORTHSTAR \cup PERQ \cup TAGGED
  /\ 16 * (at - r.header_at) > BytesNeeded(dp, "MARK_ID") * 7 * 8
=============================================================================
