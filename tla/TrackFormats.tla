---------------------------- MODULE TrackFormats ----------------------------
(***************************************************************************)
(* The tables of mfm/inc/mfm_decoder.h that tell ext2emu how a track of    *)
(* each controller is laid out (TRK_L, FIELD_L and BIT_L) and what the     *)
(* reader of the same format expects (CONTROLLER).                         *)
(*                                                                         *)
(* A track is a sequence of entries: Gap repeats a byte, Sub repeats a     *)
(* list of entries, and Part is a piece of a sector made of fields.  The   *)
(* byte at offset "at" of a field counts from the start of its part; a bit *)
(* list is a sequence of <<first bit, number of bits>>, most significant   *)
(* bit of the value first, and -2 discards bits.                           *)
(***************************************************************************)
EXTENDS Integers, Sequences

Gap(count, value) == [type |-> "TRK_FILL", count |-> count, value |-> value]
Sub(count, list) == [type |-> "TRK_SUB", count |-> count, list |-> list]
Part(count, fields) == [type |-> "TRK_FIELD", count |-> count, list |-> fields]

Field(type, op, len, value, at) ==
  [type |-> type, op |-> op, len |-> len, value |-> value, at |-> at, bits |-> <<>>]
Bits(type, op, len, bits) == [Field(type, op, 0, 0, len) EXCEPT !.bits = bits]

A1(at) == Field("A1", "SET", 1, \hA1, at)
Special(value, at) == Field("SPECIAL", "SET", 1, value, at)
XebecId(at) == Field("XEBEC_ID", "SET", 5, \hA1, at)
Fill(len, value, at) == Field("FILL", "SET", len, value, at)
FillLastXor(len, value, at) == Field("FILL_LAST_SECTOR", "XOR", len, value, at)
Put(type, len, at) == Field(type, "SET", len, 0, at)
PutXor(type, len, at) == Field(type, "XOR", len, 0, at)
PutRev(type, len, at) == Field(type, "REVERSE", len, 0, at)
PutRevXor(type, len, at) == Field(type, "REVERSE_XOR", len, 0, at)
HdrCrc(len, at) == Put("HDR_CRC", len, at)
HdrCrcXor(len, at) == PutXor("HDR_CRC", len, at)
DataCrc(len, at) == Put("DATA_CRC", len, at)
DataCrcXor(len, at) == PutXor("DATA_CRC", len, at)
CrcStart(at) == Put("MARK_CRC_START", 0, at)
CrcEnd(at) == Put("MARK_CRC_END", 0, at)
Data(len, at) == Put("SECTOR_DATA", len, at)
DataXor(len, at) == PutXor("SECTOR_DATA", len, at)
DataRev(len, at) == PutRev("SECTOR_DATA", len, at)
Metadata(len, at) == Put("SECTOR_METADATA", len, at)
MetadataRev(len, at) == PutRev("SECTOR_METADATA", len, at)
NextSector == Put("NEXT_SECTOR", 0, 0)

\* The sector header most WD-like controllers share: A1, FE exclusive-ored with
\* three bits of the cylinder, its low byte, flags and head, and the sector.
WdHeader(flags) ==
  Part(7, <<A1(0), Fill(1, \hFE, 1), Bits("CYL", "XOR", 11, <<<<12, 1>>, <<14, 10>>>>), Fill(1, flags, 3),
      PutXor("HEAD", 1, 3), Put("SECTOR", 1, 4), HdrCrc(2, 5)>>)
\* Their data area, with the check over everything or from the data on.
DataPart(id, size, crc) ==
  Part(size + 2 + crc, <<A1(0), Fill(1, id, 1), Data(size, 2), DataCrc(crc, size + 2), NextSector>>)
DataPartFrom2(id, size, crc) ==
  Part(size + 2 + crc, <<A1(0), Fill(1, id, 1), CrcStart(2), Data(size, 2), DataCrc(crc, size + 2), NextSector>>)

----------------------------------------------------------------------------
(* The layouts. *)

trk_3B1 ==
  <<Gap(45, \h4E),
    Sub(17, <<Gap(15, 0), WdHeader(\h20), Gap(15, 0), DataPart(\hF8, 512, 2), Gap(3, 0), Gap(38, \h4E)>>),
    Gap(275, \h4E)>>

trk_tandy_16b ==
  <<Gap(34, \h4E),
    Sub(17, <<Gap(14, 0), WdHeader(\h20), Gap(15, 0), DataPart(\hF8, 512, 2), Gap(3, 0), Gap(33, \h4E)>>),
    Gap(388, \h4E)>>

trk_corvus_omni ==
  <<Gap(48, \h4E),
    Sub(18, <<Gap(11, 0), WdHeader(\h20), Gap(15, 0), DataPart(\hF8, 512, 2), Gap(3, 0), Gap(17, \h4E)>>),
    Gap(388, \h4E)>>

trk_ISBC214_128b ==
  <<Gap(15, \h4E),
    Sub(54, <<Gap(14, 0), WdHeader(\h60), Gap(15, 0), DataPart(\hF8, 128, 4), Gap(3, 0), Gap(15, \h4E)>>),
    Gap(251, \h4E)>>

trk_HP9133XV ==
  <<Gap(15, \h4E),
    Sub(31, <<Gap(14, 0), WdHeader(0), Gap(16, 0), DataPart(\hF8, 256, 2), Gap(3, 0), Gap(18, \h4E)>>),
    Gap(14, 0),
    Part(7, <<A1(0), Fill(1, \hFE, 1), Bits("CYL", "XOR", 11, <<<<12, 1>>, <<14, 10>>>>), Fill(1, 0, 3),
        PutXor("HEAD", 1, 3), Fill(1, \hFF, 4), HdrCrc(2, 5)>>),
    Gap(16, 0),
    Part(260, <<A1(0), Fill(1, \hF8, 1), Fill(256, \hFF, 2), DataCrc(2, 258), NextSector>>),
    Gap(3, 0), Gap(18, \h4E), Gap(227, \h4E)>>

trk_ISBC214_256b ==
  <<Gap(15, \h4E),
    Sub(32, <<Gap(14, 0), WdHeader(0), Gap(15, 0), DataPart(\hF8, 256, 4), Gap(3, 0), Gap(15, \h4E)>>),
    Gap(291, \h4E)>>

trk_ISBC214_512B ==
  <<Gap(38, \h4E),
    Sub(17, <<Gap(14, 0), WdHeader(\h20), Gap(15, 0), DataPart(\hF8, 512, 4), Gap(3, 0), Gap(38, \h4E)>>),
    Gap(265, \h4E)>>

trk_ISBC214_1024b ==
  <<Gap(54, \h4E),
    Sub(9, <<Gap(14, 0), WdHeader(\h40), Gap(15, 0), DataPart(\hF8, 1024, 4), Gap(3, 0), Gap(54, \h4E)>>),
    Gap(257, \h4E)>>

trk_ISBC215_128b ==
  <<Gap(15, \h4E),
    Sub(54, <<Gap(13, 0),
        Part(10, <<A1(0), Fill(1, \h19, 1), CrcStart(2), Fill(1, 0, 2),
            Bits("CYL", "XOR", 12, <<<<20, 4>>, <<24, 8>>>>), Put("SECTOR", 1, 4), Put("HEAD", 1, 5),
            HdrCrc(4, 6)>>),
        Gap(15, 0), DataPartFrom2(\hD9, 128, 4), Gap(3, 0), Gap(13, \h4E)>>),
    Gap(251, \h4E)>>

trk_ISBC215_256b ==
  <<Gap(15, \h4E),
    Sub(31, <<Gap(14, 0),
        Part(10, <<A1(0), Fill(1, \h19, 1), CrcStart(2), Fill(1, \h10, 2),
            Bits("CYL", "XOR", 12, <<<<20, 4>>, <<24, 8>>>>), Put("SECTOR", 1, 4), Put("HEAD", 1, 5),
            HdrCrc(4, 6)>>),
        Gap(15, 0), DataPartFrom2(\hD9, 256, 4), Gap(3, 0), Gap(17, \h4E)>>),
    Gap(452, \h4E)>>

trk_ISBC215_512B ==
  <<Gap(38, \h4E),
    Sub(17, <<Gap(13, 0),
        Part(10, <<A1(0), Fill(1, \h19, 1), CrcStart(2), Fill(1, \h20, 2),
            Bits("CYL", "XOR", 12, <<<<20, 4>>, <<24, 8>>>>), Put("SECTOR", 1, 4), Put("HEAD", 1, 5),
            HdrCrc(4, 6)>>),
        Gap(15, 0), DataPartFrom2(\hD9, 512, 4), Gap(3, 0), Gap(36, \h4E)>>),
    Gap(265, \h4E)>>

trk_ISBC215_1024b ==
  <<Gap(15, 0),
    Sub(9, <<Gap(15, 0),
        Part(10, <<A1(0), Fill(1, \h19, 1), CrcStart(2), Fill(1, \h30, 2),
            Bits("CYL", "XOR", 12, <<<<20, 4>>, <<24, 8>>>>), Put("SECTOR", 1, 4), Put("HEAD", 1, 5),
            HdrCrc(4, 6)>>),
        Gap(3, 0), Gap(5, \h4E), Gap(12, 0), DataPartFrom2(\hD9, 1024, 4), Gap(65, \h4E)>>),
    Gap(143, \h4E)>>

trk_tektronix_6130 ==
  <<Gap(38, \h4E),
    Sub(17, <<Gap(14, 0),
        Part(7, <<A1(0), Fill(1, \hFE, 1), Bits("CYL", "XOR", 11, <<<<12, 1>>, <<14, 10>>>>), Fill(1, \h20, 3),
            Bits("HEAD", "XOR", 4, <<<<-2, 1>>, <<29, 3>>>>), Put("SECTOR", 1, 4),
            Bits("HEAD", "XOR", 4, <<<<33, 1>>, <<-2, 3>>>>), HdrCrc(2, 5)>>),
        Gap(15, 0), DataPart(\hF8, 512, 4), Gap(3, 0), Gap(38, \h4E)>>),
    Gap(265, \h4E)>>

trk_convergent_aws ==
  <<Gap(15, 0),
    Sub(32, <<Gap(14, 0),
        Part(7, <<A1(0), Fill(1, \hFE, 1), Fill(1, 0, 2), Bits("HEAD", "XOR", 4, <<<<16, 4>>>>),
            Bits("CYL", "XOR", 12, <<<<20, 4>>, <<24, 8>>>>), Put("SECTOR", 1, 4), HdrCrc(2, 5)>>),
        Gap(19, 0), DataPart(\hF8, 256, 2), Gap(19, 0)>>),
    Gap(195, 0)>>

trk_ELEKTROKIKA_85 ==
  <<Gap(2, 0),
    Sub(16, <<Gap(13, 0),
        Part(7, <<A1(0), Fill(1, \hFE, 1), Bits("CYL", "XOR", 11, <<<<12, 1>>, <<14, 10>>>>), Put("HEAD", 1, 3),
            Put("SECTOR", 1, 4), HdrCrc(2, 5)>>),
        Gap(15, 0),
        Part(532, <<A1(0), Fill(1, \h80, 1), Data(512, 2), Fill(16, 0, 514), DataCrc(2, 530), NextSector>>),
        Gap(2, 0), Gap(40, \h55)>>),
    Gap(672, \h55)>>

trk_sm_1810 ==
  <<Gap(15, \h4E),
    Sub(16, <<Gap(12, 0),
        Part(10, <<A1(0), Fill(1, \hFE, 1), CrcStart(2), Fill(1, \h20, 2),
            Bits("CYL", "XOR", 12, <<<<20, 4>>, <<24, 8>>>>), Put("SECTOR", 1, 4), Put("HEAD", 1, 5),
            HdrCrc(4, 6)>>),
        Gap(16, 0), DataPartFrom2(\hF8, 512, 4), Gap(4, 0), Gap(24, \h4E)>>),
    Gap(1059, \h4E)>>

trk_DSD_5217_512B ==
  <<Gap(7, \h4E),
    Sub(17, <<Gap(12, 0),
        Part(10, <<A1(0), Fill(1, \hFE, 1), Fill(1, \h20, 2), Bits("CYL", "XOR", 12, <<<<20, 4>>, <<24, 8>>>>),
            Put("SECTOR", 1, 4), Put("HEAD", 1, 5), HdrCrc(4, 6)>>),
        Gap(3, \h4E), Gap(6, 0), DataPart(\hFB, 512, 4), Gap(44, \h4E)>>),
    Gap(330, \h4E)>>

trk_omti_5510 ==
  <<Gap(11, \h4E),
    Sub(17, <<Gap(12, 0),
        Part(10, <<A1(0), Fill(1, \hFE, 1), Put("CYL", 2, 2), Put("HEAD", 1, 4), Put("SECTOR", 1, 5), HdrCrc(4, 6)>>),
        Gap(14, 0), DataPart(\hF8, 512, 4), Gap(2, 0), Gap(14, \h4E)>>),
    Gap(717, \h4E)>>

trk_omti_5200_18sector_512B ==
  <<Gap(11, \h4E),
    Sub(18, <<Gap(12, 0),
        Part(10, <<A1(0), Fill(1, \hFE, 1), Put("CYL", 2, 2), Put("HEAD", 1, 4), Put("SECTOR", 1, 5), HdrCrc(4, 6)>>),
        Gap(14, 0), DataPart(\hF8, 512, 4), Gap(2, 0), Gap(14, \h4E)>>),
    Gap(147, \h4E)>>

trk_mvme320 ==
  <<Gap(20, \h4E),
    Sub(32, <<Gap(12, 0),
        Part(9, <<A1(0), Fill(1, \hFE, 1), Put("CYL", 2, 2), Put("HEAD", 1, 4), Put("SECTOR", 1, 5), Fill(1, 1, 6),
            HdrCrc(2, 7)>>),
        Gap(4, \h4E), Gap(12, 0), DataPart(\hFB, 256, 4), Gap(15, \h4E)>>),
    Gap(350, \h4E)>>

trk_symbolics_3640 ==
  <<Sub(8, <<Gap(47, 0),
        Part(11, <<A1(0), Fill(1, \h5A, 1), Fill(1, \h96, 2), Fill(1, \h0E, 3), Fill(1, \h0E, 4), Fill(1, \h9E, 5),
            Fill(1, 1, 6), Bits("SECTOR", "REVERSE", 3, <<<<56, 3>>>>),
            Bits("HEAD", "REVERSE", 4, <<<<62, 4>>>>), Bits("CYL", "REVERSE", 12, <<<<68, 12>>>>), HdrCrc(1, 10)>>),
        Gap(25, 0),
        Part(1165, <<Fill(1, \h0F, 0), CrcStart(1), DataRev(1160, 1), DataCrc(4, 1161), NextSector>>),
        Gap(49, 0)>>),
    Gap(42, \h4E)>>

trk_northstar ==
  <<Gap(69, \hFF), Gap(3, \h55), Gap(8, \hFF),
    Sub(16, <<Gap(67, 0), Gap(1, 1),
        Part(525, <<Put("SECTOR", 1, 0), Bits("CYL", "SET", 12, <<<<0, 4>>, <<8, 8>>>>), Put("HEAD", 1, 2),
            Fill(4, 0, 3), Fill(1, \hFF, 8), HdrCrc(1, 7), HdrCrcXor(1, 8), CrcStart(9), Data(512, 9),
            CrcEnd(520), Fill(2, \hFF, 523), DataCrc(2, 521), DataCrcXor(2, 523), NextSector>>),
        Gap(49, 0)>>),
    Gap(64, \hFF)>>

trk_nd100_3041 ==
  <<Sub(9, <<Gap(62, 0), Gap(1, 1),
        Part(32, <<Fill(1, 0, 0), Put("HEAD", 1, 1), Put("SECTOR", 1, 3),
            Bits("CYL", "XOR", 11, <<<<16, 8>>, <<24, 3>>>>), HdrCrc(2, 4), Fill(26, 0, 6)>>),
        Gap(1, 1),
        Part(1026, <<Data(1024, 0), DataCrc(2, 1024), NextSector>>)>>),
    Gap(320, 0)>>

trk_seagate_ST11M ==
  <<Gap(19, \h4E),
    Sub(17, <<Gap(10, 0),
        Part(10, <<A1(0), Fill(1, \hFE, 1), Put("HEAD_SEAGATE_ST11M", 1, 2),
            Bits("CYL_SEAGATE_ST11M", "XOR", 10, <<<<16, 2>>, <<24, 8>>>>), Put("SECTOR", 1, 4), Fill(1, 0, 5),
            HdrCrc(4, 6)>>),
        Gap(15, 0), DataPart(\hF8, 512, 4), Gap(2, 0), Gap(20, \h4E)>>),
    Gap(622, \h4E)>>

trk_cromemco_stdc ==
  <<Gap(40, 0),
    Sub(1, <<Part(5, <<Fill(1, 4, 0), Fill(1, \hAA, 1), Bits("CYL", "SET", 16, <<<<24, 8>>, <<16, 8>>>>), Put("HEAD", 1, 4)>>),
        Gap(75, 0)>>),
    Sub(1, <<Part(10258, <<Fill(1, 4, 0), Fill(1, 0, 1), Fill(3, \hAA, 2), Fill(1, 0, 5),
            Bits("CYL", "SET", 16, <<<<56, 8>>, <<48, 8>>>>), Put("HEAD", 1, 8), Data(10240, 9),
            Fill(1, 0, 10249), Fill(2, \hAA, 10250), Fill(1, 0, 10252),
            Bits("CYL", "SET", 16, <<<<82032, 8>>, <<82024, 8>>>>), Put("HEAD", 1, 10255), DataCrc(2, 10256),
            NextSector>>),
        Gap(4, 0)>>),
    Gap(36, 0)>>

trk_dtc_pc_512B ==
  <<Gap(16, \h4E),
    Sub(17, <<Gap(13, 0),
        Part(8, <<A1(0), Fill(1, \hFE, 1), CrcStart(2), Bits("CYL", "SET", 11, <<<<25, 3>>, <<16, 8>>>>),
            PutXor("HEAD", 1, 3), Put("SECTOR", 1, 4), HdrCrc(3, 5)>>),
        Gap(17, 0), DataPartFrom2(\hF8, 512, 3), Gap(2, 0), Gap(37, \h4E)>>),
    Gap(304, \h4E)>>

trk_dtc_520_512B ==
  <<Gap(16, \h4E),
    Sub(18, <<Gap(13, 0),
        Part(8, <<A1(0), Fill(1, \hFE, 1), CrcStart(2), Bits("CYL", "SET", 11, <<<<25, 3>>, <<16, 8>>>>),
            PutXor("HEAD", 1, 3), Put("SECTOR", 1, 4), HdrCrc(3, 5)>>),
        Gap(15, 0), DataPartFrom2(\hF8, 512, 3), Gap(2, 0), Gap(14, \h4E)>>),
    Gap(158, \h4E)>>

trk_dtc_520_256b ==
  <<Gap(16, \h4E),
    Sub(33, <<Gap(13, 0),
        Part(8, <<A1(0), Fill(1, \hFE, 1), CrcStart(2), Bits("CYL", "SET", 11, <<<<25, 3>>, <<16, 8>>>>),
            PutXor("HEAD", 1, 3), Put("SECTOR", 1, 4), HdrCrc(3, 5)>>),
        Gap(15, 0), DataPartFrom2(\hF8, 256, 3), Gap(2, 0), Gap(10, \h4E)>>),
    Gap(205, \h4E)>>

trk_saga_fox ==
  <<Gap(87, 0),
    Sub(34, <<Gap(17, 0),
        Part(7, <<CrcStart(0), Fill(1, \h0F, 0), Bits("CYL", "REVERSE", 16, <<<<8, 8>>, <<16, 8>>>>),
            PutRev("HEAD", 1, 3), PutRev("SECTOR", 1, 4), HdrCrc(2, 5)>>),
        Gap(19, 0),
        Part(259, <<CrcStart(0), Fill(1, \h0F, 0), DataRev(256, 1), DataCrc(2, 257), NextSector>>)>>),
    Gap(63, 0)>>

trk_xerox_8010 ==
  <<Gap(60, \h4E),
    Sub(16, <<Gap(14, 0),
        Part(8, <<A1(0), Fill(1, \h41, 1), CrcStart(2), Put("CYL", 2, 2), Put("HEAD", 1, 4), Put("SECTOR", 1, 5),
            HdrCrc(2, 6)>>),
        Gap(21, 0),
        Part(28, <<A1(0), Fill(1, \h43, 1), CrcStart(2), Metadata(24, 2), HdrCrc(2, 26)>>),
        Gap(23, 0), DataPartFrom2(\h43, 512, 2), Gap(15, 0)>>),
    Gap(790, 0)>>

trk_perq_t2 ==
  <<Gap(158, 0),
    Sub(16, <<Part(22, <<Special(\hC0, 0), Fill(13, 0, 1), Fill(1, \h0F, 14), CrcStart(15),
            Bits("CYL", "REVERSE_XOR", 12, <<<<120, 8>>, <<132, 4>>>>), PutRevXor("HEAD", 1, 16),
            PutRev("SECTOR", 1, 17), Fill(1, 0, 18), HdrCrc(2, 19), Fill(1, 0, 21)>>),
        Part(35, <<Fill(14, 0, 0), Fill(1, \h0F, 14), CrcStart(15), MetadataRev(16, 15), HdrCrc(2, 31), Fill(2, 0, 33)>>),
        Part(575, <<Fill(14, 0, 0), Fill(1, \h0F, 14), CrcStart(15), DataRev(512, 15), DataCrc(2, 527),
            Fill(46, 0, 529), NextSector>>)>>),
    Gap(148, 0)>>

trk_shugart_1610 ==
  <<Gap(26, \h4E),
    Sub(17, <<Gap(12, 0),
        Part(7, <<CrcStart(0), A1(0), Fill(1, \hFE, 1), Bits("CYL", "XOR", 11, <<<<28, 3>>, <<16, 8>>>>),
            PutXor("HEAD", 1, 3), Put("SECTOR", 1, 4), HdrCrc(2, 5)>>),
        Gap(15, 0),
        Part(518, <<CrcStart(0), A1(0), Fill(1, \hF8, 1), Data(512, 2), DataCrc(4, 514), NextSector>>),
        Gap(2, 0), Gap(45, \h4E)>>),
    Gap(209, \h4E)>>

trk_shugart_1400 ==
  <<Gap(16, \h4E),
    Sub(32, <<Gap(13, 0),
        Part(8, <<A1(0), Fill(1, \hFE, 1), CrcStart(2), Put("CYL", 1, 2), Put("HEAD", 1, 3), Put("SECTOR", 1, 4),
            HdrCrc(3, 5)>>),
        Gap(15, 0),
        Part(261, <<A1(0), Fill(1, \hF8, 1), CrcStart(2), Fill(256, \hFF, 2), DataXor(256, 2), DataCrc(3, 258),
            NextSector>>),
        Gap(17, 0)>>),
    Gap(354, \h4E)>>

trk_myarc_hfdc ==
  <<Gap(16, \h4E),
    Sub(32, <<Gap(13, 0),
        Part(8, <<A1(0), Fill(1, \hFE, 1), Bits("CYL", "XOR", 11, <<<<12, 1>>, <<14, 10>>>>), PutXor("HEAD", 1, 3),
            Bits("CYL", "XOR", 11, <<<<25, 3>>, <<32, 8>>>>), Put("SECTOR", 1, 4), Fill(1, 1, 5), HdrCrc(2, 6)>>),
        Gap(3, \h4E), Gap(13, 0), DataPart(\hF8, 256, 4), Gap(3, 0), Gap(15, \h4E)>>),
    Gap(258, \h4E)>>

trk_acorn_a310_podule ==
  <<Gap(16, \h4E),
    Sub(32, <<Gap(16, 0),
        Part(7, <<A1(0), CrcStart(1), Put("CYL", 2, 1), Put("HEAD", 1, 3), Put("SECTOR", 1, 4), HdrCrc(2, 5)>>),
        Gap(2, \h4E), Gap(16, 0),
        Part(262, <<A1(0), CrcStart(1), Fill(1, \hF8, 1), Data(256, 2), DataCrc(4, 258), NextSector>>),
        Gap(17, \h4E)>>),
    Gap(162, \h4E)>>

trk_fujitsu_k_10r ==
  <<Gap(16, \h4E),
    Sub(34, <<Gap(8, 0),
        Part(7, <<A1(0), CrcStart(1), Put("CYL", 2, 1), Put("HEAD", 1, 3), Put("SECTOR", 1, 4), HdrCrc(2, 5)>>),
        Gap(2, \h4E), Gap(12, 0),
        Part(262, <<A1(0), CrcStart(1), Fill(1, \hF8, 1), Data(256, 2), DataCrc(4, 258), NextSector>>),
        Gap(11, \h4E)>>),
    Gap(134, \h4E)>>

trk_CTM9016 ==
  <<Gap(257, \h4E),
    Sub(8, <<Gap(24, 0),
        Part(7, <<A1(0), Put("CYL", 2, 1), Put("HEAD", 1, 3), Put("SECTOR", 1, 4), HdrCrc(2, 5)>>),
        Gap(27, 0), DataPart(\hF8, 1024, 4), Gap(4, 0), Gap(98, \h4E)>>),
    Gap(641, \h4E)>>

trk_corvus_h ==
  <<Gap(7, 0),
    Sub(20, <<Gap(49, 0),
        Part(518, <<Fill(1, 2, 0), CrcStart(1), Fill(1, 0, 1), Bits("HEAD", "XOR", 3, <<<<8, 3>>>>),
            Bits("SECTOR", "XOR", 5, <<<<11, 5>>>>), Fill(2, 0, 2),
            Bits("CYL", "XOR", 16, <<<<24, 8>>, <<16, 8>>>>), Data(512, 4), DataCrc(2, 516), NextSector>>)>>),
    Gap(113, 0)>>

trk_Xebec_104527_256B ==
  <<Gap(20, 0),
    Sub(32, <<Gap(8, 0),
        Part(28, <<XebecId(0), Fill(9, 0, 5), Fill(1, 1, 14), CrcStart(15), Fill(2, 0, 15), Fill(1, \hC2, 17),
            Bits("CYL", "XOR", 12, <<<<148, 4>>, <<152, 8>>>>), Put("HEAD", 1, 20), Put("SECTOR", 1, 21),
            Fill(1, \h80, 22), FillLastXor(1, \h10, 22), Fill(1, 0, 23), HdrCrc(4, 24)>>),
        Gap(17, 0),
        Part(263, <<Fill(1, 1, 0), CrcStart(1), Fill(1, 0, 1), Fill(1, \hC9, 2), Data(256, 3), DataCrc(4, 259),
            NextSector>>),
        Gap(6, 0)>>),
    Gap(94, 0)>>

trk_Xebec_104527_512B ==
  <<Gap(44, 0),
    Sub(17, <<Gap(16, 0),
        Part(28, <<XebecId(0), Fill(9, 0, 5), Fill(1, 1, 14), CrcStart(15), Fill(2, 0, 15), Fill(1, \hC2, 17),
            Bits("CYL", "XOR", 12, <<<<148, 4>>, <<152, 8>>>>), Put("HEAD", 1, 20), Put("SECTOR", 1, 21),
            Fill(1, \h80, 22), FillLastXor(1, \h10, 22), Fill(1, 0, 23), HdrCrc(4, 24)>>),
        Gap(17, 0),
        Part(519, <<Fill(1, 1, 0), CrcStart(1), Fill(1, 0, 1), Fill(1, \hC9, 2), Data(512, 3), DataCrc(4, 515),
            NextSector>>),
        Gap(28, 0)>>),
    Gap(38, 0)>>

trk_Xebec_104527_C0_256B ==
  <<Gap(20, 0),
    Sub(32, <<Gap(8, 0),
        Part(28, <<XebecId(0), Fill(9, 0, 5), Fill(1, 1, 14), CrcStart(15), Fill(2, 0, 15), Fill(1, \hC2, 17),
            Bits("CYL", "XOR", 12, <<<<148, 4>>, <<152, 8>>>>), Put("HEAD", 1, 20), Put("SECTOR", 1, 21),
            Fill(1, \h80, 22), FillLastXor(1, \h10, 22), Fill(1, 0, 23), HdrCrc(4, 24)>>),
        Gap(17, 0),
        Part(263, <<Fill(1, 1, 0), CrcStart(1), Fill(1, 0, 1), Fill(1, 0, 2), Data(256, 3), DataCrc(4, 259), NextSector>>),
        Gap(6, 0)>>),
    Gap(94, 0)>>

trk_EC1841 ==
  <<Gap(30, 0),
    Sub(17, <<Gap(17, 0),
        Part(28, <<A1(0), Special(\h42, 1), Special(\h85, 2), Special(\h0A, 3), Special(\h10, 4), Fill(9, 0, 5),
            Fill(1, 1, 14), CrcStart(15), Fill(2, 0, 15), Fill(1, \hC2, 17),
            Bits("CYL", "XOR", 12, <<<<148, 4>>, <<152, 8>>>>), Put("HEAD", 1, 20), Put("SECTOR", 1, 21),
            Fill(1, \h80, 22), FillLastXor(1, \h10, 22), Fill(1, 0, 23), HdrCrc(4, 24)>>),
        Gap(17, 0),
        Part(519, <<Fill(1, 1, 0), CrcStart(1), Fill(1, 0, 1), Fill(1, 0, 2), Data(512, 3), DataCrc(4, 515), NextSector>>),
        Gap(24, 0)>>),
    Gap(103, 0)>>

trk_att_3b2 ==
  <<Gap(16, \h4E),
    Sub(18, <<Gap(13, 0),
        Part(7, <<A1(0), Fill(1, \hFF, 1), Bits("CYL", "XOR", 16, <<<<8, 16>>>>), Put("HEAD", 1, 3),
            Put("SECTOR", 1, 4), HdrCrc(2, 5)>>),
        Gap(3, \h4E), Gap(13, 0), DataPart(\hF8, 512, 2), Gap(18, \h4E)>>),
    Gap(142, \h4E)>>

trk_att_3b2_17sector ==
  <<Gap(16, \h4E),
    Sub(17, <<Gap(13, 0),
        Part(7, <<A1(0), Fill(1, \hFF, 1), Bits("CYL", "XOR", 16, <<<<8, 16>>>>), Put("HEAD", 1, 3),
            Put("SECTOR", 1, 4), HdrCrc(2, 5)>>),
        Gap(3, \h4E), Gap(13, 0), DataPart(\hF8, 512, 2), Gap(18, \h4E)>>),
    Gap(712, \h4E)>>

trk_Adaptec_4000_18sector_512B ==
  <<Gap(10, \h4E),
    Sub(18, <<Gap(12, 0),
        Part(10, <<A1(0), Fill(1, \hFE, 1), Bits("LBA", "SET", 24, <<<<16, 8>>, <<24, 8>>, <<32, 8>>>>),
            Fill(1, 0, 5), HdrCrc(4, 6)>>),
        Gap(3, 0), Gap(12, 0), DataPart(\hF8, 512, 4), Gap(2, 0), Gap(9, \h4E)>>),
    Gap(220, \h4E)>>

trk_IMS_A820 ==
  <<Sub(18, <<Gap(27, 0),
        Part(521, <<Fill(1, 1, 0), CrcStart(1), Bits("CYL", "SET", 16, <<<<16, 8>>, <<8, 8>>>>), Put("HEAD", 1, 3),
            Put("SECTOR", 1, 4), Data(512, 5), DataCrc(4, 517), NextSector>>),
        Gap(30, 0)>>),
    Gap(14, 0)>>

----------------------------------------------------------------------------
(* The CONTROLLER rows that have a layout.  A check is <<initial value,       *)
(* polynomial, bits>>, the first two as names.                                *)

Crc16 == <<"ffff", "1021", 16>>
Controller(layout, size, sectors, header, data_header, header_crc, data_crc) ==
  [track_layout |-> layout, sector_size |-> size, num_sectors |-> sectors, first_sector_number |-> 0,
   header_bytes |-> header, data_header_bytes |-> data_header, header_crc |-> header_crc, data_crc |-> data_crc,
   header_crc_ignore |-> 0, data_crc_ignore |-> 0, data_trailer_bytes |-> 0, separate_data |-> TRUE,
   header_check |-> "CHECK_CRC", data_check |-> "CHECK_CRC", track_words |-> 5209, metadata_bytes |-> 0,
   flag |-> "0"]

CONTROLLER_ISBC_214_128B ==
  Controller(trk_ISBC214_128b, 128, 54, 5, 2, Crc16, <<"ffffffff", "140a0445", 32>>)

CONTROLLER_ISBC_214_256B ==
  Controller(trk_ISBC214_256b, 256, 32, 5, 2, Crc16, <<"ffffffff", "140a0445", 32>>)

CONTROLLER_ISBC_214_512B ==
  Controller(trk_ISBC214_512B, 512, 17, 5, 2, Crc16, <<"ffffffff", "140a0445", 32>>)

CONTROLLER_ISBC_214_1024B ==
  Controller(trk_ISBC214_1024b, 1024, 9, 5, 2, Crc16, <<"ffffffff", "140a0445", 32>>)

CONTROLLER_MICROBEE_WD1002_05 ==
  [Controller(trk_ISBC214_512B, 512, 17, 5, 2, Crc16, <<"ffffffff", "140a0445", 32>>) EXCEPT
     !.first_sector_number = 1]

CONTROLLER_TEKTRONIX_6130 ==
  Controller(trk_tektronix_6130, 512, 17, 5, 2, Crc16, <<"ffffffff", "140a0445", 32>>)

CONTROLLER_WD_3B1 ==
  Controller(trk_3B1, 512, 17, 5, 2, Crc16, Crc16)

CONTROLLER_TANDY_16B ==
  [Controller(trk_tandy_16b, 512, 17, 5, 2, Crc16, Crc16) EXCEPT
     !.first_sector_number = 1]

CONTROLLER_CORVUS_OMNI ==
  Controller(trk_corvus_omni, 512, 18, 5, 2, Crc16, Crc16)

CONTROLLER_DTC ==
  [Controller(trk_dtc_pc_512B, 512, 17, 5, 2, <<"0", "24409", 24>>, <<"0", "24409", 24>>) EXCEPT
     !.header_crc_ignore = 2, !.data_crc_ignore = 2]

CONTROLLER_DTC_520_256B ==
  [Controller(trk_dtc_520_256b, 256, 33, 5, 2, <<"0", "24409", 24>>, <<"0", "24409", 24>>) EXCEPT
     !.header_crc_ignore = 2, !.data_crc_ignore = 2]

CONTROLLER_DTC_520_512B ==
  [Controller(trk_dtc_520_512B, 512, 18, 5, 2, <<"0", "24409", 24>>, <<"0", "24409", 24>>) EXCEPT
     !.header_crc_ignore = 2, !.data_crc_ignore = 2]

CONTROLLER_FUJITSU_K_10R ==
  [Controller(trk_fujitsu_k_10r, 256, 34, 5, 2, <<"0", "1021", 16>>, <<"0", "a00805", 32>>) EXCEPT
     !.header_crc_ignore = 1, !.data_crc_ignore = 1]

CONTROLLER_CTM9016 ==
  Controller(trk_CTM9016, 1024, 8, 5, 2, <<"0", "1021", 16>>, <<"0", "a00805", 32>>)

CONTROLLER_ACORN_A310_PODULE ==
  [Controller(trk_acorn_a310_podule, 256, 32, 5, 2, Crc16, <<"0", "a00805", 32>>) EXCEPT
     !.header_crc_ignore = 1, !.data_crc_ignore = 1]

CONTROLLER_ELEKTRONIKA_85 ==
  [Controller(trk_ELEKTROKIKA_85, 512, 16, 5, 2, Crc16, Crc16) EXCEPT
     !.data_trailer_bytes = 16]

CONTROLLER_ATT_3B2 ==
  Controller(trk_att_3b2, 512, 18, 5, 2, Crc16, Crc16)

CONTROLLER_ATT_3B2_17sector ==
  Controller(trk_att_3b2_17sector, 512, 17, 5, 2, Crc16, Crc16)

CONTROLLER_CONVERGENT_AWS ==
  [Controller(trk_convergent_aws, 256, 32, 5, 2, <<"0", "1021", 16>>, <<"0", "1021", 16>>) EXCEPT
     !.first_sector_number = 1]

CONTROLLER_SHUGART_1610 ==
  Controller(trk_shugart_1610, 512, 17, 5, 2, Crc16, <<"ffffffff", "10183031", 32>>)

CONTROLLER_SHUGART_SA1400 ==
  [Controller(trk_shugart_1400, 256, 32, 5, 2, <<"0", "24409", 24>>, <<"0", "24409", 24>>) EXCEPT
     !.header_crc_ignore = 2, !.data_crc_ignore = 2]

CONTROLLER_HP9133XV ==
  Controller(trk_HP9133XV, 256, 31, 5, 2, Crc16, Crc16)

CONTROLLER_SHUGART_CD9963 ==
  [Controller(trk_shugart_1610, 512, 17, 6, 2, Crc16, <<"ffffffff", "10183031", 32>>) EXCEPT
     !.metadata_bytes = 512]

CONTROLLER_SM_1810_512B ==
  [Controller(trk_sm_1810, 512, 16, 6, 2, <<"ed800493", "a00805", 32>>, <<"3affc1d", "a00805", 32>>) EXCEPT
     !.header_crc_ignore = 2, !.data_crc_ignore = 2]

CONTROLLER_DSD_5217_512B ==
  Controller(trk_DSD_5217_512B, 512, 17, 6, 2, <<"ffffffff", "105187", 32>>, <<"ffffffff", "105187", 32>>)

CONTROLLER_OMTI_5510 ==
  Controller(trk_omti_5510, 512, 17, 6, 2, <<"2605fb9c", "104c981", 32>>, <<"d4d7ca20", "104c981", 32>>)

CONTROLLER_OMTI_5200_18SECTOR_512B ==
  Controller(trk_omti_5200_18sector_512B, 512, 18, 6, 2, <<"2605fb9c", "104c981", 32>>, <<"d4d7ca20", "104c981", 32>>)

CONTROLLER_MYARC_HFDC ==
  Controller(trk_myarc_hfdc, 256, 32, 6, 2, Crc16, <<"ffffffff", "140a0445", 32>>)

CONTROLLER_SEAGATE_ST11M ==
  Controller(trk_seagate_ST11M, 512, 17, 6, 2, <<"0", "41044185", 32>>, <<"0", "41044185", 32>>)

CONTROLLER_ISBC_215_128B ==
  [Controller(trk_ISBC215_128b, 128, 54, 6, 2, <<"ed800493", "a00805", 32>>, <<"be87fbf4", "a00805", 32>>) EXCEPT
     !.header_crc_ignore = 2, !.data_crc_ignore = 2]

CONTROLLER_ISBC_215_256B ==
  [Controller(trk_ISBC215_256b, 256, 31, 6, 2, <<"ed800493", "a00805", 32>>, <<"be87fbf4", "a00805", 32>>) EXCEPT
     !.header_crc_ignore = 2, !.data_crc_ignore = 2]

CONTROLLER_ISBC_215_512B ==
  [Controller(trk_ISBC215_512B, 512, 17, 6, 2, <<"ed800493", "a00805", 32>>, <<"be87fbf4", "a00805", 32>>) EXCEPT
     !.header_crc_ignore = 2, !.data_crc_ignore = 2]

CONTROLLER_ISBC_215_1024B ==
  [Controller(trk_ISBC215_1024b, 1024, 9, 6, 2, <<"ed800493", "a00805", 32>>, <<"be87fbf4", "a00805", 32>>) EXCEPT
     !.header_crc_ignore = 2, !.data_crc_ignore = 2]

CONTROLLER_XEROX_8010 ==
  [Controller(trk_xerox_8010, 512, 16, 6, 2, <<"ffff", "8005", 16>>, <<"ffff", "8005", 16>>) EXCEPT
     !.header_crc_ignore = 2, !.data_crc_ignore = 2, !.track_words = 5425, !.metadata_bytes = 24]

CONTROLLER_ADAPTEC_4000_18SECTOR_512B ==
  Controller(trk_Adaptec_4000_18sector_512B, 512, 18, 6, 2, <<"0", "41044185", 32>>, <<"0", "41044185", 32>>)

CONTROLLER_MVME320 ==
  [Controller(trk_mvme320, 256, 32, 7, 2, Crc16, <<"ffffffff", "10210191", 32>>) EXCEPT
     !.first_sector_number = 1]

CONTROLLER_SYMBOLICS_3640 ==
  [Controller(trk_symbolics_3640, 1160, 8, 11, 2, <<"0", "0", 0>>, <<"0", "a00805", 32>>) EXCEPT
     !.header_crc_ignore = 7, !.data_crc_ignore = 2, !.header_check = "CHECK_PARITY"]

CONTROLLER_XEBEC_104527_256B ==
  [Controller(trk_Xebec_104527_256B, 256, 32, 9, 2, <<"0", "a00805", 32>>, <<"0", "a00805", 32>>) EXCEPT
     !.flag = "FLAG_XEBEC"]

CONTROLLER_XEBEC_104527_512B ==
  [Controller(trk_Xebec_104527_512B, 512, 17, 9, 2, <<"0", "a00805", 32>>, <<"0", "a00805", 32>>) EXCEPT
     !.flag = "FLAG_XEBEC"]

CONTROLLER_XEBEC_104527_C0_256B ==
  [Controller(trk_Xebec_104527_C0_256B, 256, 32, 9, 2, <<"0", "a00805", 32>>, <<"0", "a00805", 32>>) EXCEPT
     !.flag = "FLAG_XEBEC_SKEW"]

CONTROLLER_EC1841 ==
  [Controller(trk_EC1841, 512, 17, 9, 2, <<"0", "a00805", 32>>, <<"0", "a00805", 32>>) EXCEPT
     !.flag = "FLAG_XEBEC_SKEW"]

CONTROLLER_CORVUS_H ==
  [Controller(trk_corvus_h, 512, 20, 3, 3, <<"ffff", "8005", 16>>, <<"ffff", "8005", 16>>) EXCEPT
     !.track_words = 5730, !.separate_data = FALSE]

CONTROLLER_NORTHSTAR_ADVANTAGE ==
  [Controller(trk_northstar, 512, 16, 7, 0, <<"0", "0", 16>>, <<"0", "0", 32>>) EXCEPT
     !.header_check = "CHECK_CHKSUM", !.data_check = "CHECK_CHKSUM"]

CONTROLLER_CROMEMCO ==
  [Controller(trk_cromemco_stdc, 10240, 1, 9, 9, <<"0", "8005", 16>>, <<"0", "8005", 16>>) EXCEPT
     !.data_trailer_bytes = 7, !.separate_data = FALSE]

CONTROLLER_SAGA_FOX ==
  [Controller(trk_saga_fox, 256, 33, 5, 1, <<"0", "0", 16>>, <<"0", "0", 16>>) EXCEPT
     !.header_check = "CHECK_XOR16", !.data_check = "CHECK_XOR16"]

CONTROLLER_ND100_3041 ==
  Controller(trk_nd100_3041, 1024, 9, 4, 0, <<"0", "8005", 16>>, <<"0", "8005", 16>>)

CONTROLLER_PERQ_T2 ==
  [Controller(trk_perq_t2, 512, 16, 4, 0, <<"0", "8005", 16>>, <<"0", "8005", 16>>) EXCEPT
     !.data_trailer_bytes = 1, !.metadata_bytes = 16]

CONTROLLER_IMS_A820 ==
  [Controller(trk_IMS_A820, 512, 18, 4, 4, <<"d1e92a5b", "140a0445", 32>>, <<"d1e92a5b", "140a0445", 32>>) EXCEPT
     !.separate_data = FALSE]

\* Every controller that ext2emu can write for.
mfm_controller_info ==
  [CONTROLLER_ISBC_214_128B |-> CONTROLLER_ISBC_214_128B,
   CONTROLLER_ISBC_214_256B |-> CONTROLLER_ISBC_214_256B,
   CONTROLLER_ISBC_214_512B |-> CONTROLLER_ISBC_214_512B,
   CONTROLLER_ISBC_214_1024B |-> CONTROLLER_ISBC_214_1024B,
   CONTROLLER_MICROBEE_WD1002_05 |-> CONTROLLER_MICROBEE_WD1002_05,
   CONTROLLER_TEKTRONIX_6130 |-> CONTROLLER_TEKTRONIX_6130,
   CONTROLLER_WD_3B1 |-> CONTROLLER_WD_3B1,
   CONTROLLER_TANDY_16B |-> CONTROLLER_TANDY_16B,
   CONTROLLER_CORVUS_OMNI |-> CONTROLLER_CORVUS_OMNI,
   CONTROLLER_DTC |-> CONTROLLER_DTC,
   CONTROLLER_DTC_520_256B |-> CONTROLLER_DTC_520_256B,
   CONTROLLER_DTC_520_512B |-> CONTROLLER_DTC_520_512B,
   CONTROLLER_FUJITSU_K_10R |-> CONTROLLER_FUJITSU_K_10R,
   CONTROLLER_CTM9016 |-> CONTROLLER_CTM9016,
   CONTROLLER_ACORN_A310_PODULE |-> CONTROLLER_ACORN_A310_PODULE,
   CONTROLLER_ELEKTRONIKA_85 |-> CONTROLLER_ELEKTRONIKA_85,
   CONTROLLER_ATT_3B2 |-> CONTROLLER_ATT_3B2,
   CONTROLLER_ATT_3B2_17sector |-> CONTROLLER_ATT_3B2_17sector,
   CONTROLLER_CONVERGENT_AWS |-> CONTROLLER_CONVERGENT_AWS,
   CONTROLLER_SHUGART_1610 |-> CONTROLLER_SHUGART_1610,
   CONTROLLER_SHUGART_SA1400 |-> CONTROLLER_SHUGART_SA1400,
   CONTROLLER_HP9133XV |-> CONTROLLER_HP9133XV,
   CONTROLLER_SHUGART_CD9963 |-> CONTROLLER_SHUGART_CD9963,
   CONTROLLER_SM_1810_512B |-> CONTROLLER_SM_1810_512B,
   CONTROLLER_DSD_5217_512B |-> CONTROLLER_DSD_5217_512B,
   CONTROLLER_OMTI_5510 |-> CONTROLLER_OMTI_5510,
   CONTROLLER_OMTI_5200_18SECTOR_512B |-> CONTROLLER_OMTI_5200_18SECTOR_512B,
   CONTROLLER_MYARC_HFDC |-> CONTROLLER_MYARC_HFDC,
   CONTROLLER_SEAGATE_ST11M |-> CONTROLLER_SEAGATE_ST11M,
   CONTROLLER_ISBC_215_128B |-> CONTROLLER_ISBC_215_128B,
   CONTROLLER_ISBC_215_256B |-> CONTROLLER_ISBC_215_256B,
   CONTROLLER_ISBC_215_512B |-> CONTROLLER_ISBC_215_512B,
   CONTROLLER_ISBC_215_1024B |-> CONTROLLER_ISBC_215_1024B,
   CONTROLLER_XEROX_8010 |-> CONTROLLER_XEROX_8010,
   CONTROLLER_ADAPTEC_4000_18SECTOR_512B |-> CONTROLLER_ADAPTEC_4000_18SECTOR_512B,
   CONTROLLER_MVME320 |-> CONTROLLER_MVME320,
   CONTROLLER_SYMBOLICS_3640 |-> CONTROLLER_SYMBOLICS_3640,
   CONTROLLER_XEBEC_104527_256B |-> CONTROLLER_XEBEC_104527_256B,
   CONTROLLER_XEBEC_104527_512B |-> CONTROLLER_XEBEC_104527_512B,
   CONTROLLER_XEBEC_104527_C0_256B |-> CONTROLLER_XEBEC_104527_C0_256B,
   CONTROLLER_EC1841 |-> CONTROLLER_EC1841,
   CONTROLLER_CORVUS_H |-> CONTROLLER_CORVUS_H,
   CONTROLLER_NORTHSTAR_ADVANTAGE |-> CONTROLLER_NORTHSTAR_ADVANTAGE,
   CONTROLLER_CROMEMCO |-> CONTROLLER_CROMEMCO,
   CONTROLLER_SAGA_FOX |-> CONTROLLER_SAGA_FOX,
   CONTROLLER_ND100_3041 |-> CONTROLLER_ND100_3041,
   CONTROLLER_PERQ_T2 |-> CONTROLLER_PERQ_T2,
   CONTROLLER_IMS_A820 |-> CONTROLLER_IMS_A820]

============================================================================
