------------------------- MODULE MCFormatRoundTrip -------------------------
(* The conversions FormatRoundTrip.cfg checks: each format at both ends of *)
(* the cylinders and heads its headers hold.                               *)
EXTENDS FormatRoundTrip

\* SA1400 headers have 8 bits of cylinder and ST11M 10, of the cylinder less one.
\* The layouts of SHUGART_1610 and MYARC_HFDC put the next bit elsewhere than
\* the decoder looks for it.
MaxCyl(c) ==
  CASE c \in {"CONTROLLER_SHUGART_SA1400", "CONTROLLER_SHUGART_1610"} -> 255
    [] c = "CONTROLLER_MYARC_HFDC" -> 1023
    [] c = "CONTROLLER_SEAGATE_ST11M" -> 1024
    [] OTHER -> 2047

MaxHeads(c) == IF c \in {"CONTROLLER_SHUGART_1610", "CONTROLLER_CORVUS_H"} THEN 8 ELSE 16

Job(c, num_head, cyls, heads, interleave, marked) ==
  [controller |-> c, info |-> mfm_controller_info[c], num_head |-> num_head, num_cyl |-> MaxCyl(c) + 1, cyls |-> cyls, heads |-> heads,
   sector_interleave |-> interleave[1], track_interleave |-> interleave[2],
   mark_bad |-> {<<cyls[1], heads[1], s + mfm_controller_info[c].first_sector_number>> : s \in marked}]

MCJobs ==
  UNION {{Job(c, MaxHeads(c), <<0, MaxCyl(c)>>, <<0, MaxHeads(c) - 1>>, <<3, 2>>, {}),
          Job(c, 3, <<1, MaxCyl(c) \div 2>>, <<1, 2>>, <<1, 0>>, {0, 2})}
         : c \in DOMAIN mfm_controller_info \ NotReadable}
=============================================================================
