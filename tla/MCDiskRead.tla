----------------------------- MODULE MCDiskRead -----------------------------
(* The disks and the options DiskRead.cfg checks, each on a drive with one   *)
(* cylinder more than is read.                                               *)
EXTENDS DiskRead, TLC

MCSectors == 2
MCTracks == (0 .. 2) \X {0}
MCPlaces == (0 .. 4) \X {0} \X (0 .. MCSectors - 1)

Options(num_cyl) ==
  [num_cyl |-> num_cyl, num_head |-> 1, num_sectors |-> MCSectors, sector_size |-> 512,
   first_sector_number |-> 0, sector_numbers |-> <<>>, ignore_header_mismatch |-> FALSE,
   ignore_seek_errors |-> FALSE, head_3bit |-> FALSE, recovery |-> FALSE,
   retries |-> 2, no_seek_retries |-> 1, noretry_cyl |-> num_cyl, noretry_head |-> 1]

\* A sector of the first track always reads so.
BadSector(sector, seen) ==
  [cyl \in 0 .. 2 |-> [header |-> cyl, bad |-> IF cyl = 0 THEN sector :> seen ELSE <<>>]]
NoData == [Fine EXCEPT !.rank = Unreadable]
NoMark == [Fine EXCEPT !.mark = FALSE]

\* The second track has the headers of another cylinder.
Spared(cylinders) ==
  [cyl \in 0 .. cylinders |-> [header |-> IF cyl = 1 THEN 4 ELSE cyl, bad |-> <<>>]]

MCJobs ==
  {<<Options(2), BadSector(1, NoData)>>,
   <<Options(3), Spared(3)>>,
   <<[Options(2) EXCEPT !.ignore_seek_errors = TRUE], Spared(2)>>,
   <<[Options(2) EXCEPT !.recovery = TRUE, !.noretry_cyl = 1], BadSector(0, NoMark)>>}
=============================================================================
