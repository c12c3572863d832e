---------------------------- MODULE SectorSlots ----------------------------
(***************************************************************************)
(* Which sector ext2emu writes next: the interleave of mfm/mfm_util.c.     *)
(* "num_sectors", "sector_interleave" and "track_interleave" are what the  *)
(* format and the command line gave; they never change, but a run may      *)
(* start from several values.  The list of used sectors is the set "used". *)
(***************************************************************************)
EXTENDS Integers, Sequences

VARIABLES num_sectors, sector_interleave, track_interleave,
          track_start_sector, \* The sector the next track starts with
          slot,               \* [sector, phys_sector, used, count]: where the track is
          order               \* The sectors of the track so far, as they were written

interleaveVars == <<num_sectors, sector_interleave, track_interleave>>
slotVars == <<interleaveVars, track_start_sector, slot, order>>

Sectors == 0 .. num_sectors - 1

StartSlot(first) == [sector |-> first, phys_sector |-> 0, used |-> {}, count |-> 0]

\* Steps of one, wrapping at the last sector, from s to u.
StepsTo(s, u) == IF u >= s THEN u - s ELSE u - s + num_sectors

\* "If sector is already used find next unused"
NextUnused(s, used) ==
  CHOOSE u \in Sectors \ used :
     \A v \in Sectors \ used : StepsTo(s, u) <= StepsTo(s, v)

IncSector(s) ==
  LET used == s.used \cup {s.sector}
      more == s.count + 1 < num_sectors
  IN [sector |-> IF more THEN NextUnused((s.sector + sector_interleave) % num_sectors, used)
                 ELSE s.sector,
      phys_sector |-> IF more THEN s.phys_sector + 1 ELSE s.phys_sector,
      used |-> used,
      count |-> s.count + 1]

----------------------------------------------------------------------------

SlotInit ==
  /\ num_sectors \in Nat \ {0}
  /\ sector_interleave \in Nat
  /\ track_interleave \in Nat
  /\ track_start_sector = 0
  /\ slot = StartSlot(0)
  /\ order = <<>>

start_new_cyl ==
  /\ track_start_sector' = 0
  /\ UNCHANGED <<interleaveVars, slot, order>>

start_new_track ==
  /\ order' = <<>>
  /\ IF track_interleave = 0
     THEN slot' = StartSlot(0) /\ UNCHANGED track_start_sector
     ELSE /\ slot' = StartSlot(track_start_sector)
          /\ track_start_sector' = (track_start_sector + track_interleave) % num_sectors
  /\ UNCHANGED interleaveVars

inc_sector ==
  /\ slot' = IncSector(slot)
  /\ order' = Append(order, slot.sector)
  /\ UNCHANGED <<interleaveVars, track_start_sector>>

SlotNext == start_new_cyl \/ start_new_track \/ inc_sector

SlotSpec == SlotInit /\ [][SlotNext]_slotVars

----------------------------------------------------------------------------

\* Whatever the interleave, the first num_sectors sectors of a track are all its
\* sectors, each once: the search for an unused sector neither repeats one nor
\* leaves one out, also where the interleave and the number of sectors share a
\* factor and the plain sequence would come back to its start too soon.
EverySectorOnce ==
  /\ \A i, j \in DOMAIN order : i < j /\ j <= num_sectors => order[i] # order[j]
  /\ Len(order) >= num_sectors => \A s \in Sectors : \E i \in DOMAIN order : order[i] = s
  /\ Len(order) < num_sectors => \A i \in DOMAIN order : order[i] # slot.sector
=============================================================================
