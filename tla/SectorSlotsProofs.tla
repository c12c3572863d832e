------------------------- MODULE SectorSlotsProofs -------------------------
EXTENDS SectorSlots, FiniteSetTheorems, WellFoundedInduction, TLAPS

\* A nonempty set of natural numbers has a least element.
LEMMA LeastNumber ==
  ASSUME NEW T, T \subseteq Nat, T # {}
  PROVE  \E x \in T : \A y \in T : x <= y
<1>1. IsWellFoundedOn(OpToRel(<, Nat), Nat)
  BY NatLessThanWellFounded
<1>2. PICK x \in T : \A y \in T : ~ (<<y, x>> \in OpToRel(<, Nat))
  BY <1>1, WFMin, Zenon
<1>3. \A y \in T : ~ (y < x)
  BY <1>2 DEF OpToRel
<1>4. QED BY <1>3

\* The search for an unused sector ends at one when there is one.
LEMMA NextUnusedFound ==
  ASSUME num_sectors \in Nat, NEW s \in Sectors, NEW used, Sectors \ used # {}
  PROVE  NextUnused(s, used) \in Sectors \ used
<1> DEFINE T == {StepsTo(s, u) : u \in Sectors \ used}
<1>1. T \subseteq Nat /\ T # {}
  BY DEF StepsTo, Sectors
<1>2. PICK t \in T : \A v \in T : t <= v
  BY <1>1, LeastNumber, Zenon
<1>3. PICK u \in Sectors \ used : t = StepsTo(s, u)
  OBVIOUS
<1>4. \A v \in Sectors \ used : StepsTo(s, u) <= StepsTo(s, v)
  BY <1>2, <1>3
<1>5. QED BY <1>4, Zenon DEF NextUnused

LEMMA ModRange ==
  ASSUME NEW a \in Nat, NEW n \in Nat \ {0}
  PROVE  a % n \in 0 .. n - 1
OBVIOUS

\* A set of fewer sectors than a track has leaves one over, and a set of as
\* many leaves none.
LEMMA SectorsCounted ==
  ASSUME num_sectors \in Nat, NEW used \in SUBSET Sectors
  PROVE  /\ IsFiniteSet(used)
         /\ Cardinality(used) < num_sectors => Sectors \ used # {}
         /\ Cardinality(used) >= num_sectors => used = Sectors
<1>1. IsFiniteSet(Sectors) /\ Cardinality(Sectors) = num_sectors
  BY FS_Interval, num_sectors - 1 \in Int DEF Sectors
<1>2. /\ IsFiniteSet(used)
      /\ Cardinality(used) <= Cardinality(Sectors)
      /\ Cardinality(Sectors) = Cardinality(used) => Sectors = used
  BY <1>1, FS_Subset, Zenon
<1>3. Cardinality(used) \in Nat
  BY <1>2, FS_CardinalityType
<1>4. CASE Cardinality(used) < num_sectors
  <2>1. used # Sectors
    BY <1>1, <1>4
  <2>2. QED BY <1>2, <1>3, <1>4, <2>1
<1>5. CASE Cardinality(used) >= num_sectors
  BY <1>1, <1>2, <1>3, <1>5
<1>6. QED BY <1>3, <1>4, <1>5

(***************************************************************************)
(* The interleave, for every number of sectors and every interleave.       *)
(* EverySectorOnce speaks of the order alone; that the search finds a      *)
(* sector rests on the list of used sectors being those of the order, and  *)
(* on their number.                                                        *)
(***************************************************************************)
SlotTypeOK ==
  /\ num_sectors \in Nat \ {0}
  /\ sector_interleave \in Nat
  /\ track_interleave \in Nat
  /\ track_start_sector \in Sectors
  /\ slot \in [sector : Sectors, phys_sector : Nat, used : SUBSET Sectors, count : Nat]
  /\ order \in Seq(Sectors)

UsedIsOrder ==
  /\ slot.count = Len(order)
  /\ slot.used = {order[i] : i \in DOMAIN order}

UsedCounted ==
  /\ slot.count <= num_sectors => Cardinality(slot.used) = slot.count
  /\ slot.count >= num_sectors => slot.used = Sectors
  /\ slot.count < num_sectors => slot.sector \notin slot.used

Distinct == \A i, j \in DOMAIN order : i < j /\ j <= num_sectors => order[i] # order[j]

SlotInv == SlotTypeOK /\ UsedIsOrder /\ UsedCounted /\ Distinct

LEMMA StartSlotInv ==
  ASSUME num_sectors' \in Nat \ {0}, sector_interleave' \in Nat, track_interleave' \in Nat,
         track_start_sector' \in Sectors', order' = <<>>,
         NEW first \in Sectors', slot' = StartSlot(first)
  PROVE  SlotInv'
<1>1. SlotTypeOK'
  <2>1. slot' \in [sector : Sectors', phys_sector : Nat, used : SUBSET Sectors', count : Nat]
    BY DEF StartSlot
  <2>2. order' \in Seq(Sectors')
    OBVIOUS
  <2>3. QED BY <2>1, <2>2 DEF SlotTypeOK
<1>2. UsedIsOrder' /\ Distinct'
  BY DEF UsedIsOrder, Distinct, StartSlot
<1>3. UsedCounted'
  BY FS_EmptySet DEF UsedCounted, StartSlot
<1>4. QED BY <1>1, <1>2, <1>3 DEF SlotInv

LEMMA SlotInvInit == SlotInit => SlotInv
<1> SUFFICES ASSUME SlotInit PROVE SlotInv
  OBVIOUS
<1>1. SlotTypeOK
  BY DEF SlotInit, SlotTypeOK, StartSlot, Sectors
<1>2. UsedIsOrder /\ Distinct
  BY DEF SlotInit, UsedIsOrder, Distinct, StartSlot
<1>3. UsedCounted
  BY FS_EmptySet DEF SlotInit, UsedCounted, StartSlot
<1>4. QED BY <1>1, <1>2, <1>3 DEF SlotInv

LEMMA IncSectorInv ==
  ASSUME SlotInv, inc_sector
  PROVE  SlotInv'
<1> DEFINE used == slot.used \cup {slot.sector}
           count == slot.count + 1
           next == (slot.sector + sector_interleave) % num_sectors
<1> USE DEF SlotInv
<1>0. /\ num_sectors' = num_sectors /\ Sectors' = Sectors
      /\ order' = Append(order, slot.sector) /\ slot' = IncSector(slot)
      /\ interleaveVars' = interleaveVars /\ track_start_sector' = track_start_sector
  BY DEF inc_sector, interleaveVars, Sectors
<1>1. /\ num_sectors \in Nat \ {0} /\ slot.sector \in Sectors /\ slot.sector \in Nat
      /\ slot.count \in Nat /\ slot.used \in SUBSET Sectors /\ used \in SUBSET Sectors
      /\ order \in Seq(Sectors)
  BY DEF SlotTypeOK, Sectors
<1>2. next \in Sectors
  <2>1. slot.sector + sector_interleave \in Nat
    BY <1>1 DEF SlotTypeOK
  <2>2. QED BY <1>1, <2>1, ModRange DEF Sectors
<1>3. Cardinality(used) = IF slot.sector \in slot.used THEN Cardinality(slot.used)
                          ELSE Cardinality(slot.used) + 1
  BY <1>1, SectorsCounted, FS_AddElement
<1>4. count <= num_sectors => Cardinality(used) = count
  BY <1>1, <1>3 DEF UsedCounted
<1>5. count >= num_sectors => used = Sectors
  <2>1. CASE count = num_sectors
    BY <1>1, <1>4, <2>1, SectorsCounted
  <2>2. CASE count > num_sectors
    BY <1>1, <2>2 DEF UsedCounted
  <2>3. QED BY <1>1, <2>1, <2>2
<1>6. count < num_sectors => NextUnused(next, used) \in Sectors \ used
  BY <1>1, <1>2, <1>4, SectorsCounted, NextUnusedFound
<1>7. slot'.used = used /\ slot'.count = count
  BY <1>0, <1>1 DEF IncSector, SlotTypeOK
<1>8. count < num_sectors => slot'.sector = NextUnused(next, used)
  BY <1>0 DEF IncSector
<1>9. /\ slot' \in [sector : Sectors, phys_sector : Nat, used : SUBSET Sectors, count : Nat]
  <2>1. CASE count < num_sectors
    BY <1>0, <1>1, <1>6, <2>1 DEF IncSector, SlotTypeOK
  <2>2. CASE ~ (count < num_sectors)
    BY <1>0, <1>1, <2>2 DEF IncSector, SlotTypeOK
  <2>3. QED BY <2>1, <2>2
<1>10. SlotTypeOK'
  BY <1>0, <1>1, <1>9 DEF SlotTypeOK, interleaveVars
<1>11. UsedIsOrder'
  BY <1>0, <1>1, <1>7 DEF UsedIsOrder
<1>12. UsedCounted'
  BY <1>0, <1>4, <1>5, <1>6, <1>7, <1>8 DEF UsedCounted
<1>13. Distinct'
  BY <1>0, <1>1 DEF Distinct, UsedIsOrder, UsedCounted
<1>14. QED BY <1>10, <1>11, <1>12, <1>13

LEMMA SlotInvNext == SlotInv /\ [SlotNext]_slotVars => SlotInv'
<1> SUFFICES ASSUME SlotInv, [SlotNext]_slotVars PROVE SlotInv'
  OBVIOUS
<1>1. CASE start_new_cyl
  <2>1. SlotTypeOK'
    BY <1>1 DEF SlotInv, SlotTypeOK, start_new_cyl, interleaveVars, Sectors
  <2>2. QED BY <1>1, <2>1 DEF SlotInv, UsedIsOrder, UsedCounted, Distinct, start_new_cyl,
               interleaveVars, Sectors
<1>2. CASE start_new_track
  <2>1. /\ num_sectors' \in Nat \ {0} /\ sector_interleave' \in Nat /\ track_interleave' \in Nat
        /\ order' = <<>> /\ Sectors' = Sectors /\ 0 \in Sectors' /\ track_start_sector \in Sectors'
    BY <1>2 DEF SlotInv, SlotTypeOK, start_new_track, interleaveVars, Sectors
  <2>2. CASE track_interleave = 0
    <3>1. slot' = StartSlot(0) /\ track_start_sector' \in Sectors'
      BY <1>2, <2>1, <2>2 DEF start_new_track
    <3>2. QED BY <2>1, <3>1, StartSlotInv
  <2>3. CASE track_interleave # 0
    <3>1. /\ slot' = StartSlot(track_start_sector)
          /\ track_start_sector' = (track_start_sector + track_interleave) % num_sectors
      BY <1>2, <2>3 DEF start_new_track
    <3>2. track_start_sector + track_interleave \in Nat /\ num_sectors \in Nat \ {0}
      BY DEF SlotInv, SlotTypeOK, Sectors
    <3>3. track_start_sector' \in Sectors'
      BY <2>1, <3>1, <3>2, ModRange DEF Sectors
    <3>4. QED BY <2>1, <3>1, <3>3, StartSlotInv
  <2>4. QED BY <2>2, <2>3
<1>3. CASE inc_sector
  BY <1>3, IncSectorInv
<1>4. CASE UNCHANGED slotVars
  BY <1>4 DEF slotVars, interleaveVars, SlotInv, SlotTypeOK, UsedIsOrder, UsedCounted, Distinct, Sectors
<1>5. QED BY <1>1, <1>2, <1>3, <1>4 DEF SlotNext

\* Every track holds each of its sectors once, whatever its number of sectors
\* and the interleave (inc_sector() and start_new_track() of mfm_util.c).
THEOREM InterleaveComplete == SlotSpec => []EverySectorOnce
<1>1. SlotInv => EverySectorOnce
  <2> SUFFICES ASSUME SlotInv PROVE EverySectorOnce
    OBVIOUS
  <2>1. Len(order) >= num_sectors => \A s \in Sectors : \E i \in DOMAIN order : order[i] = s
    BY DEF SlotInv, UsedIsOrder, UsedCounted
  <2>2. Len(order) < num_sectors => \A i \in DOMAIN order : order[i] # slot.sector
    BY DEF SlotInv, UsedIsOrder, UsedCounted
  <2>3. QED BY <2>1, <2>2 DEF SlotInv, Distinct, EverySectorOnce
<1>2. QED BY <1>1, SlotInvInit, SlotInvNext, PTL DEF SlotSpec
=============================================================================
