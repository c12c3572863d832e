---------------------------- MODULE DiskImageProofs ---------------------------
(***************************************************************************)
(* The emulation image and the statistics that mfm_read makes of a disk,   *)
(* for every disk, options and faults that the assumptions of DiskRead     *)
(* allow.                                                                  *)
(*                                                                         *)
(* Both are one track late: update_stats() deals with a track when the     *)
(* reader has left it.  The argument has two parts.                        *)
(*                                                                         *)
(* ImageInv: the list of the last track says what the extracted file has   *)
(* of it (ListInv) and the file does not change there any more.  The words *)
(* of the best read are as good as their weights (BestInv), the words put  *)
(* together are as good as the file (FixedInv).  update_emu_track_words()  *)
(* compares two sums only; but no sector's weight in the best read is more *)
(* than that in the list, so where its sum is not less the weights are the *)
(* same one by one (TotalSame), and the best read is as good as the file   *)
(* too.  The sums are a recursive function: what is said of them is proved *)
(* by the least number for which it would fail.                            *)
(*                                                                         *)
(* StatsInv: the sums count the sectors of the tracks before the last, as  *)
(* the file has them, each once.                                           *)
(*                                                                         *)
(* A third invariant, SteadyInv, is about the heads: why the retries find  *)
(* a sound track.  The first header read elsewhere tells how far away that *)
(* is, so from the second try on the heads are over the track (ArmInv),    *)
(* unless something went wrong with the steps of this very track; and over *)
(* the right cylinder each sector of a sound track is read well (OverInv). *)
(* The cylinder the reader counts is never past the track (CurrentInv).    *)
(***************************************************************************)
EXTENDS DiskReadProofs, FiniteSetTheorems, WellFoundedInduction

----------------------------------------------------------------------------
(* Sums over a track                                                       *)

\* A nonempty set of natural numbers has a least element.
LEMMA LeastNumber ==
  ASSUME NEW T, T \subseteq Nat, T # {}
  PROVE  \E x \in T : \A y \in T : x <= y
<1>1. IsWellFoundedOn(OpToRel(<, Nat), Nat)
  BY NatLessThanWellFounded
<1>2. PICK x \in T : \A y \in T : ~ (<<y, x>> \in OpToRel(<, Nat))
  BY <1>1, WFMin, Zenon
<1>3. \A y \in T : ~ (y < x)
  BY <1>2 DEF OpToRel
<1>4. QED BY <1>3

\* f[k] is the sum of the first k of w.
Sums(f, w, n) == f = [k \in 0 .. n |-> IF k = 0 THEN 0 ELSE f[k - 1] + w[k - 1]]

\* For every number of weights there is such a function: no number is the least
\* without one.
LEMMA SumsExist ==
  ASSUME NEW n \in Nat, NEW w
  PROVE  \E f : Sums(f, w, n)
<1> DEFINE T == {k \in Nat : ~ \E f : Sums(f, w, k)}
<1> SUFFICES ASSUME T # {} PROVE FALSE
  OBVIOUS
<1>1. PICK k \in T : \A l \in T : k <= l
  BY LeastNumber, T \subseteq Nat, Zenon
<1>2. k \in Nat /\ ~ \E f : Sums(f, w, k)
  OBVIOUS
<1>3. CASE k = 0
  <2> DEFINE f == [l \in 0 .. 0 |-> 0]
  <2>1. f = [l \in 0 .. 0 |-> IF l = 0 THEN 0 ELSE f[l - 1] + w[l - 1]]
    OBVIOUS
  <2> QED BY <1>2, <1>3, <2>1 DEF Sums
<1>4. CASE k # 0
  <2>1. k - 1 \in Nat /\ k - 1 \notin T
    BY <1>1, <1>2, <1>4
  <2>2. PICK f : Sums(f, w, k - 1)
    BY <2>1
  <2> DEFINE g == [l \in 0 .. k |-> IF l = k THEN f[k - 1] + w[k - 1] ELSE f[l]]
  <2>3. ASSUME NEW l \in 0 .. k
        PROVE  g[l] = IF l = 0 THEN 0 ELSE g[l - 1] + w[l - 1]
    <3>1. CASE l = k
      <4>1. k - 1 \in 0 .. k /\ k - 1 # k
        BY <1>2, <1>4
      <4> QED BY <1>4, <3>1, <4>1
    <3>2. CASE l # k
      <4>1. l \in 0 .. k - 1 /\ (l # 0 => l - 1 \in 0 .. k /\ l - 1 # k)
        BY <1>2, <3>2
      <4>2. f[l] = IF l = 0 THEN 0 ELSE f[l - 1] + w[l - 1]
        BY <2>2, <4>1 DEF Sums
      <4> QED BY <3>2, <4>1, <4>2
    <3> QED BY <3>1, <3>2
  <2>4. DOMAIN g = 0 .. k
    OBVIOUS
  <2>5. g = [l \in 0 .. k |-> g[l]]
    OBVIOUS
  <2> HIDE DEF g
  <2>6. Sums(g, w, k)
    BY <2>3, <2>5 DEF Sums
  <2> QED BY <1>2, <2>6
<1> QED BY <1>3, <1>4

\* The function that Total() chooses is one.
LEMMA TotalIsSum ==
  ASSUME NEW w, NEW n \in Nat, DOMAIN w = 0 .. n - 1
  PROVE  \E f : Sums(f, w, n) /\ Total(w) = f[n]
<1>1. Cardinality(DOMAIN w) = n
  <2>1. Cardinality(0 .. n - 1) = n
    BY FS_Interval, n - 1 \in Int
  <2> QED BY <2>1
<1> DEFINE f == CHOOSE sum : sum = [k \in 0 .. n |-> IF k = 0 THEN 0 ELSE sum[k - 1] + w[k - 1]]
<1>2. Total(w) = f[n]
  BY <1>1 DEF Total
<1>3. Sums(f, w, n)
  BY SumsExist DEF Sums
<1> QED BY <1>2, <1>3

\* Weights that are no greater one by one, with a sum that is no less, are the same.
LEMMA TotalSame ==
  ASSUME NEW n \in Nat, NEW w \in [0 .. n - 1 -> Nat], NEW v \in [0 .. n - 1 -> Nat],
         \A i \in 0 .. n - 1 : w[i] <= v[i], Total(w) >= Total(v)
  PROVE  w = v
<1>1. PICK f : Sums(f, w, n) /\ Total(w) = f[n]
  BY TotalIsSum
<1>2. PICK g : Sums(g, v, n) /\ Total(v) = g[n]
  BY TotalIsSum
<1> DEFINE Even(k) == /\ f[k] \in Nat /\ g[k] \in Nat /\ f[k] <= g[k]
                      /\ f[k] = g[k] => \A i \in 0 .. k - 1 : w[i] = v[i]
           T == {k \in 0 .. n : ~Even(k)}
<1>3. T = {}
  <2> SUFFICES ASSUME T # {} PROVE FALSE
    OBVIOUS
  <2>1. PICK k \in T : \A l \in T : k <= l
    BY LeastNumber, T \subseteq Nat, Zenon
  <2>2. k \in 0 .. n /\ ~Even(k)
    OBVIOUS
  <2>3. /\ f[k] = IF k = 0 THEN 0 ELSE f[k - 1] + w[k - 1]
        /\ g[k] = IF k = 0 THEN 0 ELSE g[k - 1] + v[k - 1]
    BY <1>1, <1>2, <2>2 DEF Sums
  <2>4. k # 0
    BY <2>2, <2>3
  <2>5. k - 1 \in 0 .. n /\ k - 1 \in 0 .. n - 1
    BY <2>2, <2>4
  <2>6. Even(k - 1)
    <3>1. k - 1 \notin T
      BY <2>1, <2>5
    <3> QED BY <2>5, <3>1
  <2>7. w[k - 1] \in Nat /\ v[k - 1] \in Nat /\ w[k - 1] <= v[k - 1]
    BY <2>5
  <2>8. f[k] \in Nat /\ g[k] \in Nat /\ f[k] <= g[k]
        /\ (f[k] = g[k] => f[k - 1] = g[k - 1] /\ w[k - 1] = v[k - 1])
    <3> DEFINE a == f[k - 1]  b == g[k - 1]  c == w[k - 1]  d == v[k - 1]
    <3>1. /\ a \in Nat /\ b \in Nat /\ c \in Nat /\ d \in Nat /\ a <= b /\ c <= d
          /\ f[k] = a + c /\ g[k] = b + d
      BY <2>3, <2>4, <2>6, <2>7
    <3> HIDE DEF a, b, c, d
    <3>2. f[k] \in Nat /\ g[k] \in Nat /\ f[k] <= g[k] /\ (f[k] = g[k] => a = b /\ c = d)
      BY <3>1
    <3> QED BY <3>2 DEF a, b, c, d
  <2>9. ASSUME f[k] = g[k], NEW i \in 0 .. k - 1 PROVE w[i] = v[i]
    <3>1. i = k - 1 \/ i \in 0 .. (k - 1) - 1
      BY <2>2
    <3> QED BY <2>6, <2>8, <2>9, <3>1
  <2> QED BY <2>2, <2>8, <2>9
<1>4. Even(n)
  BY <1>3
<1>5. f[n] = g[n]
  BY <1>1, <1>2, <1>4
<1> QED BY <1>4, <1>5

----------------------------------------------------------------------------
(* What flags, ranks and weights say of a sector                           *)

\* Sector i of track t
Loc(t, i) == <<t[1], t[2], i>>

\* What an entry says the file has of its sector
Says(e) == IF "SECT_NOT_WRITTEN" \in e.status THEN Unread ELSE RankOf(e)

\* ... which is the rank of a read, or that there is none.
HeldRanks == ReadRanks \cup {Unread}

\* The flags of an entry tell as much as what it says.
Telling(e) ==
  IF "SECT_NOT_WRITTEN" \in e.status
  THEN /\ "SECT_ECC_RECOVERED" \notin e.status
       /\ e.status \cap {"SECT_BAD_HEADER", "SECT_BAD_DATA"} # {}
  ELSE /\ e.status \cap {"SECT_BAD_HEADER", "SECT_WRONG_CYL"} = {}
       /\ "SECT_ECC_RECOVERED" \in e.status <=> "SECT_BAD_DATA" \notin e.status /\ e.ecc \in Spans

\* The weights of sectors, ...
Weights == {0, 1, 9, 10}

\* ... the class that one says the words of the sector have, ...
WeightClass(w) == IF w = 10 THEN 0 ELSE IF w = 9 THEN 1 ELSE 2

\* ... and the weight of what the file has.
Firm(rank) == IF rank = Unread THEN 0 ELSE IF rank = Unreadable THEN 1 ELSE IF rank = 0 THEN 10 ELSE 9

\* A rank has a weight, which says its class.
LEMMA RankFacts ==
  ASSUME NEW a \in HeldRanks
  PROVE  a \in Nat /\ Firm(a) \in Weights /\ Class(a) \in 0 .. 2 /\ WeightClass(Firm(a)) = Class(a)
<1>1. /\ a \in Nat /\ (a = Unread \/ a = Unreadable \/ a < Unreadable)
      /\ Unread = 101 /\ Unreadable = 100
  BY SpansAssumption DEF HeldRanks, ReadRanks, Unreadable, Unread
<1> QED BY <1>1 DEF Firm, Class, WeightClass, Weights

\* The better read weighs more and is of a better class.
LEMMA RankOrder ==
  ASSUME NEW a \in HeldRanks, NEW b \in HeldRanks, a <= b
  PROVE  Firm(b) <= Firm(a) /\ Class(a) <= Class(b)
<1>1. /\ a \in Nat /\ (a = Unread \/ a = Unreadable \/ a < Unreadable)
      /\ b \in Nat /\ (b = Unread \/ b = Unreadable \/ b < Unreadable)
      /\ Unread = 101 /\ Unreadable = 100
  BY SpansAssumption DEF HeldRanks, ReadRanks, Unreadable, Unread
<1> QED BY <1>1 DEF Firm, Class

\* The weight of an entry is no less than that of what the file has, and of its class.
LEMMA EntrySays ==
  ASSUME NEW e \in SectorRecord, Telling(e)
  PROVE  /\ Says(e) \in HeldRanks
         /\ Weight(e.status) \in Weights
         /\ Firm(Says(e)) <= Weight(e.status)
         /\ WeightClass(Weight(e.status)) = Class(Says(e))
<1>1. e.ecc \in Spans \cup {0}
  BY DEF SectorRecord
<1>2. Unread = 101 /\ Unreadable = 100 /\ \A n \in Spans : n \in Nat /\ n # 0 /\ n < 100
  BY SpansAssumption DEF Unreadable, Unread
<1>3. CASE "SECT_NOT_WRITTEN" \in e.status
  <2>1. Says(e) = Unread
    BY <1>3 DEF Says
  <2>2. Weight(e.status) \in {0, 1}
    BY <1>3 DEF Telling, Weight
  <2> QED BY <1>2, <2>1, <2>2 DEF HeldRanks, Weights, WeightClass, Class, Firm
<1>4. CASE "SECT_NOT_WRITTEN" \notin e.status
  <2>1. Says(e) = IF "SECT_BAD_DATA" \in e.status THEN Unreadable ELSE e.ecc
    BY <1>4 DEF Says, RankOf
  <2>2. Weight(e.status) = IF "SECT_BAD_DATA" \in e.status THEN 1 ELSE IF e.ecc \in Spans THEN 9 ELSE 10
    BY <1>4 DEF Telling, Weight
  <2> QED BY <1>1, <1>2, <2>1, <2>2 DEF HeldRanks, ReadRanks, Weights, WeightClass, Class, Firm
<1> QED BY <1>3, <1>4

\* A read of a sector whose header was right has the weight of its rank.
LEMMA StatusWeight ==
  ASSUME NEW d, DecoderType(d), Headed(d.sector_status), NEW rank \in ReadRanks,
         "SECT_BAD_HEADER" \notin DataStatus(d, rank).status
  PROVE  /\ Weight(DataStatus(d, rank).status) = Firm(rank)
         /\ Telling(DataStatus(d, rank))
<1> DEFINE s == DataStatus(d, rank)
           h == d.sector_status
<1>1. /\ s \in SectorRecord
      /\ s.status = h.status \cup (IF rank = Unreadable THEN {"SECT_BAD_DATA"} ELSE {})
                             \cup (IF rank \in Spans THEN {"SECT_ECC_RECOVERED"} ELSE {})
      /\ s.ecc = (IF rank = Unreadable THEN 0 ELSE rank)
  BY DataStatusFacts
<1>2. /\ h.status \subseteq Flags
      /\ "SECT_BAD_HEADER" \notin h.status => "SECT_WRONG_CYL" \notin h.status
  BY DEF Headed
<1>3. "SECT_BAD_HEADER" \notin s.status
  OBVIOUS
<1> HIDE DEF s, h
<1>4. Unread = 101 /\ Unreadable = 100 /\ rank \in Nat /\ rank # Unread /\ Unreadable \notin Spans
      /\ (rank \in Spans \/ rank = 0 \/ rank = Unreadable) /\ 0 \notin Spans
  BY SpansAssumption DEF Unreadable, Unread, ReadRanks
<1>5. /\ s.status \cap {"SECT_BAD_HEADER", "SECT_WRONG_CYL", "SECT_NOT_WRITTEN"} = {}
      /\ "SECT_BAD_DATA" \in s.status <=> rank = Unreadable
      /\ "SECT_ECC_RECOVERED" \in s.status <=> rank \in Spans
  BY <1>1, <1>2, <1>3 DEF Flags
<1>6. Weight(s.status) = Firm(rank)
  BY <1>4, <1>5 DEF Weight, Firm
<1>7. Telling(s)
  BY <1>1, <1>4, <1>5 DEF Telling
<1> QED BY <1>6, <1>7 DEF s

\* One that does not replace the one of the file is no better.
LEMMA KeptRank ==
  ASSUME NEW d, DecoderType(d), Headed(d.sector_status), NEW rank \in ReadRanks,
         NEW e \in SectorRecord, Telling(e), ~dp.ignore_seek_errors,
         ~Better(dp, e, DataStatus(d, rank))
  PROVE  "SECT_NOT_WRITTEN" \notin e.status /\ Says(e) <= rank
<1> DEFINE s == DataStatus(d, rank)
<1>1. /\ s.ecc = (IF rank = Unreadable THEN 0 ELSE rank)
      /\ BadData(s) <=> rank = Unreadable
  BY DataStatusFacts
<1>2. ~Better(dp, e, s)
  OBVIOUS
<1> HIDE DEF s
<1>3. /\ "SECT_NOT_WRITTEN" \notin e.status
      /\ BadData(s) \/ (~BadData(e) /\ ~(e.ecc > 0 /\ (s.ecc = 0 \/ s.ecc < e.ecc)))
  BY <1>2 DEF Better
<1>4. Says(e) = IF BadData(e) THEN Unreadable ELSE e.ecc
  BY <1>3 DEF Says, RankOf, BadData
<1>5. Unreadable = 100 /\ rank \in Nat /\ rank <= 100
  BY SpansAssumption DEF Unreadable, ReadRanks
<1>6. e.ecc \in Nat /\ e.ecc <= 100
  <2>1. e.ecc \in Spans \cup {0}
    BY DEF SectorRecord
  <2>2. \A n \in Spans \cup {0} : n \in Nat /\ n <= 100
    BY SpansAssumption DEF Unreadable
  <2> QED BY <2>1, <2>2
<1>7. Says(e) <= rank
  <2>1. CASE BadData(s)
    BY <1>1, <1>4, <1>5, <1>6, <2>1
  <2>2. CASE ~BadData(s)
    <3>1. s.ecc = rank /\ Says(e) = e.ecc /\ ~(e.ecc > 0 /\ (s.ecc = 0 \/ s.ecc < e.ecc))
      BY <1>1, <1>3, <1>4, <2>2
    <3> QED BY <1>5, <1>6, <3>1
  <2> QED BY <2>1, <2>2
<1> QED BY <1>3, <1>7

----------------------------------------------------------------------------
(* What a header and the data of a sector do to the list and the file      *)

\* Every entry of a list
TellingOf(list) == \A i \in Sectors : Telling(list[i])

\* A header leaves the file and what the last read of each sector was like.
LEMMA HeaderTold ==
  ASSUME JobInv, TrackInv, drive.arm \in DOMAIN disk, NEW d, DecoderType(d), NEW sector \in Sectors,
         TellingOf(d.list)
  PROVE  LET h == ReadHeader(d, sector)
         IN /\ TellingOf(h.list)
            /\ \A i \in Sectors : h.list[i].last_status = d.list[i].last_status
<1> DEFINE h == ReadHeader(d, sector)
           e == d.list[sector]
           a == Awaiting(e, h.sector_status)
<1>1. /\ DecoderType(h) /\ Headed(h.sector_status)
      /\ h.list = [d.list EXCEPT ![sector] = Awaiting(d.list[sector], h.sector_status)]
  BY HeaderRead
<1>2. /\ e \in SectorRecord /\ h.sector_status \in SectorRecord /\ h.sector_status.status \subseteq Flags
      /\ Telling(e)
  BY <1>1 DEF DecoderType, Headed, TellingOf
<1> HIDE DEF h
<1>3. /\ "SECT_NOT_WRITTEN" \notin e.status => a = e
      /\ "SECT_NOT_WRITTEN" \in e.status =>
              a.status = h.sector_status.status \cup {"SECT_BAD_DATA", "SECT_NOT_WRITTEN"}
  BY <1>2, AwaitingRecord
<1>4. a.last_status = e.last_status
  <2> HIDE DEF e
  <2>1. CASE "SECT_NOT_WRITTEN" \notin e.status
    BY <1>3, <2>1
  <2>2. CASE "SECT_NOT_WRITTEN" \in e.status
    <3> DEFINE m == Mark(h.sector_status, {"SECT_BAD_DATA", "SECT_NOT_WRITTEN"})
    <3>1. a = [m EXCEPT !.last_status = e.last_status]
      BY <2>2 DEF Awaiting
    <3>2. "last_status" \in DOMAIN m
      BY <1>2 DEF Mark, SectorRecord
    <3> HIDE DEF m
    <3> QED BY <3>1, <3>2
  <2> QED BY <2>1, <2>2
<1>5. h.list = [d.list EXCEPT ![sector] = a]
  BY <1>1
<1> HIDE DEF a, e
<1>6. Telling(a)
  BY <1>2, <1>3 DEF Telling, Flags
<1>7. \A i \in Sectors : h.list[i] = IF i = sector THEN a ELSE d.list[i]
  BY <1>5 DEF DecoderType
<1> QED BY <1>4, <1>6, <1>7 DEF e, h, TellingOf

\* What the data of a sector does: it has none of the track's headers, ...
Refused(d, x) == x.file = d.file /\ x.list = d.list

\* ... it is no better than what the file has, ...
Kept(d, x, j, rank) ==
  /\ x.file = d.file
  /\ \A i \in Sectors \ {j} : x.list[i] = d.list[i]
  /\ TellingOf(x.list)
  /\ Weight(x.list[j].last_status) = Firm(rank)
  /\ Firm(rank) <= Firm(HeldIn(d.file)[PlaceAt(j)])

\* ... or it is better.
Replaced(d, x, j, rank) ==
  /\ HeldIn(x.file) = [HeldIn(d.file) EXCEPT ![PlaceAt(j)] = rank]
  /\ \A i \in Sectors \ {j} : x.list[i] = d.list[i]
  /\ TellingOf(x.list)
  /\ Weight(x.list[j].last_status) = Firm(rank)
  /\ Firm(HeldIn(d.file)[PlaceAt(j)]) <= Firm(rank)
  /\ Class(rank) <= Class(HeldIn(d.file)[PlaceAt(j)])

\* The list of the track says what the file has.
LEMMA ListSays ==
  ASSUME NEW d, ListOf(d), DecoderType(d), ~dp.ignore_seek_errors, NEW i \in Sectors, Telling(d.list[i])
  PROVE  HeldIn(d.file)[PlaceAt(i)] = Says(d.list[i]) /\ Says(d.list[i]) \in HeldRanks
<1>1. d.list[i] \in SectorRecord
  BY DEF DecoderType
<1> QED BY <1>1, EntrySays DEF ListOf, Says

\* It does one of the three, and mends the image only with a better read of its track.
LEMMA DataTold ==
  ASSUME JobInv, TrackInv, NEW d, DecoderType(d), Headed(d.sector_status), NEW rank \in ReadRanks,
         HoldOf(d), TellingOf(d.list), ~dp.ignore_seek_errors
  PROVE  LET x == ReadData(d, rank)
             j == d.sector_status.sector
             improves == Improves(d, rank)
         IN /\ TellingOf(x.list)
            /\ \/ Refused(d, x) /\ ~improves
               \/ /\ Kept(d, x, j, rank) /\ ~improves
                  /\ PlaceOf(DataStatus(d, rank)) = PlaceAt(j)
               \/ /\ Replaced(d, x, j, rank) /\ (improves <=> at = last.track)
                  /\ PlaceOf(DataStatus(d, rank)) = PlaceAt(j)
<1> DEFINE x == ReadData(d, rank)
           s == DataStatus(d, rank)
           j == d.sector_status.sector
           e == d.list[j]
           held == HeldIn(d.file)
<1>1. /\ s \in SectorRecord
      /\ s.sector = j /\ s.head = d.sector_status.head /\ s.cyl = d.sector_status.cyl
  BY DataStatusFacts
<1>2. j \in Sectors /\ s.head = try.head
  BY <1>1 DEF Headed
<1>3. NotTaken(d, s, x) \/ Taken(d, s, rank, x)
  BY DataRead
<1>4. ListOf(d) /\ e \in SectorRecord /\ Telling(e) /\ d.list \in [Sectors -> SectorRecord]
  BY <1>2 DEF HoldOf, DecoderType, TellingOf
<1>5. /\ held[PlaceAt(j)] = Says(e) /\ Says(e) \in HeldRanks
  BY <1>2, <1>4, ListSays
<1>6. Writes(s) <=> "SECT_BAD_HEADER" \notin s.status
  BY <1>1 DEF Writes, SectorRecord
<1>7. Improves(d, rank) <=> /\ "SECT_BAD_HEADER" \notin s.status
                            /\ Better(dp, e, s)
                            /\ <<s.cyl, s.head>> = last.track
  <2>1. SectRel0(dp, s) = j
    <3>1. j \in Int /\ dp.first_sector_number = 0
      BY <1>2, JobFacts DEF Sectors
    <3> QED BY <1>1, <3>1 DEF SectRel0
  <2> QED BY <1>6, <2>1 DEF Improves
<1>8. "SECT_BAD_HEADER" \notin s.status => Weight(s.status) = Firm(rank) /\ Telling(s)
  BY StatusWeight
<1>p. "SECT_BAD_HEADER" \notin s.status => PlaceOf(s) = PlaceAt(j)
  <2>1. d.sector_status.status \subseteq s.status
    BY DataStatusFacts
  <2>2. "SECT_BAD_HEADER" \notin s.status => d.sector_status.cyl = try.cyl
    BY <2>1 DEF Headed
  <2> HIDE DEF s
  <2> QED BY <1>1, <1>2, <2>2 DEF PlaceOf, PlaceAt
<1>9. rank \in HeldRanks
  BY DEF HeldRanks
<1>10. CASE NotTaken(d, s, x) /\ "SECT_BAD_HEADER" \in s.status
  <2>1. Refused(d, x)
    BY <1>10 DEF NotTaken, Refused
  <2> QED BY <1>7, <1>10, <2>1 DEF Refused
<1>11. CASE NotTaken(d, s, x) /\ "SECT_BAD_HEADER" \notin s.status
  <2> DEFINE l == [e EXCEPT !.last_status = s.status]
  <2> HIDE DEF s, x
  <2>1. /\ ~Better(dp, e, s) /\ x.file = d.file
        /\ x.list = [d.list EXCEPT ![j] = l]
    BY <1>1, <1>11 DEF NotTaken
  <2>2. "SECT_NOT_WRITTEN" \notin e.status /\ Says(e) <= rank
    BY <1>4, <2>1, KeptRank DEF s
  <2>3. Firm(rank) <= Firm(held[PlaceAt(j)])
    BY <1>5, <1>9, <2>2, RankOrder
  <2>4. l.status = e.status /\ l.ecc = e.ecc /\ l.last_status = s.status
    <3> HIDE DEF e
    <3> QED BY <1>4 DEF SectorRecord
  <2> HIDE DEF l
  <2>5. Telling(l)
    BY <1>4, <2>4 DEF Telling
  <2>6. \A i \in Sectors : x.list[i] = IF i = j THEN l ELSE d.list[i]
    BY <1>2, <1>4, <2>1
  <2>7. TellingOf(x.list)
    BY <2>5, <2>6 DEF TellingOf
  <2>8. Kept(d, x, j, rank)
    BY <1>2, <1>8, <1>11, <2>1, <2>3, <2>4, <2>6, <2>7 DEF Kept
  <2> QED BY <1>7, <1>p, <1>11, <2>1, <2>7, <2>8 DEF x, s
<1>12. CASE Taken(d, s, rank, x)
  <2> DEFINE l == [s EXCEPT !.last_status = s.status]
  <2>1. /\ "SECT_BAD_HEADER" \notin s.status /\ Better(dp, e, s)
        /\ x.file = Stored(d.file, OffsetOf(PlaceOf(s)), [place |-> PlaceOf(s), rank |-> rank])
        /\ x.list = [d.list EXCEPT ![j] = l]
    BY <1>1, <1>12 DEF Taken
  <2>2. PlaceOf(s) = PlaceAt(j) /\ rank < held[PlaceAt(j)]
    <3>1. Better(dp, d.list[s.sector], s)
      BY <1>1, <2>1
    <3>2. /\ PlaceOf(s) = PlaceAt(s.sector)
          /\ rank < held[PlaceOf(s)]
      BY <1>4, <2>1, <3>1, BetterRead
    <3> HIDE DEF s
    <3> QED BY <1>1, <3>2
  <2>3. rank <= held[PlaceAt(j)]
    BY <1>5, <1>9, <2>2, RankFacts
  <2>4. Firm(held[PlaceAt(j)]) <= Firm(rank) /\ Class(rank) <= Class(held[PlaceAt(j)])
    BY <1>5, <1>9, <2>3, RankOrder
  <2>5. HeldIn(x.file) = [held EXCEPT ![PlaceAt(j)] = rank]
    <3>1. PlaceAt(j) \in Places
      BY <1>2, TrackPlaces
    <3> HIDE DEF s, x
    <3> QED BY <2>1, <2>2, <3>1, StoredHolds
  <2>6. <<s.cyl, s.head>> = at
    BY <2>2 DEF PlaceOf, PlaceAt, at
  <2> HIDE DEF s, x
  <2>7. l.status = s.status /\ l.ecc = s.ecc /\ l.last_status = s.status
    BY <1>1 DEF SectorRecord
  <2> HIDE DEF l
  <2>8. Telling(l)
    BY <1>8, <2>1, <2>7 DEF Telling
  <2>9. \A i \in Sectors : x.list[i] = IF i = j THEN l ELSE d.list[i]
    BY <1>2, <1>4, <2>1
  <2>10. TellingOf(x.list)
    BY <1>4, <2>8, <2>9 DEF TellingOf
  <2>11. Replaced(d, x, j, rank)
    BY <1>2, <1>8, <2>1, <2>4, <2>5, <2>7, <2>9, <2>10 DEF Replaced
  <2>12. Improves(d, rank) <=> at = last.track
    BY <1>7, <2>1, <2>6
  <2> QED BY <2>2, <2>10, <2>11, <2>12 DEF x, s
<1> QED BY <1>3, <1>10, <1>11, <1>12

----------------------------------------------------------------------------
(* What the steps do to the words of the image                             *)

\* The words of the image, of which update_stats() keeps several
EmuFields == {"current", "best", "best_weight", "fixed", "fixed_weight", "spilt", "file"}

\* Everything but the words of the present read and the track put together is as in e.
SameBest(u, e) ==
  /\ EmuFields \subseteq DOMAIN u
  /\ u.best = e.best /\ u.best_weight = e.best_weight
  /\ u.fixed_weight = e.fixed_weight /\ u.file = e.file

\* ... or the track put together.
SameFixed(u, e) == u.fixed = e.fixed /\ (u.spilt <=> e.spilt)

\* The word of sector j is put into the track, or that of the next sector with it.
Mended(u, e, j, slot) ==
  /\ DOMAIN u.fixed = DOMAIN e.fixed
  /\ ~u.spilt => /\ ~e.spilt
                 /\ j = Len(e.current)
                 /\ \A i \in DOMAIN e.fixed : u.fixed[i] = IF i = j + 1 THEN slot ELSE e.fixed[i]

\* The word of a sector is gathered, ...
LEMMA WordGathered ==
  ASSUME EmuFields \subseteq DOMAIN emu, NEW slot
  PROVE  LET g == Gathered(emu, slot)
         IN /\ g.current = Append(emu.current, slot)
            /\ SameBest(g, emu) /\ SameFixed(g, emu)
<1> DEFINE g == Gathered(emu, slot)
<1>1. g = [emu EXCEPT !.current = Append(emu.current, slot)]
  BY DEF Gathered
<1> DEFINE c == Append(emu.current, slot)
<1> HIDE DEF g, c
<1>2. g.current = c /\ SameBest(g, emu) /\ SameFixed(g, emu)
  BY <1>1 DEF EmuFields, SameBest, SameFixed, c
<1> QED BY <1>2 DEF g, c

\* ... and mends the track if its sector got better.
LEMMA TrackMended ==
  ASSUME EmuFields \subseteq DOMAIN emu, emu.current \in Seq(Slots), NEW slot \in Slots, NEW d,
         NEW rank, NEW j \in Nat, SectRel0(dp, d.sector_status) = j, j <= Len(emu.current)
  PROVE  LET u == update_emu_track_sector(Gathered(emu, slot), d, rank)
         IN /\ u.current = Append(emu.current, slot)
            /\ SameBest(u, emu)
            /\ ~Improves(d, rank) => SameFixed(u, emu)
            /\ Improves(d, rank) => Mended(u, emu, j, slot)
<1> DEFINE g == Gathered(emu, slot)
           u == update_emu_track_sector(g, d, rank)
           c == Append(emu.current, slot)
           fixed == [i \in DOMAIN g.fixed |-> IF i \in j + 1 .. Len(c) THEN c[i] ELSE g.fixed[i]]
           spilt == g.spilt \/ Len(c) > j + 1
           m == [g EXCEPT !.fixed = fixed, !.spilt = spilt]
<1>1. g.current = c /\ SameBest(g, emu) /\ SameFixed(g, emu)
  BY WordGathered
<1>2. u = IF Improves(d, rank) THEN m ELSE g
  <2> HIDE DEF g, c
  <2> QED BY <1>1 DEF update_emu_track_sector
<1>3. Len(c) = Len(emu.current) + 1 /\ c[Len(emu.current) + 1] = slot
  OBVIOUS
<1>4. Len(emu.current) \in Nat
  OBVIOUS
<1> HIDE DEF c, g, fixed, spilt, u
<1>5. CASE Improves(d, rank)
  <2>1. u = m
    BY <1>2, <1>5
  <2>2. /\ u.current = c /\ SameBest(u, emu) /\ u.fixed = fixed /\ u.spilt = spilt
    BY <1>1, <2>1 DEF SameBest, EmuFields
  <2>3. DOMAIN fixed = DOMAIN emu.fixed
    BY <1>1 DEF fixed, SameFixed
  <2>4. ASSUME ~u.spilt
        PROVE  /\ ~emu.spilt /\ j = Len(emu.current)
               /\ \A i \in DOMAIN emu.fixed : u.fixed[i] = IF i = j + 1 THEN slot ELSE emu.fixed[i]
    <3>1. ~g.spilt /\ ~(Len(c) > j + 1)
      BY <2>2, <2>4 DEF spilt
    <3>2. ~emu.spilt /\ j = Len(emu.current)
      BY <1>1, <1>3, <1>4, <3>1 DEF SameFixed
    <3>3. \A i : i \in j + 1 .. Len(c) <=> i = j + 1
      BY <1>3, <1>4, <3>2
    <3>4. \A i \in DOMAIN emu.fixed : fixed[i] = IF i = j + 1 THEN slot ELSE emu.fixed[i]
      BY <1>1, <1>3, <3>2, <3>3 DEF fixed, SameFixed
    <3> QED BY <2>2, <3>2, <3>4
  <2> QED BY <1>5, <2>2, <2>3, <2>4 DEF Mended, c, u, g
<1>6. CASE ~Improves(d, rank)
  <2>1. u = g
    BY <1>2, <1>6
  <2> QED BY <1>1, <1>6, <2>1 DEF u, g, c
<1> QED BY <1>5, <1>6

----------------------------------------------------------------------------
(* What one sector does                                                    *)

\* The header of a sector whose data mark was missed is one that was read before.
MissedInv == main = "decode" /\ r.state = "MARK_DATA" => r.sector_status.sector < processed

\* The image has all of its fields.
WordsInv == EmuFields \subseteq DOMAIN emu

\* The word is that of sector j with the data that was read, unless nothing could be.
ReadAs(slot, j, rank) ==
  \/ j = processed /\ slot = [place |-> PlaceAt(j), rank |-> rank]
  \/ j < processed /\ rank = Unreadable

\* What reading the next sector does, seen from the list, the file and the words: it
\* tells of sector j, with the data of that rank.
SectorRead(j, rank, slot) ==
  /\ emu'.current = Append(emu.current, slot)
  /\ SameBest(emu', emu)
  /\ TellingOf(r'.list)
  /\ r'.state = "MARK_DATA" => r'.sector_status.sector <= processed
  /\ \A i \in Sectors \ {j} : r'.list[i].last_status = r.list[i].last_status
  /\ \/ /\ HeldIn(r'.file) = HeldIn(r.file)
        /\ r'.list[j].last_status = r.list[j].last_status
        /\ j = processed
        /\ SameFixed(emu', emu)
     \/ /\ HeldIn(r'.file) = HeldIn(r.file)
        /\ Weight(r'.list[j].last_status) = Firm(rank)
        /\ Firm(rank) <= Firm(HeldIn(r.file)[PlaceAt(j)])
        /\ ReadAs(slot, j, rank)
        /\ SameFixed(emu', emu)
     \/ /\ HeldIn(r'.file) = [HeldIn(r.file) EXCEPT ![PlaceAt(j)] = rank]
        /\ Weight(r'.list[j].last_status) = Firm(rank)
        /\ Firm(HeldIn(r.file)[PlaceAt(j)]) <= Firm(rank)
        /\ Class(rank) <= Class(HeldIn(r.file)[PlaceAt(j)])
        /\ ReadAs(slot, j, rank)
        /\ IF at = last.track THEN Mended(emu', emu, j, slot) ELSE SameFixed(emu', emu)

\* What DataTold says of a decoder d, with the words
LEMMA DataReadAs ==
  ASSUME JobInv, TrackInv, ~dp.ignore_seek_errors, WordsInv, emu.current \in Seq(Slots),
         Len(emu.current) = processed, processed \in Sectors,
         NEW d, DecoderType(d), Headed(d.sector_status), HoldOf(d), TellingOf(d.list),
         d.file = r.file, \A i \in Sectors : d.list[i].last_status = r.list[i].last_status,
         NEW rank \in ReadRanks, NEW slot \in Slots,
         \/ d.sector_status.sector = processed /\ slot = Content(DataStatus(d, rank), rank)
         \/ d.sector_status.sector < processed /\ rank = Unreadable,
         r' = ReadData(d, rank),
         emu' = update_emu_track_sector(Gathered(emu, slot), d, rank)
  PROVE  \E j \in Sectors : SectorRead(j, rank, slot)
<1> DEFINE j == d.sector_status.sector
           s == DataStatus(d, rank)
<1>1. j \in Sectors
  BY DEF Headed
<1>2. j \in Nat /\ processed \in Nat /\ j <= processed
  BY <1>1 DEF Sectors
<1>3. SectRel0(dp, d.sector_status) = j
  BY <1>2, JobFacts DEF SectRel0
<1>4. /\ emu'.current = Append(emu.current, slot)
      /\ SameBest(emu', emu)
      /\ ~Improves(d, rank) => SameFixed(emu', emu)
      /\ Improves(d, rank) => Mended(emu', emu, j, slot)
  BY <1>2, <1>3, TrackMended DEF WordsInv
<1>5. r'.state = "MARK_ID"
  BY DataRead
<1>6. /\ TellingOf(r'.list)
      /\ \/ Refused(d, r') /\ ~Improves(d, rank)
         \/ /\ Kept(d, r', j, rank) /\ ~Improves(d, rank)
            /\ PlaceOf(s) = PlaceAt(j)
         \/ /\ Replaced(d, r', j, rank) /\ (Improves(d, rank) <=> at = last.track)
            /\ PlaceOf(s) = PlaceAt(j)
  BY DataTold
<1>7. PlaceOf(s) = PlaceAt(j) => ReadAs(slot, j, rank)
  BY DEF ReadAs, Content, PlaceOf
<1> HIDE DEF s
<1>8. CASE Refused(d, r') /\ ~Improves(d, rank)
  <2>1. r'.list = d.list /\ r'.file = r.file
    BY <1>8 DEF Refused
  <2>2. SectorRead(processed, rank, slot)
    BY <1>4, <1>5, <1>6, <1>8, <2>1 DEF SectorRead
  <2> QED BY <2>2
<1>9. CASE Kept(d, r', j, rank) /\ ~Improves(d, rank) /\ PlaceOf(s) = PlaceAt(j)
  <2>1. /\ r'.file = r.file
        /\ \A i \in Sectors \ {j} : r'.list[i].last_status = r.list[i].last_status
        /\ Weight(r'.list[j].last_status) = Firm(rank)
        /\ Firm(rank) <= Firm(HeldIn(r.file)[PlaceAt(j)])
    BY <1>9 DEF Kept
  <2>2. SectorRead(j, rank, slot)
    BY <1>4, <1>5, <1>6, <1>7, <1>9, <2>1 DEF SectorRead
  <2> QED BY <1>1, <2>2
<1>10. CASE /\ Replaced(d, r', j, rank) /\ (Improves(d, rank) <=> at = last.track)
            /\ PlaceOf(s) = PlaceAt(j)
  <2>1. /\ HeldIn(r'.file) = [HeldIn(r.file) EXCEPT ![PlaceAt(j)] = rank]
        /\ \A i \in Sectors \ {j} : r'.list[i].last_status = r.list[i].last_status
        /\ Weight(r'.list[j].last_status) = Firm(rank)
        /\ Firm(HeldIn(r.file)[PlaceAt(j)]) <= Firm(rank)
        /\ Class(rank) <= Class(HeldIn(r.file)[PlaceAt(j)])
    BY <1>10 DEF Replaced
  <2>2. IF at = last.track THEN Mended(emu', emu, j, slot) ELSE SameFixed(emu', emu)
    BY <1>4, <1>10
  <2>3. SectorRead(j, rank, slot)
    BY <1>4, <1>5, <1>6, <1>7, <1>10, <2>1, <2>2 DEF SectorRead
  <2> QED BY <1>1, <2>3
<1> QED BY <1>6, <1>8, <1>9, <1>10

\* A header has the number of its sector.
LEMMA HeaderNumber ==
  ASSUME JobInv, TrackInv, drive.arm \in DOMAIN disk, NEW d, DecoderType(d), NEW sector \in Sectors
  PROVE  ReadHeader(d, sector).sector_status.sector = sector
<1> DEFINE h == ReadHeader(d, sector)
<1>1. /\ DecoderType(h) /\ h.state = "MARK_DATA"
      /\ DOMAIN h = DOMAIN d /\ h.file = d.file /\ h.good = d.good /\ h.crc = d.crc
      /\ Headed(h.sector_status) /\ h.sector_status.sector = sector
      /\ h.list = [d.list EXCEPT ![sector] = Awaiting(d.list[sector], h.sector_status)]
  BY HeaderRead
<1> HIDE DEF h
<1>2. h.sector_status.sector = sector
  BY <1>1
<1> QED BY <1>2 DEF h

\* The next sector of a track, whatever is seen of it
LEMMA SectorSummary ==
  ASSUME JobInv, TrackInv, DriveInv, DecoderInv, HoldInv, IInv, CountsInv, ~dp.ignore_seek_errors,
         MissedInv, WordsInv, TellingOf(r.list), DecodeSector
  PROVE  /\ processed \in Sectors
         /\ \E j \in Sectors, rank \in ReadRanks, slot \in Slots : SectorRead(j, rank, slot)
<1>1. PICK seen \in MayRead(processed) : ReadSector(processed, seen) \/ MissHeader(seen)
  BY DEF DecodeSector
<1>2. processed \in Sectors
  <2>1. processed \in Nat /\ processed < num_deltas /\ num_deltas \in Nat /\ num_deltas <= MaxDeltas
    BY DEF DecodeSector, Process, CountsInv, IInv, DeltaTypeOK
  <2> QED BY <2>1, JobFacts DEF Sectors
<1>3. drive.arm \in DOMAIN disk
  BY JobFacts DEF DriveInv
<1>4. seen.header \in BOOLEAN /\ seen.mark \in BOOLEAN /\ seen.rank \in ReadRanks
  BY <1>1, <1>3, SeenFacts
<1>5. /\ DecoderType(r) /\ HoldOf(r) /\ main = "decode"
      /\ r.state = "MARK_DATA" => Headed(r.sector_status)
      /\ r.state = "MARK_DATA" => r.sector_status.sector < processed
      /\ emu.current \in Seq(Slots) /\ Len(emu.current) = processed
  <2>1. main = "decode"
    BY DEF DecodeSector
  <2>2. DecoderType(r) /\ HoldOf(r) /\ emu.current \in Seq(Slots) /\ Len(emu.current) = processed
    BY <2>1 DEF DecoderInv, HoldInv
  <2>3. r.state = "MARK_DATA" => Headed(r.sector_status)
    BY <2>1 DEF DecoderInv
  <2>4. r.state = "MARK_DATA" => r.sector_status.sector < processed
    BY <2>1 DEF MissedInv
  <2> QED BY <2>1, <2>2, <2>3, <2>4
<1>6. Unreadable \in ReadRanks /\ Unseen \in Slots
  BY DEF ReadRanks, Unseen, Slots
<1>7. processed \in Nat
  BY <1>2 DEF Sectors
<1>d. DecoderType(r) /\ HoldOf(r)
  BY <1>5
<1>8. CASE ReadSector(processed, seen)
  <2> DEFINE h == ReadHeader(r, processed)
             slot == IF seen.mark THEN Content(h.sector_status, seen.rank) ELSE Unseen
  <2>1. /\ DecoderType(h) /\ Headed(h.sector_status) /\ h.file = r.file
        /\ h.sector_status.sector = processed
    <3>1. DecoderType(h) /\ Headed(h.sector_status) /\ h.file = r.file
      BY <1>2, <1>3, <1>d, HeaderRead
    <3>2. h.sector_status.sector = processed
      BY <1>2, <1>3, <1>d, HeaderNumber
    <3> QED BY <3>1, <3>2
  <2>2. HoldOf(h)
    BY <1>2, <1>3, <1>d, HeaderHeld
  <2>3. TellingOf(h.list) /\ \A i \in Sectors : h.list[i].last_status = r.list[i].last_status
    BY <1>2, <1>3, <1>d, HeaderTold
  <2>4. /\ r' = IF seen.mark THEN ReadData(h, seen.rank) ELSE h
        /\ emu' = IF seen.mark THEN update_emu_track_sector(Gathered(emu, slot), h, seen.rank)
                  ELSE Gathered(emu, slot)
    BY <1>8 DEF ReadSector
  <2> HIDE DEF h
  <2>5. Content(h.sector_status, seen.rank) \in Slots
    BY <1>4, <2>1 DEF Content, Slots, Headed
  <2>6. slot \in Slots
    BY <1>6, <2>5
  <2>7. Content(DataStatus(h, seen.rank), seen.rank) = Content(h.sector_status, seen.rank)
    BY <1>4, <2>1, DataStatusFacts DEF Content
  <2>8. CASE seen.mark
    <3>1. /\ r' = ReadData(h, seen.rank)
          /\ emu' = update_emu_track_sector(Gathered(emu, slot), h, seen.rank)
          /\ slot = Content(DataStatus(h, seen.rank), seen.rank)
      BY <2>4, <2>7, <2>8
    <3> HIDE DEF slot
    <3>2. \E j \in Sectors : SectorRead(j, seen.rank, slot)
      BY <1>2, <1>4, <1>5, <2>1, <2>2, <2>3, <2>6, <3>1, DataReadAs
    <3> QED BY <1>2, <1>4, <2>6, <3>2
  <2>9. CASE ~seen.mark
    <3>1. r' = h /\ emu' = Gathered(emu, slot)
      BY <2>4, <2>9
    <3> HIDE DEF slot
    <3>2. emu'.current = Append(emu.current, slot) /\ SameBest(emu', emu) /\ SameFixed(emu', emu)
      BY <3>1, WordGathered DEF WordsInv
    <3>3. SectorRead(processed, seen.rank, slot)
      BY <1>2, <1>7, <2>1, <2>3, <3>1, <3>2 DEF SectorRead
    <3> QED BY <1>2, <1>4, <2>6, <3>3
  <2> QED BY <2>8, <2>9
<1>9. CASE MissHeader(seen)
  <2>1. /\ r' = IF r.state = "MARK_DATA" THEN ReadData(r, Unreadable) ELSE r
        /\ emu' = IF r.state = "MARK_DATA"
                  THEN update_emu_track_sector(Gathered(emu, Unseen), r, Unreadable)
                  ELSE Gathered(emu, Unseen)
    BY <1>9 DEF MissHeader
  <2>2. CASE r.state = "MARK_DATA"
    <3>1. /\ r' = ReadData(r, Unreadable)
          /\ emu' = update_emu_track_sector(Gathered(emu, Unseen), r, Unreadable)
      BY <2>1, <2>2
    <3>2. \E j \in Sectors : SectorRead(j, Unreadable, Unseen)
      BY <1>2, <1>5, <1>6, <2>2, <3>1, DataReadAs
    <3> QED BY <1>2, <1>6, <3>2
  <2>3. CASE r.state # "MARK_DATA"
    <3>1. r' = r /\ emu' = Gathered(emu, Unseen)
      BY <2>1, <2>3
    <3>2. emu'.current = Append(emu.current, Unseen) /\ SameBest(emu', emu) /\ SameFixed(emu', emu)
      BY <3>1, WordGathered DEF WordsInv
    <3>3. SectorRead(processed, Unreadable, Unseen)
      BY <1>2, <2>3, <3>1, <3>2 DEF SectorRead
    <3> QED BY <1>2, <1>6, <3>3
  <2> QED BY <2>2, <2>3
<1> QED BY <1>1, <1>2, <1>8, <1>9

----------------------------------------------------------------------------
(* The invariant                                                           *)

\* What the file has of sector i of track t
HeldAt(t, i) == HeldIn(r.file)[Loc(t, i)]

\* The class of a word of the image, if it is of that sector
ClassAt(word, place) == IF word.place = place THEN Class(word.rank) ELSE 2

\* The words of a track are as good as its sectors in the file.
WordsTell(words, t) == \A i \in Sectors : ClassAt(words[i + 1], Loc(t, i)) <= Class(HeldAt(t, i))

\* The tracks of the job, ...
JobTracks == (0 .. dp.num_cyl - 1) \X (0 .. dp.num_head - 1)

\* ... those that have been read, ...
Before(t) == t[1] < try.cyl \/ (t[1] = try.cyl /\ t[2] < try.head)

\* ... and the one after t.
NextAfter(t) == IF t[2] + 1 < dp.num_head THEN <<t[1], t[2] + 1>> ELSE <<t[1] + 1, 0>>

\* The status of a read that is over is seen when the drive's revolution is.
WholeInv ==
  /\ main \in {"exec", "decode"} /\ ~Busy /\ PRU0_CMD \notin Faults => PRU0_WRITE_PTR = MaxDeltas
  /\ main = "decode" /\ (~streaming \/ pru_finished_read) => PRU0_CMD \notin Faults

\* The track update_stats() saw last is the present one or the one before it.
LastInv ==
  /\ last.track = NoTrack => pc = "done" \/ at = <<0, 0>>
  /\ last.track # NoTrack => /\ pc # "done" /\ last.track \in JobTracks
                             /\ last.track = at \/ at = NextAfter(last.track)
  /\ pc \in {"end", "correct"} => last.track = at

\* Its list says what the file has of it, except while it is read again.
ListInv ==
  last.track # NoTrack =>
    /\ DOMAIN last.list = Sectors
    /\ last.track # at \/ main \in {"idle", "exec"} =>
         \A i \in Sectors : /\ Telling(last.list[i]) /\ last.list[i] \in SectorRecord
                            /\ HeldAt(last.track, i) = Says(last.list[i])

\* The words of the present read are as good as the weights of it.
SeenInv ==
  main = "decode" =>
    \A i \in Sectors :
      LET seen == Weight(r.list[i].last_status)
      IN /\ seen \in Weights /\ seen <= Firm(HeldAt(at, i))
         /\ IF i < Len(emu.current) THEN ClassAt(emu.current[i + 1], PlaceAt(i)) <= WeightClass(seen)
            ELSE seen = 0

\* Those of the first read of a track are as good as the file.
FirstInv ==
  pc # "done" /\ last.track # at =>
    \A i \in Sectors :
      IF i < Len(emu.current) THEN ClassAt(emu.current[i + 1], PlaceAt(i)) <= Class(HeldAt(at, i))
      ELSE HeldAt(at, i) = Unread

\* The words of a read, each no better than its part of the weight, which is one the
\* file has
Weighed(words, weight, t) ==
  \E w \in [Sectors -> Weights] :
    /\ weight = Total(w)
    /\ \A i \in Sectors : /\ ClassAt(words[i + 1], Loc(t, i)) <= WeightClass(w[i])
                          /\ w[i] <= Firm(HeldAt(t, i))

\* The best read of the track has such words.
BestInv == last.track # NoTrack => Weighed(emu.best, emu.best_weight, last.track)

\* The track put together of several reads is as good as the file.
FixedInv ==
  last.track # NoTrack =>
    /\ emu.fixed_weight = BestWeight(last.list)
    /\ DOMAIN emu.fixed = 1 .. MaxDeltas
    /\ ~emu.spilt => WordsTell(emu.fixed, last.track)

\* The track that was written last is not read any more.
FileInv ==
  /\ emu.file.track # NoTrack /\ pc # "done" => emu.file.track \in JobTracks /\ Before(emu.file.track)
  /\ emu.file.track # NoTrack /\ ~emu.file.spilt => WordsTell(emu.file.words, emu.file.track)

\* What all of this is about
Imaging == ~dp.ignore_seek_errors /\ Sectors # {}

\* All that is true while an image is written
ImageParts ==
  /\ TellingOf(r.list) /\ MissedInv /\ WordsInv /\ LastInv /\ ListInv
  /\ SeenInv /\ FirstInv /\ BestInv /\ FixedInv /\ FileInv

\* With ignore_seek_errors there is no image.
NoImage == dp.ignore_seek_errors => EmuFields \subseteq DOMAIN emu /\ emu.file.track = NoTrack

\* The inductive invariant, together with ReaderInv
ImageInv == WholeInv /\ NoImage /\ (Imaging => ImageParts)
----------------------------------------------------------------------------

\* The statuses PRU 0 ends a read with
LEMMA WholeStep ==
  ASSUME JobInv, IInv, WholeInv, [Next]_vars
  PROVE  WholeInv'
<1> USE DEF Busy, Faults, Warnings
<1>0. dp.num_sectors = MaxDeltas
  BY JobFacts
<1>1. /\ main = "exec" => Waiting
      /\ main = "decode" =>
           /\ streaming => (pru_finished_read => ~Busy)
           /\ streaming /\ thread \in {"write", "complete"} => pru_finished_read
           /\ ~streaming => Waiting /\ ~Busy
  BY DEF IInv, ExecInv, DecodeInv, ThreadInv
<1>2. CASE \/ NoSeek \/ EnableRecovery \/ MicroStep \/ SeekAway \/ SeekBack \/ NowhereToSeek
           \/ GoToTrack \/ CorrectSeek \/ NextTrack \/ mfm_decode_done \/ UNCHANGED vars
  <2>1. UNCHANGED deltaVars
    BY <1>2 DEF NoSeek, EnableRecovery, MicroStep, SeekAway, SeekBack, NowhereToSeek, GoToTrack,
                CorrectSeek, NextTrack, mfm_decode_done, vars
  <2> QED BY <2>1 DEF WholeInv, deltaVars
<1>3. CASE ReadTrack
  BY <1>3 DEF ReadTrack, ExecRead, WholeInv
<1>4. CASE StartDecode
  BY <1>1, <1>4 DEF StartDecode, deltas_start_read, deltas_update_count, WholeInv, Waiting, pruVars, localVars
<1>5. CASE Failed \/ StopThread \/ Join \/ SigInt
  BY <1>5 DEF Failed, ReadFailed, StopThread, Stop, deltas_stop_thread, Join, Joined, SigInt, Interrupt, WholeInv
<1>6. CASE EndDecode
  BY <1>6 DEF EndDecode, Decoded, WholeInv
<1>7. CASE DecodeSector
  BY <1>7 DEF DecodeSector, Process, WholeInv, pruVars, localVars, countVars
<1>8. CASE DeltaThread
  <2>1. CASE WaitRead \/ WriteDeltas
    BY <2>1 DEF WaitRead, WriteDeltas, WholeInv, pruVars, localVars, countVars
  <2>2. CASE CopyDeltas
    BY <2>2 DEF CopyDeltas, deltas_update_count, WholeInv, pruVars
  <2>3. CASE CheckStatus
    BY <2>3 DEF CheckStatus, WholeInv, pruVars, countVars
  <2>4. CASE Complete
    BY <1>1, <2>4 DEF Complete, deltas_update_count, WholeInv, Waiting, pruVars
  <2> QED BY <1>8, <2>1, <2>2, <2>3, <2>4 DEF DeltaThread, delta_proc
<1>9. CASE PruRead
  <2>1. CASE PruStart
    BY <1>1, <2>1 DEF PruStart, WholeInv, localVars, countVars, IInv, DecodeInv
  <2>2. CASE PruCapture
    BY <1>1, <2>2 DEF PruCapture, WholeInv, localVars, countVars
  <2>3. CASE PRU0_WRITE_PTR = dp.num_sectors /\ \E status \in {"CMD_STATUS_OK"} \cup Warnings : PruFinish(status)
    BY <1>0, <1>1, <2>3 DEF PruFinish, WholeInv, localVars, countVars
  <2> QED BY <1>9, <2>1, <2>2, <2>3 DEF PruRead
<1>10. CASE NoIndex
  BY <1>1, <1>10 DEF NoIndex, PruFinish, WholeInv, localVars, countVars, Waiting
<1> QED
  BY <1>2, <1>3, <1>4, <1>5, <1>6, <1>7, <1>8, <1>9, <1>10 DEF Next, Reader

\* A read that is through has had all sectors.
LEMMA AllDecoded ==
  ASSUME IInv, WholeInv, Decoded
  PROVE  processed = MaxDeltas
<1>1. /\ main = "decode" /\ ~streaming /\ processed >= num_deltas
      /\ processed \in Nat /\ num_deltas \in Nat
  BY DEF Decoded, AllProcessed, IInv, DeltaTypeOK
<1>2. processed <= num_deltas /\ ~Busy /\ num_deltas = PRU0_WRITE_PTR
  BY <1>1 DEF IInv, DecodeInv
<1>3. PRU0_WRITE_PTR = MaxDeltas
  BY <1>1, <1>2 DEF WholeInv
<1> QED BY <1>1, <1>2, <1>3

\* What a step leaves in the file
LEMMA HeldAfter ==
  ASSUME dp' = dp
  PROVE  HeldIn(r.file)' = HeldIn(r'.file)
BY DEF HeldIn, OffsetOf, Offset, SectRel0

\* The sectors of the tracks are places of the disk, and those of another track are not
\* the ones of this.
LEMMA TrackApart ==
  ASSUME JobInv, TrackInv, NEW t \in JobTracks, NEW i \in Sectors, NEW j \in Sectors
  PROVE  /\ Loc(t, i) \in Places /\ Loc(at, i) = PlaceAt(i)
         /\ t # at => Loc(t, i) # PlaceAt(j)
         /\ i # j => PlaceAt(i) # PlaceAt(j)
<1>1. t[1] \in 0 .. dp.num_cyl - 1 /\ t[2] \in 0 .. dp.num_head - 1 /\ t = <<t[1], t[2]>>
  BY DEF JobTracks
<1>2. Loc(t, i) \in Places
  BY <1>1, PlaceFacts DEF Loc
<1>3. Loc(at, i) = PlaceAt(i)
  BY DEF Loc, at, PlaceAt
<1>4. t # at => Loc(t, i) # PlaceAt(j)
  BY <1>1 DEF Loc, at, PlaceAt
<1>5. i # j => PlaceAt(i) # PlaceAt(j)
  BY DEF PlaceAt
<1> QED BY <1>2, <1>3, <1>4, <1>5

\* A track read before is not the present one, and is one of the job's.
LEMMA AfterIsBefore ==
  ASSUME JobInv, TrackInv, NEW t \in JobTracks, at = NextAfter(t)
  PROVE  Before(t) /\ t # at
<1>1. /\ t[1] \in Nat /\ t[2] \in Nat /\ t = <<t[1], t[2]>>
      /\ dp.num_head \in Nat
  BY JobFacts DEF JobTracks
<1>2. CASE t[2] + 1 < dp.num_head
  <2>1. try.cyl = t[1] /\ try.head = t[2] + 1
    BY <1>2 DEF NextAfter, at
  <2> QED BY <1>1, <2>1 DEF Before, at
<1>3. CASE ~(t[2] + 1 < dp.num_head)
  <2>1. try.cyl = t[1] + 1
    BY <1>3 DEF NextAfter, at
  <2> QED BY <1>1, <2>1 DEF Before, at
<1> QED BY <1>2, <1>3

\* The present track is one of the job's, and not read before.
LEMMA AtFacts ==
  ASSUME JobInv, TrackInv
  PROVE  /\ at \in JobTracks /\ at # NoTrack /\ NoTrack \notin JobTracks
         /\ ~Before(at)
<1>1. at \in JobTracks
  BY DEF TrackInv, JobTracks, at
<1>2. JobTracks \subseteq Tracks /\ NoTrack \notin Tracks
  <2>1. NoTrack \notin Tracks
    BY DeltasAssumption
  <2>2. PICK job \in Jobs : dp = job[1] /\ disk = job[2]
    BY DEF JobInv
  <2>3. (0 .. job[1].num_cyl - 1) \X (0 .. job[1].num_head - 1) \subseteq Tracks
    BY JobsAssumption
  <2> QED BY <2>1, <2>2, <2>3 DEF JobTracks
<1>3. ~Before(at)
  <2>1. try.cyl \in Int /\ try.head \in Int
    BY JobFacts DEF TrackInv
  <2>2. at[1] = try.cyl /\ at[2] = try.head
    BY DEF at
  <2> QED BY <2>1, <2>2 DEF Before
<1> QED BY <1>1, <1>2, <1>3

\* What a sector's data does to the file: it gets better there and stays elsewhere.
LEMMA FileGrows ==
  ASSUME JobInv, TrackInv, NEW j \in Sectors, NEW rank \in ReadRanks, NEW slot, SectorRead(j, rank, slot)
  PROVE  /\ \A p \in Places : Firm(HeldIn(r.file)[p]) <= Firm(HeldIn(r'.file)[p])
         /\ \A p \in Places : p # PlaceAt(j) => HeldIn(r'.file)[p] = HeldIn(r.file)[p]
<1> DEFINE held == HeldIn(r.file)
           then == HeldIn(r'.file)
<1>1. \/ then = held
      \/ /\ then = [held EXCEPT ![PlaceAt(j)] = rank]
         /\ Firm(held[PlaceAt(j)]) <= Firm(rank)
  BY DEF SectorRead
<1>2. DOMAIN held = Places
  BY DEF HeldIn
<1>3. \A p : Firm(held[p]) \in Nat
  BY DEF Firm
<1> HIDE DEF held, then
<1>4. CASE then = held
  BY <1>3, <1>4 DEF held, then
<1>5. CASE then = [held EXCEPT ![PlaceAt(j)] = rank] /\ Firm(held[PlaceAt(j)]) <= Firm(rank)
  <2>1. ASSUME NEW p \in Places PROVE then[p] = IF p = PlaceAt(j) THEN rank ELSE held[p]
    BY <1>2, <1>5
  <2>2. ASSUME NEW p \in Places PROVE Firm(held[p]) <= Firm(then[p])
    BY <1>3, <1>5, <2>1
  <2> QED BY <2>1, <2>2 DEF held, then
<1> QED BY <1>1, <1>4, <1>5
----------------------------------------------------------------------------
(* The next sector                                                         *)

\* The step that reads sector j
SectorStep(j, rank, slot) ==
  /\ DecodeSector /\ SectorRead(j, rank, slot)
  /\ j \in Sectors /\ rank \in ReadRanks /\ slot \in Slots
  /\ processed \in Sectors /\ Len(emu.current) = processed /\ emu.current \in Seq(Slots)

\* What the step leaves alone
LEMMA SectorFrame ==
  ASSUME NEW j, NEW rank, NEW slot, SectorStep(j, rank, slot)
  PROVE  /\ dp' = dp /\ try' = try /\ pc' = pc /\ last' = last
         /\ main = "decode" /\ main' = "decode" /\ processed' = processed + 1
         /\ Sectors' = Sectors /\ at' = at /\ HeldIn(r.file)' = HeldIn(r'.file)
<1>1. /\ dp' = dp /\ try' = try /\ pc' = pc /\ last' = last
      /\ main = "decode" /\ main' = "decode" /\ processed' = processed + 1
  BY DEF SectorStep, DecodeSector, Process
<1> QED BY <1>1, HeldAfter DEF Sectors, at

\* The tracks that are in hand but not being read stay as they are in the file.
LEMMA HeldElsewhere ==
  ASSUME JobInv, TrackInv, NEW t \in JobTracks, NEW j, NEW rank, NEW slot, SectorStep(j, rank, slot),
         NEW i \in Sectors
  PROVE  /\ Firm(HeldIn(r.file)[Loc(t, i)]) <= Firm(HeldIn(r'.file)[Loc(t, i)])
         /\ t # at \/ i # j => HeldIn(r'.file)[Loc(t, i)] = HeldIn(r.file)[Loc(t, i)]
<1>1. Loc(t, i) \in Places /\ (t # at \/ i # j => Loc(t, i) # PlaceAt(j))
  <2>1. j \in Sectors
    BY DEF SectorStep
  <2> QED BY <2>1, TrackApart
<1>2. /\ \A p \in Places : Firm(HeldIn(r.file)[p]) <= Firm(HeldIn(r'.file)[p])
      /\ \A p \in Places : p # PlaceAt(j) => HeldIn(r'.file)[p] = HeldIn(r.file)[p]
  BY FileGrows DEF SectorStep
<1> QED BY <1>1, <1>2

\* The word of this sector is the last of the present ones.
LEMMA WordAdded ==
  ASSUME NEW j, NEW rank, NEW slot, SectorStep(j, rank, slot), NEW i \in Sectors
  PROVE  /\ Len(emu'.current) = processed + 1
         /\ i < processed => emu'.current[i + 1] = emu.current[i + 1]
         /\ i = processed => emu'.current[i + 1] = slot
<1>1. /\ emu'.current = Append(emu.current, slot) /\ emu.current \in Seq(Slots)
      /\ Len(emu.current) = processed /\ i \in Nat
  BY DEF SectorStep, SectorRead, Sectors
<1> QED BY <1>1

\* A word's class
LEMMA ClassBound ==
  ASSUME NEW word, NEW place
  PROVE  /\ ClassAt(word, place) \in 0 .. 2
         /\ \A rank : Class(rank) \in 0 .. 2 /\ (rank \in {Unread, Unreadable} => Class(rank) = 2)
<1>1. Unreadable = 100 /\ Unread = 101
  BY DEF Unreadable, Unread
<1>2. \A rank : Class(rank) \in 0 .. 2 /\ (rank \in {Unread, Unreadable} => Class(rank) = 2)
  BY <1>1 DEF Class
<1> QED BY <1>2 DEF ClassAt

\* What the data of sector j does for it: what is seen of it, and what the file has
\* of it after
LEMMA SectorOutcome ==
  ASSUME JobInv, TrackInv, NEW j, NEW rank, NEW slot, SectorStep(j, rank, slot)
  PROVE  LET held == HeldIn(r.file)[PlaceAt(j)]
             then == HeldIn(r'.file)[PlaceAt(j)]
         IN \/ /\ j = processed /\ then = held
               /\ r'.list[j].last_status = r.list[j].last_status
            \/ /\ Weight(r'.list[j].last_status) = Firm(rank)
               /\ Firm(rank) <= Firm(then)
               /\ then = held \/ then = rank
               /\ \/ j = processed /\ ClassAt(slot, PlaceAt(j)) = Class(rank)
                  \/ j < processed /\ rank = Unreadable
<1> DEFINE held == HeldIn(r.file)
           then == HeldIn(r'.file)
<1>1. PlaceAt(j) \in Places /\ DOMAIN held = Places
  BY TrackPlaces DEF SectorStep, HeldIn
<1>2. ReadAs(slot, j, rank) => \/ j = processed /\ ClassAt(slot, PlaceAt(j)) = Class(rank)
                               \/ j < processed /\ rank = Unreadable
  BY DEF ReadAs, ClassAt
<1>3. Firm(rank) \in Nat
  BY DEF Firm
<1>4. \/ /\ then = held /\ j = processed
         /\ r'.list[j].last_status = r.list[j].last_status
      \/ /\ then = held /\ ReadAs(slot, j, rank)
         /\ Weight(r'.list[j].last_status) = Firm(rank)
         /\ Firm(rank) <= Firm(held[PlaceAt(j)])
      \/ /\ then = [held EXCEPT ![PlaceAt(j)] = rank] /\ ReadAs(slot, j, rank)
         /\ Weight(r'.list[j].last_status) = Firm(rank)
  BY DEF SectorStep, SectorRead
<1> HIDE DEF held, then
<1>5. CASE then = [held EXCEPT ![PlaceAt(j)] = rank]
  <2>1. then[PlaceAt(j)] = rank
    BY <1>1, <1>5
  <2> QED BY <1>2, <1>3, <1>4, <2>1 DEF held, then
<1>6. CASE /\ then = held /\ j = processed
           /\ r'.list[j].last_status = r.list[j].last_status
  BY <1>6 DEF held, then
<1>7. CASE /\ then = held /\ ReadAs(slot, j, rank)
           /\ Weight(r'.list[j].last_status) = Firm(rank)
           /\ Firm(rank) <= Firm(held[PlaceAt(j)])
  BY <1>2, <1>7 DEF held, then
<1> QED BY <1>4, <1>5, <1>6, <1>7

\* The weight of what is seen of a sector, and its word
LEMMA SectorSeen ==
  ASSUME JobInv, TrackInv, SeenInv, NEW j, NEW rank, NEW slot, SectorStep(j, rank, slot)
  PROVE  SeenInv'
<1>1. /\ main = "decode" /\ Sectors' = Sectors /\ HeldIn(r.file)' = HeldIn(r'.file)
      /\ at' = at /\ try' = try
  BY SectorFrame
<1>2. SUFFICES ASSUME NEW i \in Sectors
               PROVE  LET seen == Weight(r'.list[i].last_status)
                      IN /\ seen \in Weights /\ seen <= Firm(HeldIn(r'.file)[PlaceAt(i)])
                         /\ IF i < Len(emu'.current)
                            THEN ClassAt(emu'.current[i + 1], PlaceAt(i)) <= WeightClass(seen)
                            ELSE seen = 0
  BY <1>1 DEF SeenInv, HeldAt, Loc, PlaceAt, at
<1> DEFINE seen == Weight(r.list[i].last_status)
           sees == Weight(r'.list[i].last_status)
           held == Firm(HeldIn(r.file)[PlaceAt(i)])
           then == Firm(HeldIn(r'.file)[PlaceAt(i)])
           old == ClassAt(emu.current[i + 1], PlaceAt(i))
           new == ClassAt(emu'.current[i + 1], PlaceAt(i))
<1>3. at \in JobTracks /\ PlaceAt(i) = Loc(at, i)
  BY AtFacts DEF PlaceAt, Loc, at
<1>4. /\ seen \in Weights /\ seen <= held
      /\ IF i < processed THEN old <= WeightClass(seen) ELSE seen = 0
  BY <1>1, <1>3 DEF SeenInv, HeldAt, SectorStep
<1>5. held <= then /\ held \in Nat /\ then \in Nat
  BY <1>3, HeldElsewhere DEF Firm
<1>6. /\ Len(emu'.current) = processed + 1 /\ processed \in Nat /\ i \in Nat
      /\ i < processed => new = old
      /\ i = processed => emu'.current[i + 1] = slot
      /\ new \in 0 .. 2
  BY WordAdded, ClassBound DEF SectorStep, Sectors
<1>7. WeightClass(0) = 2 /\ \A n \in Weights : n \in Nat /\ WeightClass(n) \in Nat
  BY DEF WeightClass, Weights
<1>8. /\ sees \in Weights /\ sees <= then
      /\ IF i < processed + 1 THEN new <= WeightClass(sees) ELSE sees = 0
  <2>1. CASE i # j
    <3>1. sees = seen
      BY <2>1 DEF SectorStep, SectorRead
    <3> HIDE DEF seen, sees, held, then, old, new
    <3>2. sees \in Weights /\ sees <= then
      BY <1>4, <1>5, <1>7, <3>1
    <3>3. IF i < processed + 1 THEN new <= WeightClass(sees) ELSE sees = 0
      BY <1>4, <1>6, <1>7, <3>1
    <3> QED BY <3>2, <3>3
  <2>2. CASE i = j
    <3>1. \/ /\ i = processed /\ sees = seen
          \/ /\ sees = Firm(rank) /\ Firm(rank) <= then
             /\ \/ i = processed /\ new = Class(rank)
                \/ i < processed /\ rank = Unreadable
      BY <1>6, <2>2, SectorOutcome
    <3>2. Firm(rank) \in Weights /\ WeightClass(Firm(rank)) = Class(rank) /\ Class(rank) \in 0 .. 2
          /\ (rank = Unreadable => Class(rank) = 2)
      <4>1. rank \in HeldRanks
        BY DEF SectorStep, HeldRanks
      <4> QED BY <4>1, RankFacts, ClassBound
    <3> HIDE DEF seen, sees, held, then, old, new
    <3>3. CASE i = processed /\ sees = seen
      BY <1>4, <1>5, <1>6, <1>7, <3>3
    <3>4. CASE /\ sees = Firm(rank) /\ Firm(rank) <= then
               /\ \/ i = processed /\ new = Class(rank)
                  \/ i < processed /\ rank = Unreadable
      BY <1>6, <1>7, <3>2, <3>4
    <3> QED BY <3>1, <3>3, <3>4
  <2> QED BY <2>1, <2>2
<1> QED BY <1>6, <1>8

\* The first read of a track
LEMMA SectorFirst ==
  ASSUME JobInv, TrackInv, FirstInv, NEW j, NEW rank, NEW slot, SectorStep(j, rank, slot)
  PROVE  FirstInv'
<1>1. /\ Sectors' = Sectors /\ HeldIn(r.file)' = HeldIn(r'.file)
      /\ at' = at /\ try' = try /\ pc' = pc /\ last' = last
  BY SectorFrame
<1>2. SUFFICES ASSUME pc # "done", last.track # at, NEW i \in Sectors
               PROVE  IF i < Len(emu'.current)
                      THEN ClassAt(emu'.current[i + 1], PlaceAt(i)) <= Class(HeldIn(r'.file)[PlaceAt(i)])
                      ELSE HeldIn(r'.file)[PlaceAt(i)] = Unread
  BY <1>1 DEF FirstInv, HeldAt, Loc, PlaceAt, at
<1> DEFINE held == HeldIn(r.file)[PlaceAt(i)]
           then == HeldIn(r'.file)[PlaceAt(i)]
           old == ClassAt(emu.current[i + 1], PlaceAt(i))
           new == ClassAt(emu'.current[i + 1], PlaceAt(i))
<1>3. at \in JobTracks /\ PlaceAt(i) = Loc(at, i)
  BY AtFacts DEF PlaceAt, Loc, at
<1>4. IF i < processed THEN old <= Class(held) ELSE held = Unread
  BY <1>2, <1>3 DEF FirstInv, HeldAt, SectorStep
<1>5. i # j => then = held
  BY <1>3, HeldElsewhere
<1>6. /\ Len(emu'.current) = processed + 1 /\ processed \in Nat /\ i \in Nat
      /\ i < processed => new = old
      /\ i = processed => emu'.current[i + 1] = slot
      /\ new \in 0 .. 2
  BY WordAdded, ClassBound DEF SectorStep, Sectors
<1>7. i = j => \/ i = processed /\ then = held
               \/ /\ then = held \/ then = rank
                  /\ \/ i = processed /\ new = Class(rank)
                     \/ i < processed /\ rank = Unreadable
  BY <1>6, SectorOutcome
<1>8. Class(Unread) = 2 /\ Class(Unreadable) = 2 /\ Class(rank) \in 0 .. 2 /\ Class(held) \in 0 .. 2
  BY ClassBound
<1> HIDE DEF held, then, old, new
<1>9. IF i < processed + 1 THEN new <= Class(then) ELSE then = Unread
  <2>1. CASE i # j
    BY <1>4, <1>5, <1>6, <1>8, <2>1
  <2>2. CASE i = j
    BY <1>4, <1>6, <1>7, <1>8, <2>2
  <2> QED BY <2>1, <2>2
<1> QED BY <1>6, <1>9 DEF then, new

\* The best read keeps its weight.
LEMMA SectorBest ==
  ASSUME JobInv, TrackInv, LastInv, BestInv, NEW j, NEW rank, NEW slot, SectorStep(j, rank, slot)
  PROVE  BestInv'
<1>1. /\ Sectors' = Sectors /\ HeldIn(r.file)' = HeldIn(r'.file) /\ last' = last
      /\ emu'.best = emu.best /\ emu'.best_weight = emu.best_weight
  BY SectorFrame DEF SectorStep, SectorRead, SameBest
<1>2. CASE last.track = NoTrack
  BY <1>1, <1>2 DEF BestInv
<1>3. CASE last.track # NoTrack
  <2>1. last.track \in JobTracks
    BY <1>3 DEF LastInv
  <2>2. PICK w \in [Sectors -> Weights] :
          /\ emu.best_weight = Total(w)
          /\ \A i \in Sectors : /\ ClassAt(emu.best[i + 1], Loc(last.track, i)) <= WeightClass(w[i])
                                /\ w[i] <= Firm(HeldIn(r.file)[Loc(last.track, i)])
    BY <1>3 DEF BestInv, Weighed, HeldAt
  <2>3. ASSUME NEW i \in Sectors PROVE w[i] <= Firm(HeldIn(r'.file)[Loc(last.track, i)])
    <3> DEFINE held == Firm(HeldIn(r.file)[Loc(last.track, i)])
               then == Firm(HeldIn(r'.file)[Loc(last.track, i)])
    <3>1. held <= then /\ held \in Nat /\ then \in Nat
      BY <2>1, HeldElsewhere DEF Firm
    <3>2. w[i] <= held /\ w[i] \in Nat
      BY <2>2 DEF Weights
    <3> HIDE DEF held, then
    <3>3. w[i] <= then
      BY <3>1, <3>2
    <3> QED BY <3>3 DEF then
  <2> QED BY <1>1, <2>2, <2>3 DEF BestInv, Weighed, HeldAt
<1> QED BY <1>2, <1>3

\* The track put together gets the word of a sector that the file gets.
LEMMA SectorFixed ==
  ASSUME JobInv, TrackInv, LastInv, FixedInv, NEW j, NEW rank, NEW slot, SectorStep(j, rank, slot)
  PROVE  FixedInv'
<1>1. /\ Sectors' = Sectors /\ HeldIn(r.file)' = HeldIn(r'.file) /\ last' = last
      /\ emu'.fixed_weight = emu.fixed_weight
  BY SectorFrame DEF SectorStep, SectorRead, SameBest
<1>2. CASE last.track = NoTrack
  BY <1>1, <1>2 DEF FixedInv
<1>3. CASE last.track # NoTrack
  <2>1. last.track \in JobTracks
    BY <1>3 DEF LastInv
  <2>2. /\ emu.fixed_weight = BestWeight(last.list)
        /\ DOMAIN emu.fixed = 1 .. MaxDeltas
        /\ ~emu.spilt => WordsTell(emu.fixed, last.track)
    BY <1>3 DEF FixedInv
  <2>3. ASSUME NEW i \in Sectors PROVE i + 1 \in 1 .. MaxDeltas
    <3>1. i \in 0 .. MaxDeltas - 1 /\ MaxDeltas \in Nat
      BY JobFacts DEF Sectors
    <3> QED BY <3>1
  <2>4. CASE SameFixed(emu', emu) /\ (last.track # at \/ HeldIn(r'.file) = HeldIn(r.file))
    <3>1. \A i \in Sectors : HeldIn(r'.file)[Loc(last.track, i)] = HeldIn(r.file)[Loc(last.track, i)]
      BY <2>1, <2>4, HeldElsewhere
    <3> QED BY <1>1, <2>2, <2>4, <3>1 DEF FixedInv, WordsTell, HeldAt, SameFixed
  <2>5. CASE last.track = at /\ Mended(emu', emu, j, slot) /\ ReadAs(slot, j, rank)
             /\ HeldIn(r'.file) = [HeldIn(r.file) EXCEPT ![PlaceAt(j)] = rank]
    <3>1. DOMAIN emu'.fixed = 1 .. MaxDeltas
      BY <2>2, <2>5 DEF Mended
    <3>2. ASSUME ~emu'.spilt, NEW i \in Sectors
          PROVE  ClassAt(emu'.fixed[i + 1], Loc(last.track, i)) <= Class(HeldIn(r'.file)[Loc(last.track, i)])
      <4>1. /\ ~emu.spilt /\ j = Len(emu.current)
            /\ emu'.fixed[i + 1] = IF i + 1 = j + 1 THEN slot ELSE emu.fixed[i + 1]
        BY <2>2, <2>3, <2>5, <3>2 DEF Mended
      <4>2. i \in Nat /\ j \in Nat /\ j = processed
        BY <4>1 DEF SectorStep, Sectors
      <4>3. slot = [place |-> PlaceAt(j), rank |-> rank]
        BY <2>5, <4>2 DEF ReadAs
      <4>4. Loc(last.track, i) = PlaceAt(i) /\ PlaceAt(i) \in Places
        <5>1. Loc(at, i) = PlaceAt(i)
          BY DEF Loc, at, PlaceAt
        <5> QED BY <2>5, <5>1, TrackPlaces
      <4>5. CASE i = j
        <5>1. HeldIn(r'.file)[PlaceAt(i)] = rank
          BY <2>5, <4>4, <4>5 DEF HeldIn
        <5>2. ClassAt(emu'.fixed[i + 1], PlaceAt(i)) = Class(rank)
          BY <4>1, <4>3, <4>5 DEF ClassAt
        <5>3. Class(rank) \in 0 .. 2
          BY ClassBound
        <5> QED BY <4>4, <5>1, <5>2, <5>3
      <4>6. CASE i # j
        <5>1. emu'.fixed[i + 1] = emu.fixed[i + 1]
          BY <4>1, <4>2, <4>6
        <5>2. HeldIn(r'.file)[Loc(last.track, i)] = HeldIn(r.file)[Loc(last.track, i)]
          BY <2>1, <4>6, HeldElsewhere
        <5>3. ClassAt(emu.fixed[i + 1], Loc(last.track, i)) <= Class(HeldIn(r.file)[Loc(last.track, i)])
          BY <2>2, <4>1 DEF WordsTell, HeldAt
        <5> QED BY <5>1, <5>2, <5>3
      <4> QED BY <4>5, <4>6
    <3> QED BY <1>1, <2>2, <3>1, <3>2 DEF FixedInv, WordsTell, HeldAt
  <2>6. \/ SameFixed(emu', emu) /\ (last.track # at \/ HeldIn(r'.file) = HeldIn(r.file))
        \/ /\ last.track = at /\ Mended(emu', emu, j, slot) /\ ReadAs(slot, j, rank)
           /\ HeldIn(r'.file) = [HeldIn(r.file) EXCEPT ![PlaceAt(j)] = rank]
    BY DEF SectorStep, SectorRead
  <2> QED BY <2>4, <2>5, <2>6
<1> QED BY <1>2, <1>3

\* The track written last stays as it is in the file.
LEMMA SectorFile ==
  ASSUME JobInv, TrackInv, PhaseInv, FileInv, NEW j, NEW rank, NEW slot, SectorStep(j, rank, slot)
  PROVE  FileInv'
<1>1. /\ Sectors' = Sectors /\ HeldIn(r.file)' = HeldIn(r'.file) /\ try' = try /\ pc' = pc /\ dp' = dp
      /\ emu'.file = emu.file /\ main = "decode"
  BY SectorFrame DEF SectorStep, SectorRead, SameBest
<1>2. CASE emu.file.track = NoTrack
  BY <1>1, <1>2 DEF FileInv
<1>3. CASE emu.file.track # NoTrack
  <2>1. emu.file.track \in JobTracks /\ Before(emu.file.track)
    BY <1>1, <1>3 DEF FileInv, PhaseInv
  <2>2. emu.file.track # at
    BY <2>1, AtFacts
  <2>3. \A i \in Sectors : HeldIn(r'.file)[Loc(emu.file.track, i)] = HeldIn(r.file)[Loc(emu.file.track, i)]
    BY <2>1, <2>2, HeldElsewhere
  <2>4. WordsTell(emu.file.words, emu.file.track) => WordsTell(emu.file.words, emu.file.track)'
    BY <1>1, <2>3 DEF WordsTell, HeldAt
  <2>5. ~emu.file.spilt => WordsTell(emu.file.words, emu.file.track)
    BY <1>3 DEF FileInv
  <2> QED BY <1>1, <2>1, <2>4, <2>5 DEF FileInv, Before, JobTracks
<1> QED BY <1>2, <1>3

\* Every part of the invariant survives a sector.
LEMMA SectorParts ==
  ASSUME JobInv, TrackInv, DriveInv, DecoderInv, HoldInv, IInv, CountsInv, PhaseInv,
         ~dp.ignore_seek_errors, ImageParts, DecodeSector
  PROVE  ImageParts'
<1> USE DEF ImageParts
<1>1. /\ processed \in Sectors
      /\ \E j \in Sectors, rank \in ReadRanks, slot \in Slots : SectorRead(j, rank, slot)
  BY SectorSummary
<1>2. PICK j \in Sectors, rank \in ReadRanks, slot \in Slots : SectorRead(j, rank, slot)
  BY <1>1
<1>3. Len(emu.current) = processed /\ emu.current \in Seq(Slots)
  BY DEF DecoderInv, DecodeSector
<1>4. SectorStep(j, rank, slot)
  BY <1>1, <1>2, <1>3 DEF SectorStep
<1>5. /\ dp' = dp /\ try' = try /\ pc' = pc /\ last' = last
      /\ main = "decode" /\ main' = "decode" /\ processed' = processed + 1
      /\ Sectors' = Sectors /\ at' = at /\ HeldIn(r.file)' = HeldIn(r'.file)
  BY <1>4, SectorFrame
<1>6. TellingOf(r.list)' /\ WordsInv'
  BY <1>2, <1>5 DEF SectorRead, TellingOf, SameBest, WordsInv
<1>7. MissedInv'
  <2>1. r'.sector_status.sector \in Nat
    BY SectorDecoded DEF DecoderType, SectorRecord
  <2>2. r'.state = "MARK_DATA" => r'.sector_status.sector <= processed
    BY <1>2 DEF SectorRead
  <2>3. processed \in Nat
    BY <1>1 DEF Sectors
  <2> QED BY <1>5, <2>1, <2>2, <2>3 DEF MissedInv
<1>8. LastInv'
  BY <1>5 DEF LastInv, JobTracks, NextAfter
<1>9. ListInv'
  <2>1. CASE last.track = NoTrack \/ last.track = at
    BY <1>5, <2>1 DEF ListInv
  <2>2. CASE last.track # NoTrack /\ last.track # at
    <3>1. last.track \in JobTracks
      BY <2>2 DEF LastInv
    <3>2. \A i \in Sectors : HeldIn(r'.file)[Loc(last.track, i)] = HeldIn(r.file)[Loc(last.track, i)]
      BY <1>4, <2>2, <3>1, HeldElsewhere
    <3>3. /\ DOMAIN last.list = Sectors
          /\ \A i \in Sectors : /\ Telling(last.list[i]) /\ last.list[i] \in SectorRecord
                                /\ HeldIn(r.file)[Loc(last.track, i)] = Says(last.list[i])
      BY <2>2 DEF ListInv, HeldAt
    <3> QED BY <1>5, <3>2, <3>3 DEF ListInv, HeldAt
  <2> QED BY <2>1, <2>2
<1>10. SeenInv' /\ FirstInv' /\ BestInv' /\ FixedInv' /\ FileInv'
  BY <1>4, SectorSeen, SectorFirst, SectorBest, SectorFixed, SectorFile
<1> QED BY <1>6, <1>7, <1>8, <1>9, <1>10

----------------------------------------------------------------------------
(* The end of a read and of the disk                                       *)

\* The words that are written are as good as the file: if the best read weighs as much
\* as the list, it has each sector as well as the list says.
LEMMA ChosenTell ==
  ASSUME JobInv, LastInv, ListInv, BestInv, FixedInv, last.track # NoTrack,
         last.track # at \/ main \in {"idle", "exec"}, ~emu.spilt
  PROVE  WordsTell(Chosen, last.track)
<1> DEFINE t == last.track
           v == [i \in Sectors |-> Weight(last.list[i].status)]
<1>1. /\ DOMAIN last.list = Sectors
      /\ \A i \in Sectors : /\ Telling(last.list[i]) /\ last.list[i] \in SectorRecord
                            /\ HeldAt(t, i) = Says(last.list[i])
  BY DEF ListInv
<1>2. ASSUME NEW i \in Sectors
      PROVE  /\ v[i] \in Weights /\ Firm(HeldAt(t, i)) <= v[i]
             /\ WeightClass(v[i]) = Class(HeldAt(t, i))
  <2> HIDE DEF t
  <2>1. /\ Weight(last.list[i].status) \in Weights
        /\ Firm(Says(last.list[i])) <= Weight(last.list[i].status)
        /\ WeightClass(Weight(last.list[i].status)) = Class(Says(last.list[i]))
    BY <1>1, EntrySays
  <2> QED BY <1>1, <2>1
<1>3. CASE emu.best_weight >= emu.fixed_weight
  <2>1. PICK w \in [Sectors -> Weights] :
          /\ emu.best_weight = Total(w)
          /\ \A i \in Sectors : /\ ClassAt(emu.best[i + 1], Loc(t, i)) <= WeightClass(w[i])
                                /\ w[i] <= Firm(HeldAt(t, i))
    BY DEF BestInv, Weighed
  <2>2. emu.fixed_weight = Total(v)
    BY <1>1 DEF FixedInv, BestWeight
  <2>3. w = v
    <3>1. Weights \subseteq Nat
      BY DEF Weights
    <3>2. Sectors = 0 .. MaxDeltas - 1 /\ MaxDeltas \in Nat
      BY JobFacts DEF Sectors
    <3>3. ASSUME NEW i \in Sectors PROVE w[i] <= v[i] /\ v[i] \in Nat
      <4> DEFINE f == Firm(HeldAt(t, i))
      <4>1. w[i] \in Nat /\ v[i] \in Nat /\ f \in Nat
        BY <1>2, <3>1 DEF Firm
      <4>2. w[i] <= f /\ f <= v[i]
        BY <1>2, <2>1
      <4> HIDE DEF f, v
      <4> QED BY <4>1, <4>2
    <3>4. v \in [Sectors -> Nat] /\ w \in [Sectors -> Nat]
      BY <3>1, <3>3
    <3>5. Total(w) >= Total(v)
      BY <1>3, <2>1, <2>2
    <3> HIDE DEF v
    <3> QED BY <3>2, <3>3, <3>4, <3>5, TotalSame
  <2>4. Chosen = emu.best
    BY <1>3 DEF Chosen
  <2> HIDE DEF v
  <2>5. ASSUME NEW i \in Sectors
        PROVE  ClassAt(emu.best[i + 1], Loc(t, i)) <= Class(HeldAt(t, i))
    BY <1>2, <2>1, <2>3
  <2> QED BY <2>4, <2>5 DEF WordsTell
<1>4. CASE ~(emu.best_weight >= emu.fixed_weight)
  <2>1. Chosen = emu.fixed
    BY <1>4 DEF Chosen
  <2> QED BY <2>1 DEF FixedInv
<1> QED BY <1>3, <1>4

\* What update_emu_track_words() does to the words
LEMMA WordsUpdated ==
  ASSUME EmuFields \subseteq DOMAIN emu, NEW list, NEW write_track, NEW new_track
  PROVE  LET u == update_emu_track_words(list, write_track, new_track)
             better == LastWeight(list) > emu.best_weight \/ new_track
         IN /\ EmuFields \subseteq DOMAIN u
            /\ u.file = IF write_track THEN [track |-> last.track, words |-> Chosen, spilt |-> emu.spilt]
                        ELSE emu.file
            /\ u.best = IF better THEN emu.current ELSE emu.best
            /\ u.best_weight = IF better THEN LastWeight(list) ELSE emu.best_weight
            /\ u.fixed = IF new_track /\ DOMAIN list # {} THEN emu.current ELSE emu.fixed
            /\ ~u.spilt => ~emu.spilt \/ new_track
            /\ u.fixed_weight = BestWeight(list)
<1> DEFINE better == LastWeight(list) > emu.best_weight \/ new_track
           file == IF write_track THEN [track |-> last.track, words |-> Chosen, spilt |-> emu.spilt]
                   ELSE emu.file
           best == IF better THEN emu.current ELSE emu.best
           best_weight == IF better THEN LastWeight(list) ELSE emu.best_weight
           fixed == IF new_track /\ DOMAIN list # {} THEN emu.current ELSE emu.fixed
           spilt == emu.spilt /\ ~new_track
           fixed_weight == BestWeight(list)
           u == update_emu_track_words(list, write_track, new_track)
<1>1. u = [emu EXCEPT !.file = file, !.best = best, !.best_weight = best_weight, !.fixed = fixed,
                      !.spilt = spilt, !.fixed_weight = fixed_weight, !.current = <<>>]
  BY DEF update_emu_track_words
<1> HIDE DEF file, best, best_weight, fixed, spilt, fixed_weight, u
<1>2. /\ EmuFields \subseteq DOMAIN u
      /\ u.file = file /\ u.best = best /\ u.best_weight = best_weight /\ u.fixed = fixed
      /\ u.spilt = spilt /\ u.fixed_weight = fixed_weight
  BY <1>1 DEF EmuFields
<1> QED BY <1>2 DEF file, best, best_weight, fixed, spilt, fixed_weight, u

\* The end of a read
LEMMA EndParts ==
  ASSUME JobInv, TrackInv, DecoderInv, HoldInv, IInv, WholeInv, PhaseInv, Imaging, ImageParts, EndDecode
  PROVE  ImageParts'
<1> DEFINE changed == last.track # NoTrack /\ at # last.track
           new == changed \/ last.track = NoTrack
           better == LastWeight(r.list) > emu.best_weight \/ new
<1>1. /\ dp' = dp /\ r' = r /\ try'.cyl = try.cyl /\ try'.head = try.head
      /\ at' = at /\ Sectors' = Sectors /\ HeldIn(r.file)' = HeldIn(r.file)
  <2>1. dp' = dp /\ r' = r /\ try'.cyl = try.cyl /\ try'.head = try.head
    BY OthersStep DEF Others
  <2> QED BY <2>1, HeldAfter DEF at, Sectors
<1>2. /\ main = "decode" /\ main' = "idle" /\ pc = "decode" /\ pc' \in {"correct", "retry", "end"}
      /\ Decoded
  BY DEF EndDecode, Decoded, PhaseInv
<1>3. /\ emu.current \in Seq(Slots) /\ Len(emu.current) = MaxDeltas
      /\ DecoderType(r) /\ r.list \in [Sectors -> SectorRecord] /\ ListOf(r)
  BY <1>2, AllDecoded DEF DecoderInv, DecoderType, HoldInv, HoldOf
<1>4. Sectors # {} /\ ~dp.ignore_seek_errors /\ WordsInv /\ TellingOf(r.list)
      /\ LastInv /\ ListInv /\ BestInv /\ FixedInv /\ FileInv /\ SeenInv /\ FirstInv
  BY DEF Imaging, ImageParts
<1>5. DOMAIN r.list = Sectors /\ DOMAIN r.list # {}
  BY <1>3, <1>4
<1>6. at \in JobTracks /\ at # NoTrack /\ NoTrack \notin JobTracks
  BY AtFacts
<1>7. ASSUME NEW i \in Sectors PROVE i \in Nat /\ i < MaxDeltas
  BY JobFacts DEF Sectors
<1>8. /\ last' = [track |-> at, list |-> r.list]
      /\ emu' = update_emu_track_words(r.list, changed, new)
  BY <1>4, <1>5 DEF EndDecode, update_stats, Emulating
<1>9. /\ EmuFields \subseteq DOMAIN emu'
      /\ emu'.file = IF changed THEN [track |-> last.track, words |-> Chosen, spilt |-> emu.spilt]
                     ELSE emu.file
      /\ emu'.best = IF better THEN emu.current ELSE emu.best
      /\ emu'.best_weight = IF better THEN LastWeight(r.list) ELSE emu.best_weight
      /\ emu'.fixed = IF new THEN emu.current ELSE emu.fixed
      /\ ~emu'.spilt => ~emu.spilt \/ new
      /\ emu'.fixed_weight = BestWeight(r.list)
  <2> HIDE DEF changed, new
  <2> QED BY <1>4, <1>5, <1>8, WordsUpdated DEF WordsInv
<1>10. ASSUME NEW i \in Sectors PROVE Loc(at, i) = PlaceAt(i)
  BY DEF Loc, at, PlaceAt
<1>11. TellingOf(r.list)' /\ MissedInv' /\ WordsInv' /\ SeenInv' /\ FirstInv'
  BY <1>1, <1>2, <1>4, <1>8, <1>9 DEF TellingOf, MissedInv, WordsInv, SeenInv, FirstInv
<1>12. LastInv'
  BY <1>1, <1>2, <1>6, <1>8 DEF LastInv, JobTracks
<1>13. ListInv'
  <2>1. \A i \in Sectors : /\ Telling(r.list[i]) /\ r.list[i] \in SectorRecord
                           /\ HeldIn(r.file)[Loc(at, i)] = Says(r.list[i])
    BY <1>3, <1>4, <1>10, ListSays DEF TellingOf
  <2> QED BY <1>1, <1>5, <1>8, <2>1 DEF ListInv, HeldAt
<1> HIDE DEF better
<1>14. BestInv'
  <2>1. CASE better
    <3> DEFINE w == [i \in Sectors |-> Weight(r.list[i].last_status)]
    <3>1. emu'.best_weight = Total(w)
      BY <1>5, <1>9, <2>1 DEF LastWeight
    <3>2. ASSUME NEW i \in Sectors
          PROVE  /\ w[i] \in Weights /\ w[i] <= Firm(HeldIn(r.file)[Loc(at, i)])
                 /\ ClassAt(emu'.best[i + 1], Loc(at, i)) <= WeightClass(w[i])
      BY <1>2, <1>3, <1>4, <1>7, <1>9, <1>10, <2>1 DEF SeenInv, HeldAt
    <3>3. w \in [Sectors -> Weights]
      BY <3>2
    <3> HIDE DEF w
    <3> QED BY <1>1, <1>8, <3>1, <3>2, <3>3 DEF BestInv, Weighed, HeldAt
  <2>2. CASE ~better
    <3>1. last.track = at
      BY <2>2 DEF better
    <3>2. last.track # NoTrack /\ emu'.best = emu.best /\ emu'.best_weight = emu.best_weight
      BY <1>6, <1>9, <2>2, <3>1
    <3> QED BY <1>1, <1>4, <1>8, <3>1, <3>2 DEF BestInv, Weighed, HeldAt
  <2> QED BY <2>1, <2>2
<1>15. FixedInv'
  <2>1. emu'.fixed_weight = BestWeight(last'.list)
    BY <1>8, <1>9
  <2>2. CASE new
    <3>1. emu'.fixed = emu.current /\ last.track # at
      BY <1>6, <1>9, <2>2
    <3>2. DOMAIN emu'.fixed = 1 .. MaxDeltas
      BY <1>3, <3>1
    <3>3. ASSUME NEW i \in Sectors
          PROVE  ClassAt(emu.current[i + 1], Loc(at, i)) <= Class(HeldIn(r.file)[Loc(at, i)])
      BY <1>2, <1>3, <1>4, <1>7, <1>10, <3>1 DEF FirstInv, HeldAt
    <3>4. ASSUME NEW i \in Sectors
          PROVE  ClassAt(emu'.fixed[i + 1], Loc(at, i)) <= Class(HeldIn(r.file)[Loc(at, i)])
      BY <3>1, <3>3
    <3> QED BY <1>1, <1>8, <2>1, <3>2, <3>4 DEF FixedInv, WordsTell, HeldAt, BestWeight
  <2>3. CASE ~new
    <3>1. emu'.fixed = emu.fixed /\ last.track = at /\ (~emu'.spilt => ~emu.spilt)
      BY <1>9, <2>3
    <3>2. /\ DOMAIN emu.fixed = 1 .. MaxDeltas
          /\ ~emu.spilt => WordsTell(emu.fixed, at)
      BY <1>4, <1>6, <3>1 DEF FixedInv
    <3> QED BY <1>1, <1>8, <2>1, <3>1, <3>2 DEF FixedInv, WordsTell, HeldAt, BestWeight
  <2> QED BY <2>2, <2>3
<1>16. FileInv'
  <2>1. CASE changed
    <3>1. emu'.file.track = last.track /\ emu'.file.words = Chosen /\ emu'.file.spilt = emu.spilt
      BY <1>9, <2>1
    <3>2. last.track \in JobTracks /\ Before(last.track)
      <4>1. last.track \in JobTracks /\ at = NextAfter(last.track)
        BY <1>4, <2>1 DEF LastInv
      <4> QED BY <4>1, AfterIsBefore
    <3>3. ~emu.spilt => WordsTell(Chosen, last.track)
      BY <1>4, <2>1, ChosenTell
    <3> QED BY <1>1, <3>1, <3>2, <3>3 DEF FileInv, WordsTell, HeldAt, Before, JobTracks
  <2>2. CASE ~changed
    <3>1. emu'.file = emu.file
      BY <1>9, <2>2
    <3> QED BY <1>1, <1>2, <1>4, <3>1 DEF FileInv, WordsTell, HeldAt, Before, JobTracks
  <2> QED BY <2>1, <2>2
<1> QED BY <1>11, <1>12, <1>13, <1>14, <1>15, <1>16 DEF ImageParts

\* The end of the disk
LEMMA DoneParts ==
  ASSUME JobInv, TrackInv, Imaging, ImageParts, mfm_decode_done
  PROVE  ImageParts'
<1>1. /\ dp' = dp /\ r' = r /\ try' = try /\ at' = at /\ Sectors' = Sectors
      /\ HeldIn(r.file)' = HeldIn(r.file)
      /\ main = "idle" /\ main' = "idle" /\ pc = "end" /\ pc' = "done"
  <2>1. /\ dp' = dp /\ r' = r /\ try' = try /\ main = "idle" /\ main' = "idle" /\ pc = "end" /\ pc' = "done"
    BY DEF mfm_decode_done, Idle, deltaVars
  <2> QED BY <2>1, HeldAfter DEF at, Sectors
<1>2. Sectors # {} /\ ~dp.ignore_seek_errors /\ WordsInv /\ TellingOf(r.list)
      /\ LastInv /\ ListInv /\ BestInv /\ FixedInv /\ FileInv
  BY DEF Imaging, ImageParts
<1>3. last.track = at /\ at # NoTrack
  BY <1>1, <1>2, AtFacts DEF LastInv
<1>4. /\ last'.track = NoTrack
      /\ emu' = update_emu_track_words(<<>>, TRUE, TRUE)
  BY <1>2, <1>3 DEF mfm_decode_done, update_stats, Emulating
<1>5. /\ EmuFields \subseteq DOMAIN emu'
      /\ emu'.file = [track |-> last.track, words |-> Chosen, spilt |-> emu.spilt]
  BY <1>2, <1>4, WordsUpdated DEF WordsInv
<1>6. ~emu.spilt => WordsTell(Chosen, last.track)
  BY <1>1, <1>2, <1>3, ChosenTell
<1>7. FileInv'
  <2>1. emu'.file.track = last.track /\ emu'.file.words = Chosen /\ emu'.file.spilt = emu.spilt
    BY <1>5
  <2> QED BY <1>1, <1>6, <2>1 DEF FileInv, WordsTell, HeldAt
<1>8. TellingOf(r.list)' /\ MissedInv' /\ WordsInv' /\ SeenInv' /\ FirstInv'
  BY <1>1, <1>2, <1>5 DEF TellingOf, MissedInv, WordsInv, SeenInv, FirstInv
<1>9. LastInv' /\ ListInv' /\ BestInv' /\ FixedInv'
  BY <1>1, <1>4 DEF LastInv, ListInv, BestInv, FixedInv
<1> QED BY <1>7, <1>8, <1>9 DEF ImageParts

----------------------------------------------------------------------------
(* The start of a read and of a track                                      *)

\* A new list says that nothing was read.
LEMMA NewTelling ==
  ASSUME JobInv
  PROVE  TellingOf(mfm_init_sector_status_list(dp.num_sectors))
<1> DEFINE new == Mark(NoSector, {"SECT_BAD_HEADER", "SECT_NOT_WRITTEN"})
<1>1. new.status = {"SECT_BAD_HEADER", "SECT_NOT_WRITTEN"}
  BY DEF Mark, NoSector
<1>2. mfm_init_sector_status_list(dp.num_sectors) = [i \in Sectors |-> new]
  BY DEF mfm_init_sector_status_list, Sectors
<1> HIDE DEF new
<1>3. Telling(new)
  BY <1>1 DEF Telling
<1> QED BY <1>2, <1>3 DEF TellingOf

\* The start of a read
LEMMA StartParts ==
  ASSUME JobInv, TrackInv, DecoderInv, ImageParts, StartDecode
  PROVE  ImageParts'
<1>1. /\ dp' = dp /\ try' = try /\ at' = at /\ Sectors' = Sectors /\ pc' = pc
      /\ last' = last /\ emu' = emu /\ main = "exec" /\ main' = "decode"
      /\ r'.state = "MARK_ID" /\ r'.file = r.file /\ HeldIn(r.file)' = HeldIn(r.file)
  <2>1. /\ dp' = dp /\ try' = try /\ pc' = pc /\ last' = last /\ emu' = emu
        /\ main = "exec" /\ main' = "decode"
    BY DEF StartDecode, deltas_start_read
  <2>2. r'.state = "MARK_ID" /\ r'.file = r.file
    BY ListStarted
  <2> QED BY <2>1, <2>2, HeldAfter DEF at, Sectors
<1>2. emu.current = <<>> /\ Len(emu.current) = 0
  BY <1>1 DEF DecoderInv
<1>3. ASSUME NEW i \in Sectors
      PROVE  Telling(r'.list[i]) /\ Weight(r'.list[i].last_status) = 0
  <2> DEFINE e == r.list[i]
             l == [e EXCEPT !.last_status = {"SECT_BAD_HEADER"}]
  <2>1. DOMAIN r.list = Sectors /\ e \in SectorRecord /\ "list" \in DOMAIN r
    BY DEF DecoderInv, DecoderType, Fields
  <2>2. r'.list = StartRead(r.list)
    BY <2>1 DEF StartDecode
  <2>3. r'.list[i] = l
    BY <2>1, <2>2 DEF StartRead
  <2>4. Telling(e)
    BY DEF ImageParts, TellingOf
  <2> HIDE DEF e
  <2>5. l.status = e.status /\ l.ecc = e.ecc /\ l.last_status = {"SECT_BAD_HEADER"}
    BY <2>1 DEF SectorRecord
  <2> HIDE DEF l
  <2>6. Telling(l)
    BY <2>4, <2>5 DEF Telling
  <2>7. Weight(l.last_status) = 0
    BY <2>5 DEF Weight
  <2> QED BY <2>3, <2>6, <2>7
<1>4. TellingOf(r.list)' /\ MissedInv' /\ WordsInv'
  BY <1>1, <1>3 DEF TellingOf, MissedInv, WordsInv, ImageParts
<1>5. LastInv' /\ ListInv'
  BY <1>1 DEF LastInv, ListInv, HeldAt, JobTracks, NextAfter, ImageParts
<1>6. SeenInv'
  <2>1. ASSUME NEW i \in Sectors PROVE 0 \in Weights /\ 0 <= Firm(HeldIn(r.file)[Loc(at, i)]) /\ ~(i < 0)
    BY DEF Weights, Firm, Sectors
  <2> QED BY <1>1, <1>2, <1>3, <2>1 DEF SeenInv, HeldAt
<1>7. FirstInv'
  BY <1>1 DEF FirstInv, HeldAt, PlaceAt, ImageParts
<1>8. BestInv' /\ FixedInv' /\ FileInv'
  BY <1>1 DEF BestInv, FixedInv, FileInv, Weighed, WordsTell, HeldAt, Before, JobTracks, ImageParts
<1> QED BY <1>4, <1>5, <1>6, <1>7, <1>8 DEF ImageParts

\* The next track: it is not in the file, and the last one stays.
LEMMA NextParts ==
  ASSUME JobInv, TrackInv, DecoderInv, ImageParts, NextTrack, HoldInv', ~dp.ignore_seek_errors
  PROVE  ImageParts'
<1>1. /\ dp' = dp /\ Sectors' = Sectors /\ last' = last /\ emu' = emu
      /\ main = "idle" /\ main' = "idle" /\ pc = "end" /\ pc' = "retry"
      /\ r'.file = r.file /\ HeldIn(r.file)' = HeldIn(r.file)
      /\ r'.list = mfm_init_sector_status_list(dp.num_sectors)
  <2>1. /\ dp' = dp /\ last' = last /\ emu' = emu /\ main = "idle" /\ main' = "idle"
        /\ pc = "end" /\ pc' = "retry"
    BY DEF NextTrack, Idle, deltaVars
  <2>2. r'.file = r.file
    BY TrackStarted
  <2>3. r'.list = mfm_init_sector_status_list(dp.num_sectors)
    BY DEF NextTrack, StartTrack, DecoderInv, DecoderType, Fields
  <2> QED BY <2>1, <2>2, <2>3, HeldAfter DEF Sectors
<1>2. at' = NextAfter(at)
  <2>1. at' = <<try'.cyl, try'.head>> /\ at[1] = try.cyl /\ at[2] = try.head
    BY DEF at
  <2> QED BY <2>1 DEF NextTrack, StartTrack, NextAfter
<1>3. last.track = at /\ at \in JobTracks /\ at # NoTrack /\ NoTrack \notin JobTracks
  BY <1>1, AtFacts DEF LastInv, ImageParts
<1>4. emu.current = <<>> /\ Len(emu.current) = 0
  BY <1>1 DEF DecoderInv
<1>5. ASSUME NEW t \in JobTracks, Before(t) PROVE Before(t)'
  <2>1. \/ try'.cyl = try.cyl /\ try'.head = try.head + 1
        \/ try'.cyl = try.cyl + 1 /\ try'.head = 0
    BY TrackStarted
  <2>2. try.cyl \in Int /\ try.head \in Int /\ t[1] \in Int /\ t[2] \in Int
    BY JobFacts DEF TrackInv, JobTracks
  <2> QED BY <1>5, <2>1, <2>2 DEF Before
<1>6. TellingOf(r.list)' /\ MissedInv' /\ WordsInv' /\ SeenInv'
  <2>1. TellingOf(r'.list)
    BY <1>1, NewTelling
  <2> QED BY <1>1, <2>1 DEF TellingOf, MissedInv, WordsInv, SeenInv, ImageParts
<1>7. LastInv'
  BY <1>1, <1>2, <1>3 DEF LastInv, JobTracks, NextAfter
<1>8. ListInv'
  <2>1. /\ DOMAIN last.list = Sectors
        /\ \A i \in Sectors : /\ Telling(last.list[i]) /\ last.list[i] \in SectorRecord
                              /\ HeldIn(r.file)[Loc(last.track, i)] = Says(last.list[i])
    BY <1>1, <1>3 DEF ListInv, HeldAt, ImageParts
  <2> QED BY <1>1, <2>1 DEF ListInv, HeldAt
<1>9. FirstInv'
  <2>1. ASSUME NEW i \in Sectors PROVE HeldIn(r.file)'[Loc(at', i)] = Unread
    <3>1. "SECT_NOT_WRITTEN" \in r'.list[i].status
      BY TrackStarted
    <3>2. PlaceAt(i)' = Loc(at', i)
      BY DEF PlaceAt, Loc, at
    <3>3. HeldIn(r.file)'[PlaceAt(i)'] = Unread
      BY <1>1, <3>1 DEF HoldInv, HoldOf, ListOf
    <3> QED BY <3>2, <3>3
  <2>2. \A i \in Sectors : ~(i < 0)
    BY DEF Sectors
  <2> QED BY <1>1, <1>4, <2>1, <2>2 DEF FirstInv, HeldAt
<1>10. BestInv' /\ FixedInv'
  BY <1>1 DEF BestInv, FixedInv, Weighed, WordsTell, HeldAt, ImageParts
<1>11. FileInv'
  <2>1. emu.file.track # NoTrack => emu.file.track \in JobTracks /\ Before(emu.file.track)
    BY <1>1 DEF FileInv, ImageParts
  <2>2. emu.file.track # NoTrack => Before(emu.file.track)'
    <3>1. emu'.file = emu.file
      BY <1>1
    <3>2. \A t \in JobTracks : Before(t) => t[1] < try'.cyl \/ (t[1] = try'.cyl /\ t[2] < try'.head)
      BY <1>5 DEF Before
    <3> QED BY <2>1, <3>1, <3>2 DEF Before
  <2>3. emu.file.track # NoTrack /\ ~emu.file.spilt => WordsTell(emu.file.words, emu.file.track)
    BY DEF FileInv, ImageParts
  <2> QED BY <1>1, <2>1, <2>2, <2>3 DEF FileInv, WordsTell, HeldAt, JobTracks
<1> QED BY <1>6, <1>7, <1>8, <1>9, <1>10, <1>11 DEF ImageParts

----------------------------------------------------------------------------
(* The other steps                                                         *)

\* The steps that touch neither list nor words
LEMMA PlainParts ==
  ASSUME TrackInv, Others, ~EndDecode, ~mfm_decode_done, ImageParts, PhaseInv
  PROVE  ImageParts'
<1>1. /\ dp' = dp /\ r' = r /\ try'.cyl = try.cyl /\ try'.head = try.head
      /\ at' = at /\ Sectors' = Sectors /\ HeldIn(r.file)' = HeldIn(r.file)
  <2>1. dp' = dp /\ r' = r /\ try'.cyl = try.cyl /\ try'.head = try.head
    BY OthersStep
  <2> QED BY <2>1, HeldAfter DEF at, Sectors
<1>2. /\ last' = last /\ emu' = emu
      /\ pc' = "done" <=> pc = "done"
      /\ pc' \in {"end", "correct"} => pc \in {"end", "correct"} \/ last.track = at
      /\ main' = "decode" => main = "decode" /\ processed' = processed
      /\ main' \in {"idle", "exec"} => main \in {"idle", "exec"}
  <2>1. CASE \/ NoSeek \/ EnableRecovery \/ MicroStep \/ SeekAway \/ SeekBack \/ NowhereToSeek
             \/ GoToTrack
    BY <2>1 DEF NoSeek, EnableRecovery, MicroStep, SeekAway, SeekBack, NowhereToSeek, GoToTrack,
                Idle, deltaVars
  <2>2. CASE CorrectSeek
    BY <2>2 DEF CorrectSeek, Idle, deltaVars
  <2>3. CASE ReadTrack
    BY <2>3 DEF ReadTrack, ExecRead
  <2>4. CASE Failed \/ StopThread \/ Join \/ SigInt
    BY <2>4 DEF Failed, ReadFailed, StopThread, Stop, deltas_stop_thread, Join, Joined, SigInt,
                Interrupt, driveVars
  <2>5. CASE DeltaThread
    BY <2>5 DEF DeltaThread, driveVars, delta_proc, WaitRead, CopyDeltas, CheckStatus, WriteDeltas,
                Complete
  <2>6. CASE PruRead \/ NoIndex
    BY <2>6 DEF PruRead, NoIndex, PruStart, PruCapture, PruFinish, driveVars
  <2>7. CASE UNCHANGED vars
    BY <2>7 DEF vars, deltaVars, driveVars
  <2> QED BY <2>1, <2>2, <2>3, <2>4, <2>5, <2>6, <2>7 DEF Others
<1> USE DEF ImageParts
<1>3. TellingOf(r.list)' /\ MissedInv' /\ WordsInv'
  BY <1>1, <1>2 DEF TellingOf, MissedInv, WordsInv
<1>4. LastInv' /\ ListInv'
  BY <1>1, <1>2 DEF LastInv, ListInv, HeldAt, JobTracks, NextAfter
<1>5. SeenInv' /\ FirstInv'
  BY <1>1, <1>2 DEF SeenInv, FirstInv, HeldAt, PlaceAt
<1>6. BestInv' /\ FixedInv' /\ FileInv'
  BY <1>1, <1>2 DEF BestInv, FixedInv, FileInv, Weighed, WordsTell, HeldAt, Before, JobTracks
<1> QED BY <1>3, <1>4, <1>5, <1>6

\* With ignore_seek_errors nothing is written.
LEMMA NoImageStep ==
  ASSUME TrackInv, NoImage, [Next]_vars
  PROVE  NoImage'
<1>1. dp' = dp
  BY JobStays
<1>2. SUFFICES ASSUME dp.ignore_seek_errors
               PROVE  EmuFields \subseteq DOMAIN emu' /\ emu'.file = emu.file
  BY <1>1 DEF NoImage
<1>3. EmuFields \subseteq DOMAIN emu
  BY <1>2 DEF NoImage
<1>4. CASE DecodeSector
  <2>1. ASSUME NEW slot, NEW d, NEW rank
        PROVE  LET u == update_emu_track_sector(Gathered(emu, slot), d, rank)
               IN EmuFields \subseteq DOMAIN u /\ u.file = emu.file
    <3> DEFINE g == Gathered(emu, slot)
    <3>1. EmuFields \subseteq DOMAIN g /\ g.file = emu.file
      BY <1>3, WordGathered DEF SameBest
    <3> HIDE DEF g
    <3>2. LET u == update_emu_track_sector(g, d, rank)
          IN EmuFields \subseteq DOMAIN u /\ u.file = emu.file
      BY <3>1 DEF update_emu_track_sector, EmuFields
    <3> QED BY <3>2 DEF g
  <2>2. ASSUME NEW slot
        PROVE  EmuFields \subseteq DOMAIN Gathered(emu, slot) /\ Gathered(emu, slot).file = emu.file
    BY <1>3, WordGathered DEF SameBest
  <2>3. \/ \E slot : emu' = Gathered(emu, slot)
        \/ \E slot, d, rank : emu' = update_emu_track_sector(Gathered(emu, slot), d, rank)
    <3>1. PICK seen \in MayRead(processed) : ReadSector(processed, seen) \/ MissHeader(seen)
      BY <1>4 DEF DecodeSector
    <3>2. CASE ReadSector(processed, seen)
      BY <3>2, Zenon DEF ReadSector
    <3>3. CASE MissHeader(seen)
      BY <3>3, Zenon DEF MissHeader
    <3> QED BY <3>1, <3>2, <3>3
  <2> QED BY <2>1, <2>2, <2>3
<1>5. CASE EndDecode \/ mfm_decode_done
  <2>1. emu' = [emu EXCEPT !.current = <<>>]
    BY <1>2, <1>5 DEF EndDecode, mfm_decode_done, update_stats, Emulating
  <2> QED BY <1>3, <2>1 DEF EmuFields
<1>6. CASE Others /\ ~EndDecode /\ ~mfm_decode_done
  <2>1. emu' = emu
    BY <1>6 DEF Others, NoSeek, EnableRecovery, MicroStep, SeekAway, SeekBack, NowhereToSeek, GoToTrack,
                ReadTrack, Failed, CorrectSeek, StopThread, Join, SigInt, DeltaThread, PruRead, NoIndex,
                vars, driveVars
  <2> QED BY <1>3, <2>1
<1>7. CASE StartDecode \/ NextTrack
  BY <1>3, <1>7 DEF StartDecode, NextTrack
<1> QED BY <1>4, <1>5, <1>6, <1>7, OneOf

\* The invariant holds at the start: nothing was read, seen or written.
LEMMA InitImage == Init => ImageInv
<1> SUFFICES ASSUME Init PROVE ImageInv
  OBVIOUS
<1>1. ReaderInv
  BY InitReader
<1>2. /\ main = "idle" /\ pc = "retry" /\ at = <<0, 0>> /\ emu.current = <<>>
      /\ last.track = NoTrack /\ emu.file.track = NoTrack /\ EmuFields \subseteq DOMAIN emu
      /\ r.list = mfm_init_sector_status_list(dp.num_sectors)
  BY DEF Init, DeltaInit, at, EmuFields
<1>3. WholeInv /\ MissedInv /\ WordsInv /\ SeenInv
  BY <1>2 DEF WholeInv, MissedInv, WordsInv, SeenInv
<1>4. LastInv /\ ListInv /\ BestInv /\ FixedInv /\ FileInv
  BY <1>2 DEF LastInv, ListInv, BestInv, FixedInv, FileInv
<1>5. TellingOf(r.list)
  BY <1>1, <1>2, NewTelling DEF ReaderInv
<1>6. ~dp.ignore_seek_errors => FirstInv
  <2> SUFFICES ASSUME ~dp.ignore_seek_errors, NEW i \in Sectors
               PROVE  ~(i < Len(emu.current)) /\ HeldAt(at, i) = Unread
    BY DEF FirstInv
  <2>1. "SECT_NOT_WRITTEN" \in r.list[i].status
    BY <1>1, <1>2, NewList DEF ReaderInv
  <2>2. HeldIn(r.file)[PlaceAt(i)] = Unread
    BY <1>1, <2>1 DEF ReaderInv, HoldInv, HoldOf, ListOf
  <2>3. PlaceAt(i) = Loc(at, i)
    BY DEF PlaceAt, Loc, at
  <2>4. Len(emu.current) = 0 /\ ~(i < 0)
    BY <1>2 DEF Sectors
  <2> QED BY <2>2, <2>3, <2>4 DEF HeldAt
<1>7. NoImage
  BY <1>2 DEF NoImage
<1> QED BY <1>3, <1>4, <1>5, <1>6, <1>7 DEF ImageInv, Imaging, ImageParts

\* ... and at every step.
LEMMA StepImage ==
  ASSUME ReaderInv, ImageInv, [Next]_vars
  PROVE  ImageInv'
<1> USE DEF ReaderInv
<1>1. dp' = dp
  BY JobStays
<1>2. WholeInv' /\ NoImage'
  BY WholeStep, NoImageStep DEF ImageInv
<1>3. ASSUME Imaging PROVE ImageParts'
  <2>1. ImageParts /\ WholeInv /\ ~dp.ignore_seek_errors
    BY <1>3 DEF ImageInv, Imaging
  <2>2. CASE EndDecode
    BY <1>3, <2>1, <2>2, EndParts
  <2>3. CASE mfm_decode_done
    BY <1>3, <2>1, <2>3, DoneParts
  <2>4. CASE Others /\ ~EndDecode /\ ~mfm_decode_done
    BY <2>1, <2>4, PlainParts
  <2>5. CASE StartDecode
    BY <2>1, <2>5, StartParts
  <2>6. CASE NextTrack
    <3>1. HoldInv'
      BY HoldStep
    <3> QED BY <2>1, <2>6, <3>1, NextParts
  <2>7. CASE DecodeSector
    BY <2>1, <2>7, SectorParts
  <2> QED BY <2>2, <2>3, <2>4, <2>5, <2>6, <2>7, OneOf
<1>4. Imaging' => Imaging
  BY <1>1 DEF Imaging, Sectors
<1> QED BY <1>2, <1>3, <1>4 DEF ImageInv

\* Each track of the emulation image that is written is as good as the extracted file,
\* sector by sector, on every disk: the weights by which update_emu_track_words() chooses
\* between the best read of a track and the one put together of several never choose
\* one that has a sector less well than the file.  (Except after a missed mark, see
\* EmuHoldsBest.)
THEOREM EmuHoldsBestAlways == Spec => []EmuHoldsBest
<1>1. ReaderInv /\ ImageInv => EmuHoldsBest
  <2> SUFFICES ASSUME ImageInv, emu.file.track # NoTrack, ~emu.file.spilt,
                      NEW i \in Sectors
               PROVE  LET place == <<emu.file.track[1], emu.file.track[2], i>>
                      IN WordClass(place) <= Class(Held[place])
    BY DEF EmuHoldsBest
  <2> DEFINE place == <<emu.file.track[1], emu.file.track[2], i>>
  <2>1. WordsTell(emu.file.words, emu.file.track)
    BY DEF ImageInv, NoImage, Imaging, ImageParts, FileInv
  <2>2. place = Loc(emu.file.track, i) /\ place[3] = i
    BY DEF Loc
  <2>3. WordClass(place) = ClassAt(emu.file.words[i + 1], place)
    BY <2>2 DEF WordClass, ClassAt
  <2>4. ClassAt(emu.file.words[i + 1], place) <= Class(HeldIn(r.file)[place])
    BY <2>1, <2>2 DEF WordsTell, HeldAt
  <2> QED BY <2>3, <2>4, HeldIsHeldIn
<1>2. ReaderInv /\ [Next]_vars => ReaderInv'
  BY StepReader
<1>3. ReaderInv /\ ImageInv /\ [Next]_vars => ImageInv'
  BY StepImage
<1> QED BY <1>1, <1>2, <1>3, InitReader, InitImage, PTL DEF Spec

----------------------------------------------------------------------------
(* The statistics                                                          *)

\* The sectors of the tracks before t
EarlierThan(t) == {p \in Places : p[1] < t[1] \/ (p[1] = t[1] /\ p[2] < t[2])}

\* The track whose sectors update_stats() has not added yet
Uncounted == IF pc = "done" THEN <<dp.num_cyl, 0>> ELSE IF last.track = NoTrack THEN <<0, 0>> ELSE last.track

\* Those of them that the file has with a rank of rs
Tally(t, rs) == Cardinality({p \in EarlierThan(t) : HeldIn(r.file)[p] \in rs})

\* The sums tell of the tracks that were added.
SumsTell(s, t) ==
  /\ IsFiniteSet(EarlierThan(t))
  /\ s.num_good_sectors = Tally(t, Spans \cup {0})
  /\ s.num_ecc_recovered = Tally(t, Spans)
  /\ s.num_bad_header \in Nat /\ s.num_bad_data \in Nat
  /\ s.num_bad_data + s.num_bad_header = Tally(t, {Unreadable, Unread})

\* Nothing is counted of tracks without sectors.
NoneCounted ==
  DOMAIN last.list = {}
  /\ stats = [num_ecc_recovered |-> 0, num_bad_header |-> 0, num_bad_data |-> 0, num_good_sectors |-> 0]

\* The invariant of the sums, together with ImageInv
StatsInv ==
  /\ Sectors = {} => NoneCounted
  /\ Imaging => SumsTell(stats, Uncounted)

\* The sectors of t that the file has with a rank of rs
CountOf(t, rs) == Cardinality({i \in Sectors : HeldAt(t, i) \in rs})

\* The sectors before the next track are those before this one and its own.
LEMMA EarlierGrows ==
  ASSUME JobInv, TrackInv, NEW t \in JobTracks
  PROVE  /\ EarlierThan(NextAfter(t)) = EarlierThan(t) \cup {Loc(t, i) : i \in Sectors}
         /\ EarlierThan(t) \cap {Loc(t, i) : i \in Sectors} = {}
<1> DEFINE own == {Loc(t, i) : i \in Sectors}
<1>1. /\ t[1] \in Nat /\ t[2] \in Nat /\ t[2] < dp.num_head /\ t = <<t[1], t[2]>>
      /\ dp.num_head \in Nat
  BY JobFacts DEF JobTracks
<1>2. \A i \in Sectors : Loc(t, i) \in Places /\ Loc(t, i)[1] = t[1] /\ Loc(t, i)[2] = t[2]
  BY TrackApart DEF Loc
<1>3. ASSUME NEW p \in Places
      PROVE  /\ p[1] \in Nat /\ p[2] \in Nat /\ p[2] < dp.num_head
             /\ p[1] = t[1] /\ p[2] = t[2] => p \in own
  <2>1. p \in Nat \X (0 .. dp.num_head - 1) \X Sectors
    BY PlaceFacts DEF Sectors
  <2>2. p = <<p[1], p[2], p[3]>> /\ p[3] \in Sectors
    BY <2>1
  <2>3. p[1] = t[1] /\ p[2] = t[2] => p = Loc(t, p[3])
    BY <2>2 DEF Loc
  <2> QED BY <1>1, <2>1, <2>2, <2>3
<1>4. ASSUME NEW p \in Places
      PROVE  p \in EarlierThan(NextAfter(t)) <=> p \in EarlierThan(t) \/ (p[1] = t[1] /\ p[2] = t[2])
  <2>1. CASE t[2] + 1 < dp.num_head
    <3>1. NextAfter(t)[1] = t[1] /\ NextAfter(t)[2] = t[2] + 1
      BY <2>1 DEF NextAfter
    <3> QED BY <1>1, <1>3, <3>1 DEF EarlierThan
  <2>2. CASE ~(t[2] + 1 < dp.num_head)
    <3>1. NextAfter(t)[1] = t[1] + 1 /\ NextAfter(t)[2] = 0
      BY <2>2 DEF NextAfter
    <3> QED BY <1>1, <1>3, <2>2, <3>1 DEF EarlierThan
  <2> QED BY <2>1, <2>2
<1>5. \A p \in own : p \in Places /\ p[1] = t[1] /\ p[2] = t[2]
  BY <1>2
<1>6. \A u : EarlierThan(u) \subseteq Places
  BY DEF EarlierThan
<1> HIDE DEF own
<1>7. EarlierThan(NextAfter(t)) = EarlierThan(t) \cup own
  BY <1>3, <1>4, <1>5, <1>6
<1>8. EarlierThan(t) \cap own = {}
  BY <1>1, <1>5 DEF EarlierThan
<1> QED BY <1>7, <1>8 DEF own

\* The tally of the next track adds the sectors of this one.
LEMMA NextTally ==
  ASSUME JobInv, TrackInv, NEW t \in JobTracks, IsFiniteSet(EarlierThan(t)), NEW rs
  PROVE  /\ IsFiniteSet(EarlierThan(NextAfter(t)))
         /\ Tally(t, rs) \in Nat /\ CountOf(t, rs) \in Nat
         /\ Tally(NextAfter(t), rs) = Tally(t, rs) + CountOf(t, rs)
<1> DEFINE own == {Loc(t, i) : i \in Sectors}
           old == {p \in EarlierThan(t) : HeldIn(r.file)[p] \in rs}
           new == {p \in own : HeldIn(r.file)[p] \in rs}
           mine == {i \in Sectors : HeldAt(t, i) \in rs}
           f == [i \in Sectors |-> Loc(t, i)]
           g == [i \in mine |-> Loc(t, i)]
<1>1. IsFiniteSet(Sectors)
  <2>1. Sectors = 0 .. MaxDeltas - 1 /\ MaxDeltas - 1 \in Int
    BY JobFacts DEF Sectors
  <2> QED BY <2>1, FS_Interval
<1>2. \A i, j : Loc(t, i) = Loc(t, j) => i = j
  BY DEF Loc
<1>3. IsFiniteSet(own)
  <2>1. f \in Surjection(Sectors, own)
    BY DEF Surjection
  <2> QED BY <1>1, <2>1, FS_Surjection
<1>4. IsFiniteSet(mine) /\ Cardinality(mine) \in Nat
  <2>1. mine \in SUBSET Sectors
    OBVIOUS
  <2> HIDE DEF mine
  <2>2. IsFiniteSet(mine)
    BY <1>1, <2>1, FS_Subset
  <2> QED BY <2>2, FS_CardinalityType
<1>5. IsFiniteSet(new) /\ Cardinality(new) = Cardinality(mine)
  <2>1. g \in [mine -> new]
    BY DEF HeldAt
  <2>2. \A a, b \in mine : g[a] = g[b] => a = b
    BY <1>2
  <2>3. \A p \in new : \E i \in mine : g[i] = p
    BY DEF HeldAt
  <2>4. g \in Bijection(mine, new)
    <3> HIDE DEF g, mine, new
    <3> QED BY <2>1, <2>2, <2>3 DEF Bijection, Injection, IsInjective, Surjection
  <2>5. ExistsBijection(mine, new)
    BY <2>4 DEF ExistsBijection
  <2> HIDE DEF mine, new
  <2> QED BY <1>4, <2>5, FS_Bijection
<1>6. IsFiniteSet(old) /\ Cardinality(old) \in Nat
  <2>1. old \in SUBSET EarlierThan(t)
    OBVIOUS
  <2> HIDE DEF old
  <2>2. IsFiniteSet(old)
    BY <2>1, FS_Subset
  <2> QED BY <2>2, FS_CardinalityType
<1>7. /\ EarlierThan(NextAfter(t)) = EarlierThan(t) \cup own
      /\ EarlierThan(t) \cap own = {}
  BY EarlierGrows
<1>8. IsFiniteSet(EarlierThan(NextAfter(t)))
  <2> HIDE DEF own
  <2> QED BY <1>3, <1>7, FS_Union
<1>9. Cardinality(old \cup new) = Cardinality(old) + Cardinality(new)
  <2>1. old \cap new = {}
    BY <1>7
  <2>2. Cardinality(old \cap new) = 0
    BY <2>1, FS_EmptySet
  <2>3. Cardinality(new) \in Nat
    BY <1>4, <1>5
  <2> HIDE DEF old, new
  <2>4. Cardinality(old \cup new) = Cardinality(old) + Cardinality(new) - Cardinality(old \cap new)
    BY <1>5, <1>6, FS_Union
  <2> QED BY <1>6, <2>2, <2>3, <2>4
<1>10. {p \in EarlierThan(NextAfter(t)) : HeldIn(r.file)[p] \in rs} = old \cup new
  BY <1>7
<1> HIDE DEF old, new, mine
<1>11. Tally(NextAfter(t), rs) = Cardinality(old) + Cardinality(mine)
  BY <1>5, <1>9, <1>10 DEF Tally
<1>12. Tally(t, rs) = Cardinality(old) /\ CountOf(t, rs) = Cardinality(mine)
  BY DEF Tally, CountOf, old, mine
<1> QED BY <1>4, <1>6, <1>8, <1>11, <1>12

\* What the flags of an entry say of its sector
LEMMA FlagsSay ==
  ASSUME NEW e \in SectorRecord, Telling(e)
  PROVE  /\ "SECT_ECC_RECOVERED" \in e.status <=> Says(e) \in Spans
         /\ e.status \cap {"SECT_BAD_HEADER", "SECT_BAD_DATA"} = {} <=> Says(e) \in Spans \cup {0}
         /\ e.status \cap {"SECT_BAD_HEADER", "SECT_BAD_DATA"} # {} <=> Says(e) \in {Unreadable, Unread}
<1>1. e.ecc \in Spans \cup {0}
  BY DEF SectorRecord
<1>2. Unread = 101 /\ Unreadable = 100 /\ \A n \in Spans : n \in Nat /\ n # 0 /\ n < 100
  BY SpansAssumption DEF Unreadable, Unread
<1>3. CASE "SECT_NOT_WRITTEN" \in e.status
  <2>1. Says(e) = Unread
    BY <1>3 DEF Says
  <2> QED BY <1>2, <1>3, <2>1 DEF Telling
<1>4. CASE "SECT_NOT_WRITTEN" \notin e.status
  <2>1. Says(e) = IF "SECT_BAD_DATA" \in e.status THEN Unreadable ELSE e.ecc
    BY <1>4 DEF Says, RankOf
  <2> QED BY <1>1, <1>2, <1>4, <2>1 DEF Telling
<1> QED BY <1>3, <1>4

\* The sums over the list that update_stats() adds count the sectors that the file has
\* so, each once.
LEMMA ListCounts ==
  ASSUME JobInv, last.track # NoTrack, ListInv, last.track # at \/ main \in {"idle", "exec"},
         stats.num_bad_header \in Nat, stats.num_bad_data \in Nat
  PROVE  LET t == last.track
         IN /\ Summed.num_good_sectors = stats.num_good_sectors + CountOf(t, Spans \cup {0})
            /\ Summed.num_ecc_recovered = stats.num_ecc_recovered + CountOf(t, Spans)
            /\ Summed.num_bad_header \in Nat /\ Summed.num_bad_data \in Nat
            /\ Summed.num_bad_data + Summed.num_bad_header
                 = stats.num_bad_data + stats.num_bad_header + CountOf(t, {Unreadable, Unread})
<1> DEFINE t == last.track
           header == {i \in Sectors : "SECT_BAD_HEADER" \in last.list[i].status}
           data == {i \in Sectors : /\ "SECT_BAD_DATA" \in last.list[i].status
                                    /\ "SECT_BAD_HEADER" \notin last.list[i].status}
           good == {i \in Sectors : last.list[i].status \cap {"SECT_BAD_HEADER", "SECT_BAD_DATA"} = {}}
           ecc == {i \in Sectors : "SECT_ECC_RECOVERED" \in last.list[i].status}
           bad == {i \in Sectors : HeldAt(t, i) \in {Unreadable, Unread}}
<1>1. /\ DOMAIN last.list = Sectors
      /\ \A i \in Sectors : /\ Telling(last.list[i]) /\ last.list[i] \in SectorRecord
                            /\ HeldAt(t, i) = Says(last.list[i])
  BY DEF ListInv
<1>2. ASSUME NEW i \in Sectors
      PROVE  /\ "SECT_ECC_RECOVERED" \in last.list[i].status <=> HeldAt(t, i) \in Spans
             /\ last.list[i].status \cap {"SECT_BAD_HEADER", "SECT_BAD_DATA"} = {}
                  <=> HeldAt(t, i) \in Spans \cup {0}
             /\ last.list[i].status \cap {"SECT_BAD_HEADER", "SECT_BAD_DATA"} # {}
                  <=> HeldAt(t, i) \in {Unreadable, Unread}
  <2> HIDE DEF t
  <2>1. HeldAt(t, i) = Says(last.list[i]) /\ Telling(last.list[i]) /\ last.list[i] \in SectorRecord
    BY <1>1
  <2> QED BY <2>1, FlagsSay
<1>3. /\ Counted({"SECT_ECC_RECOVERED"}, {}) = Cardinality(ecc)
      /\ Counted({"SECT_BAD_HEADER"}, {}) = Cardinality(header)
      /\ Counted({"SECT_BAD_DATA"}, {"SECT_BAD_HEADER"}) = Cardinality(data)
  <2>1. /\ {i \in DOMAIN last.list : last.list[i].status \cap {"SECT_ECC_RECOVERED"} # {}
                                     /\ last.list[i].status \cap {} = {}} = ecc
        /\ {i \in DOMAIN last.list : last.list[i].status \cap {"SECT_BAD_HEADER"} # {}
                                     /\ last.list[i].status \cap {} = {}} = header
        /\ {i \in DOMAIN last.list : last.list[i].status \cap {"SECT_BAD_DATA"} # {}
                                     /\ last.list[i].status \cap {"SECT_BAD_HEADER"} = {}} = data
    BY <1>1
  <2> HIDE DEF ecc, header, data
  <2> QED BY <2>1 DEF Counted
<1>4. {i \in DOMAIN last.list : last.list[i].status \cap {"SECT_BAD_HEADER", "SECT_BAD_DATA"} = {}} = good
  BY <1>1
<1>5. good = {i \in Sectors : HeldAt(t, i) \in Spans \cup {0}}
  BY <1>2
<1>6. ecc = {i \in Sectors : HeldAt(t, i) \in Spans}
  BY <1>2
<1>7. bad = header \cup data /\ header \cap data = {}
  BY <1>2
<1>8. IsFiniteSet(Sectors)
  <2>1. Sectors = 0 .. MaxDeltas - 1 /\ MaxDeltas - 1 \in Int
    BY JobFacts DEF Sectors
  <2> QED BY <2>1, FS_Interval
<1>9. /\ IsFiniteSet(header) /\ IsFiniteSet(data)
      /\ Cardinality(header) \in Nat /\ Cardinality(data) \in Nat
  <2>1. header \in SUBSET Sectors /\ data \in SUBSET Sectors
    OBVIOUS
  <2> HIDE DEF header, data
  <2>2. IsFiniteSet(header) /\ IsFiniteSet(data)
    BY <1>8, <2>1, FS_Subset
  <2> QED BY <2>2, FS_CardinalityType
<1>10. CountOf(t, Spans \cup {0}) = Cardinality(good) /\ CountOf(t, Spans) = Cardinality(ecc)
       /\ CountOf(t, {Unreadable, Unread}) = Cardinality(bad)
  BY <1>5, <1>6, Zenon DEF CountOf
<1> HIDE DEF good, ecc, header, data, bad, t
<1>11. Cardinality(bad) = Cardinality(header) + Cardinality(data)
  <2>1. Cardinality(header \cap data) = 0
    BY <1>7, FS_EmptySet
  <2>2. Cardinality(header \cup data)
          = Cardinality(header) + Cardinality(data) - Cardinality(header \cap data)
    BY <1>9, FS_Union
  <2> QED BY <1>7, <1>9, <2>1, <2>2
<1>12. /\ Summed.num_ecc_recovered = stats.num_ecc_recovered + Cardinality(ecc)
       /\ Summed.num_bad_header = stats.num_bad_header + Cardinality(header)
       /\ Summed.num_bad_data = stats.num_bad_data + Cardinality(data)
       /\ Summed.num_good_sectors = stats.num_good_sectors + Cardinality(good)
  BY <1>3, <1>4 DEF Summed
<1>13. /\ Summed.num_bad_header \in Nat /\ Summed.num_bad_data \in Nat
       /\ Summed.num_bad_data + Summed.num_bad_header
            = stats.num_bad_data + stats.num_bad_header + Cardinality(bad)
  <2> DEFINE a == stats.num_bad_header  b == stats.num_bad_data
             c == Cardinality(header)  d == Cardinality(data)
  <2>1. a \in Nat /\ b \in Nat /\ c \in Nat /\ d \in Nat
    BY <1>9
  <2>2. Summed.num_bad_header = a + c /\ Summed.num_bad_data = b + d /\ Cardinality(bad) = c + d
    BY <1>11, <1>12
  <2> HIDE DEF a, b, c, d
  <2>3. /\ Summed.num_bad_header \in Nat /\ Summed.num_bad_data \in Nat
        /\ Summed.num_bad_data + Summed.num_bad_header = b + a + Cardinality(bad)
    BY <2>1, <2>2
  <2> QED BY <2>3 DEF a, b
<1> QED BY <1>10, <1>12, <1>13 DEF t

\* Only the end of a read and the end of the disk add to the sums.
LEMMA SumsKept ==
  ASSUME [Next]_vars, ~EndDecode, ~mfm_decode_done
  PROVE  last' = last /\ stats' = stats /\ (pc' = "done" <=> pc = "done")
<1>1. CASE \/ NoSeek \/ EnableRecovery \/ MicroStep \/ SeekAway \/ SeekBack \/ NowhereToSeek
           \/ GoToTrack
  BY <1>1 DEF NoSeek, EnableRecovery, MicroStep, SeekAway, SeekBack, NowhereToSeek, GoToTrack
<1>2. CASE CorrectSeek \/ NextTrack
  BY <1>2 DEF CorrectSeek, NextTrack
<1>3. CASE ReadTrack \/ StartDecode \/ DecodeSector
  BY <1>3 DEF ReadTrack, StartDecode, DecodeSector
<1>4. CASE Failed \/ StopThread \/ Join \/ SigInt
  BY <1>4 DEF Failed, StopThread, Join, SigInt, driveVars
<1>5. CASE DeltaThread \/ PruRead \/ NoIndex
  BY <1>5 DEF DeltaThread, PruRead, NoIndex, driveVars
<1>6. CASE UNCHANGED vars
  BY <1>6 DEF vars, driveVars
<1> QED BY <1>1, <1>2, <1>3, <1>4, <1>5, <1>6 DEF Next, Reader

\* The sums of tracks that a step leaves alone tell of them after it.
LEMMA SumsStay ==
  ASSUME NEW s, NEW t, SumsTell(s, t), stats' = s, Uncounted' = t, dp' = dp,
         \A p \in EarlierThan(t) : HeldIn(r'.file)[p] = HeldIn(r.file)[p]
  PROVE  SumsTell(stats, Uncounted)'
<1>1. EarlierThan(Uncounted)' = EarlierThan(t)
  BY DEF EarlierThan
<1>2. HeldIn(r.file)' = HeldIn(r'.file)
  BY HeldAfter
<1>3. ASSUME NEW rs PROVE {p \in EarlierThan(t) : HeldIn(r'.file)[p] \in rs}
                        = {p \in EarlierThan(t) : HeldIn(r.file)[p] \in rs}
  OBVIOUS
<1>4. Tally(Uncounted, Spans)' = Tally(t, Spans)
  BY <1>1, <1>2, <1>3 DEF Tally
<1>5. Tally(Uncounted, Spans \cup {0})' = Tally(t, Spans \cup {0})
  BY <1>1, <1>2, <1>3 DEF Tally
<1>6. Tally(Uncounted, {Unreadable, Unread})' = Tally(t, {Unreadable, Unread})
  BY <1>1, <1>2, <1>3 DEF Tally
<1> HIDE DEF EarlierThan, Tally, Uncounted
<1> QED BY <1>1, <1>4, <1>5, <1>6 DEF SumsTell, Unreadable, Unread

\* Nothing is before the first track.
LEMMA NoneEarlier ==
  ASSUME JobInv
  PROVE  EarlierThan(<<0, 0>>) = {}
<1>1. ASSUME NEW p \in Places PROVE p[1] \in Nat /\ p[2] \in Nat
  <2>1. p \in Nat \X (0 .. dp.num_head - 1) \X (0 .. dp.num_sectors - 1) /\ dp.num_head \in Nat
    BY JobFacts, PlaceFacts
  <2> QED BY <2>1
<1> QED BY <1>1 DEF EarlierThan

\* The track that is read is none of those that have been added.
LEMMA ReadIsUncounted ==
  ASSUME JobInv, TrackInv, PhaseInv, LastInv, main = "decode", NEW j \in Sectors
  PROVE  PlaceAt(j) \notin EarlierThan(Uncounted)
<1>1. pc # "done"
  BY DEF PhaseInv
<1>2. PlaceAt(j)[1] = try.cyl /\ PlaceAt(j)[2] = try.head /\ try.cyl \in Nat /\ try.head \in Nat
  BY JobFacts DEF PlaceAt, TrackInv
<1>3. CASE last.track = NoTrack
  BY <1>1, <1>3, NoneEarlier DEF Uncounted
<1>4. CASE last.track # NoTrack
  <2>1. Uncounted = last.track /\ last.track \in JobTracks
    BY <1>1, <1>4 DEF Uncounted, LastInv
  <2>2. last.track[1] \in Nat /\ last.track[2] \in Nat
    BY <2>1, JobFacts DEF JobTracks
  <2>3. last.track = at \/ Before(last.track)
    BY <1>4, <2>1, AfterIsBefore DEF LastInv
  <2>4. \/ last.track[1] = try.cyl /\ last.track[2] = try.head
        \/ last.track[1] < try.cyl \/ (last.track[1] = try.cyl /\ last.track[2] < try.head)
    BY <2>3 DEF Before, at
  <2> QED BY <1>2, <2>1, <2>2, <2>4 DEF EarlierThan
<1> QED BY <1>3, <1>4

\* A step within a read or between two leaves the tracks that have been added alone.
LEMMA CountedStay ==
  ASSUME ReaderInv, ImageInv, Imaging, [Next]_vars, ~EndDecode, ~mfm_decode_done, NEW p \in EarlierThan(Uncounted)
  PROVE  HeldIn(r'.file)[p] = HeldIn(r.file)[p]
<1> USE DEF ReaderInv
<1>1. CASE Others
  BY <1>1, OthersStep
<1>2. CASE StartDecode \/ NextTrack
  BY <1>2, ListStarted, TrackStarted
<1>3. CASE DecodeSector
  <2>1. ImageParts /\ ~dp.ignore_seek_errors /\ WholeInv
    BY DEF ImageInv, Imaging
  <2>2. \E j \in Sectors, rank \in ReadRanks, slot \in Slots : SectorRead(j, rank, slot)
    BY <1>3, <2>1, SectorSummary DEF ImageParts
  <2>3. PICK j \in Sectors, rank \in ReadRanks, slot \in Slots : SectorRead(j, rank, slot)
    BY <2>2
  <2>4. p \in Places /\ p # PlaceAt(j)
    <3>1. main = "decode"
      BY <1>3 DEF DecodeSector
    <3>2. PlaceAt(j) \notin EarlierThan(Uncounted)
      BY <2>1, <3>1, ReadIsUncounted DEF ImageParts
    <3> QED BY <3>2 DEF EarlierThan
  <2> QED BY <2>3, <2>4, FileGrows
<1> QED BY <1>1, <1>2, <1>3, OneOf

\* update_stats() adds the track that has been left.
LEMMA TrackAdded ==
  ASSUME JobInv, TrackInv, ListInv, last.track # NoTrack, last.track \in JobTracks,
         last.track # at \/ main \in {"idle", "exec"}, SumsTell(stats, last.track)
  PROVE  SumsTell(Summed, NextAfter(last.track))
<1> DEFINE t == last.track
           u == NextAfter(last.track)
           none == {Unreadable, Unread}
<1>1. IsFiniteSet(EarlierThan(t)) /\ stats.num_bad_header \in Nat /\ stats.num_bad_data \in Nat
  BY DEF SumsTell
<1>2. /\ stats.num_good_sectors = Tally(t, Spans \cup {0})
      /\ stats.num_ecc_recovered = Tally(t, Spans)
      /\ stats.num_bad_data + stats.num_bad_header = Tally(t, none)
  BY DEF SumsTell
<1>3. /\ Summed.num_good_sectors = stats.num_good_sectors + CountOf(t, Spans \cup {0})
      /\ Summed.num_ecc_recovered = stats.num_ecc_recovered + CountOf(t, Spans)
      /\ Summed.num_bad_header \in Nat /\ Summed.num_bad_data \in Nat
      /\ Summed.num_bad_data + Summed.num_bad_header
           = stats.num_bad_data + stats.num_bad_header + CountOf(t, none)
  BY <1>1, ListCounts
<1>4. \A rs : /\ IsFiniteSet(EarlierThan(u))
              /\ Tally(t, rs) \in Nat /\ CountOf(t, rs) \in Nat
              /\ Tally(u, rs) = Tally(t, rs) + CountOf(t, rs)
  BY <1>1, NextTally
<1> HIDE DEF t, u, none
<1>5. /\ Tally(u, Spans \cup {0}) = Tally(t, Spans \cup {0}) + CountOf(t, Spans \cup {0})
      /\ Tally(u, Spans) = Tally(t, Spans) + CountOf(t, Spans)
      /\ Tally(u, none) = Tally(t, none) + CountOf(t, none)
      /\ IsFiniteSet(EarlierThan(u))
  BY <1>4
<1>6. /\ Summed.num_good_sectors = Tally(u, Spans \cup {0})
      /\ Summed.num_ecc_recovered = Tally(u, Spans)
      /\ Summed.num_bad_data + Summed.num_bad_header = Tally(u, none)
  BY <1>2, <1>3, <1>5
<1> QED BY <1>3, <1>5, <1>6 DEF SumsTell, u, none

\* The end of a read and the end of the disk add a track or leave the sums.
LEMMA CountStep ==
  ASSUME ReaderInv, ImageInv, Imaging, SumsTell(stats, Uncounted), [Next]_vars
  PROVE  SumsTell(stats, Uncounted)'
<1> USE DEF ReaderInv
<1>1. LastInv /\ ListInv
  BY DEF ImageInv, ImageParts
<1>2. dp' = dp
  BY JobStays
<1>3. at \in JobTracks /\ at # NoTrack
  BY AtFacts
<1>4. CASE EndDecode
  <2>1. r' = r /\ pc # "done" /\ pc' # "done" /\ last'.track = at
    BY <1>4 DEF EndDecode, Decoded, PhaseInv, update_stats
  <2>2. Uncounted' = at
    BY <1>3, <2>1 DEF Uncounted
  <2>3. CASE last.track # NoTrack /\ last.track # at
    <3>1. stats' = Summed /\ last.track \in JobTracks /\ at = NextAfter(last.track)
      BY <1>1, <1>4, <2>3 DEF EndDecode, update_stats, LastInv
    <3>2. SumsTell(stats, last.track)
      BY <2>1, <2>3 DEF Uncounted
    <3>3. SumsTell(Summed, at)
      BY <1>1, <2>3, <3>1, <3>2, TrackAdded
    <3> QED BY <1>2, <2>1, <2>2, <3>1, <3>3, SumsStay
  <2>4. CASE ~(last.track # NoTrack /\ last.track # at)
    <3>1. stats' = stats
      BY <1>4, <2>4 DEF EndDecode, update_stats
    <3>2. Uncounted = at
      BY <1>1, <2>1, <2>4 DEF Uncounted, LastInv
    <3> QED BY <1>2, <2>1, <2>2, <3>1, <3>2, SumsStay
  <2> QED BY <2>3, <2>4
<1>5. CASE mfm_decode_done
  <2>1. /\ r' = r /\ pc = "end" /\ main = "idle" /\ pc' = "done"
        /\ try.head + 1 = dp.num_head /\ try.cyl + 1 = dp.num_cyl
    BY <1>5 DEF mfm_decode_done, Idle
  <2>2. last.track = at
    BY <1>1, <2>1 DEF LastInv
  <2>3. stats' = Summed
    BY <1>3, <1>5, <2>2 DEF mfm_decode_done, update_stats
  <2>4. NextAfter(at) = <<dp.num_cyl, 0>>
    <3>1. dp.num_head \in Nat /\ at[2] = try.head /\ at[1] = try.cyl
      BY JobFacts DEF at
    <3> QED BY <2>1, <3>1 DEF NextAfter
  <2>5. Uncounted' = NextAfter(at) /\ Uncounted = at
    BY <1>2, <1>3, <2>1, <2>2, <2>4 DEF Uncounted
  <2>6. SumsTell(Summed, NextAfter(at))
    BY <1>1, <1>3, <2>1, <2>2, <2>5, TrackAdded
  <2> QED BY <1>2, <2>1, <2>3, <2>5, <2>6, SumsStay
<1>6. CASE ~EndDecode /\ ~mfm_decode_done
  <2>1. last' = last /\ stats' = stats /\ (pc' = "done" <=> pc = "done")
    BY <1>6, SumsKept
  <2>2. Uncounted' = Uncounted
    BY <1>2, <2>1 DEF Uncounted
  <2>3. \A p \in EarlierThan(Uncounted) : HeldIn(r'.file)[p] = HeldIn(r.file)[p]
    BY <1>6, CountedStay
  <2> QED BY <1>2, <2>1, <2>2, <2>3, SumsStay
<1> QED BY <1>4, <1>5, <1>6

\* Tracks without sectors add nothing.
LEMMA NoneStep ==
  ASSUME ReaderInv, Sectors = {}, NoneCounted, [Next]_vars
  PROVE  NoneCounted'
<1>1. CASE EndDecode \/ mfm_decode_done
  <2>1. DOMAIN r.list = {} /\ DOMAIN <<>> = {}
    BY DEF ReaderInv, DecoderInv, DecoderType
  <2>2. last'.list = last.list
    BY <1>1, <2>1 DEF EndDecode, mfm_decode_done, update_stats, NoneCounted
  <2>3. \A flags, but : Counted(flags, but) = 0
    BY FS_EmptySet DEF NoneCounted, Counted
  <2>4. Cardinality({i \in DOMAIN last.list : last.list[i].status \cap {"SECT_BAD_HEADER", "SECT_BAD_DATA"} = {}}) = 0
    BY FS_EmptySet DEF NoneCounted
  <2>5. Summed = stats
    BY <2>3, <2>4 DEF Summed, NoneCounted
  <2>6. stats' = stats
    BY <1>1, <2>5 DEF EndDecode, mfm_decode_done, update_stats
  <2> QED BY <2>2, <2>6 DEF NoneCounted
<1>2. CASE ~EndDecode /\ ~mfm_decode_done
  BY <1>2, SumsKept DEF NoneCounted
<1> QED BY <1>1, <1>2

\* The sums are right at the start ...
LEMMA InitStats == Init => StatsInv
<1> SUFFICES ASSUME Init PROVE StatsInv
  OBVIOUS
<1>1. JobInv
  BY InitReader DEF ReaderInv
<1>2. /\ pc = "retry" /\ last = [track |-> NoTrack, list |-> <<>>]
      /\ stats = [num_ecc_recovered |-> 0, num_bad_header |-> 0, num_bad_data |-> 0, num_good_sectors |-> 0]
  BY DEF Init
<1>3. NoneCounted
  BY <1>2 DEF NoneCounted
<1>4. Uncounted = <<0, 0>>
  BY <1>2 DEF Uncounted
<1>5. EarlierThan(Uncounted) = {}
  BY <1>1, <1>4, NoneEarlier
<1>6. IsFiniteSet(EarlierThan(Uncounted)) /\ \A rs : Tally(Uncounted, rs) = 0
  <2> HIDE DEF EarlierThan
  <2>1. \A rs : {p \in EarlierThan(Uncounted) : HeldIn(r.file)[p] \in rs} = {}
    BY <1>5
  <2> QED BY <1>5, <2>1, FS_EmptySet DEF Tally
<1>7. SumsTell(stats, Uncounted)
  BY <1>2, <1>6 DEF SumsTell
<1> QED BY <1>3, <1>7 DEF StatsInv

\* ... and at every step.
LEMMA StepStats ==
  ASSUME ReaderInv, ImageInv, StatsInv, [Next]_vars
  PROVE  StatsInv'
<1>1. Sectors' = Sectors /\ (Imaging' <=> Imaging)
  <2>1. dp' = dp
    BY JobStays DEF ReaderInv
  <2> QED BY <2>1 DEF Sectors, Imaging
<1>2. Sectors = {} => NoneCounted'
  BY NoneStep DEF StatsInv
<1>3. Imaging => SumsTell(stats, Uncounted)'
  BY CountStep DEF StatsInv
<1> QED BY <1>1, <1>2, <1>3 DEF StatsInv

\* The statistics printed at the end count every sector of the disk once, as the
\* extracted file has it, however often its track was read: of every disk, and of
\* every number of retries.
THEOREM StatsTellAlways == Spec => []StatsTell
<1>1. ReaderInv /\ ImageInv /\ StatsInv => StatsTell
  <2> SUFFICES ASSUME ReaderInv, StatsInv, pc = "done", ~dp.ignore_seek_errors
               PROVE  \A rs : LET OfDisk == Cardinality({p \in Places : p[1] < dp.num_cyl /\ HeldIn(r.file)[p] \in rs})
                              IN /\ rs = Spans \cup {0} => stats.num_good_sectors = OfDisk
                                 /\ rs = Spans => stats.num_ecc_recovered = OfDisk
                                 /\ rs = {Unreadable, Unread} => stats.num_bad_data + stats.num_bad_header = OfDisk
    BY HeldIsHeldIn DEF StatsTell
  <2> TAKE rs
  <2> DEFINE of == {p \in Places : p[1] < dp.num_cyl /\ HeldIn(r.file)[p] \in rs}
  <2>1. JobInv
    BY DEF ReaderInv
  <2>2. CASE Sectors = {}
    <3>1. Places = {}
      BY <2>1, <2>2, PlaceFacts DEF Sectors
    <3>2. Cardinality(of) = 0
      BY <3>1, FS_EmptySet
    <3> QED BY <2>2, <3>2 DEF StatsInv, NoneCounted
  <2>3. CASE Sectors # {}
    <3>1. SumsTell(stats, <<dp.num_cyl, 0>>)
      BY <2>3 DEF StatsInv, Imaging, Uncounted
    <3>2. {p \in EarlierThan(<<dp.num_cyl, 0>>) : HeldIn(r.file)[p] \in rs} = of
      <4>1. ASSUME NEW p \in Places PROVE ~(p[2] < 0)
        <5>1. p \in Nat \X (0 .. dp.num_head - 1) \X (0 .. dp.num_sectors - 1) /\ dp.num_head \in Nat
          BY <2>1, JobFacts, PlaceFacts
        <5> QED BY <5>1
      <4> QED BY <4>1 DEF EarlierThan
    <3>3. Tally(<<dp.num_cyl, 0>>, rs) = Cardinality(of)
      BY <3>2 DEF Tally
    <3> HIDE DEF of
    <3>4. /\ rs = Spans \cup {0} => stats.num_good_sectors = Cardinality(of)
          /\ rs = Spans => stats.num_ecc_recovered = Cardinality(of)
          /\ rs = {Unreadable, Unread} => stats.num_bad_data + stats.num_bad_header = Cardinality(of)
      BY <3>1, <3>3 DEF SumsTell
    <3> QED BY <3>4 DEF of
  <2> QED BY <2>2, <2>3
<1>2. ReaderInv /\ [Next]_vars => ReaderInv'
  BY StepReader
<1>3. ReaderInv /\ ImageInv /\ [Next]_vars => ImageInv'
  BY StepImage
<1>4. ReaderInv /\ ImageInv /\ StatsInv /\ [Next]_vars => StatsInv'
  BY StepStats
<1> QED BY <1>1, <1>2, <1>3, <1>4, InitReader, InitImage, InitStats, PTL DEF Spec

----------------------------------------------------------------------------
(* The retries find a sound track                                         *)

\* What is asked of the disk and the reader for a track to be read in full
Steady == TrueHeaders /\ clean /\ Retries > 0 /\ ~dp.ignore_seek_errors /\ ~dp.recovery

\* The heads are over the cylinder, and the reader knows it.
Onto(cyl) == drive.arm = cyl /\ drive.current_cyl = cyl

\* No step is counted that takes the heads past the track, ...
CurrentInv == drive.current_cyl <= try.cyl + (IF pc = "back" THEN ClipSeekLen ELSE 0)

\* ... none at all where there is one cylinder only, ...
AloneInv == LastCyl = 0 => drive.current_cyl = 0 /\ pc # "back"

\* ... recovery mode is not entered by itself, ...
ActiveInv == ~dp.recovery => ~try.recovery_active

\* ... and after the first retry the heads are where they should be, since the first
\* header seen elsewhere told how far that was.
ArmInv ==
  /\ pc = "back" => ClipSeekLen # 0
  /\ pc = "back" /\ try.err_cnt > 0 => Onto(try.cyl + ClipSeekLen)
  /\ pc \in {"retry", "go", "read", "decode"} /\ try.err_cnt > 0 => Onto(try.cyl)
  /\ pc \in {"read", "decode", "correct"} => drive.current_cyl = try.cyl
  /\ pc = "correct" => /\ drive.arm # try.cyl /\ r.seek_difference = try.cyl - drive.arm
                       /\ try.err_cnt < Retries

\* An entry without an error
GoodEntry(e) == e.status \cap {"SECT_BAD_HEADER", "SECT_BAD_DATA"} = {}

\* Over the right cylinder each sector is read well; over another a header tells.
OverInv ==
  main = "decode" =>
    /\ drive.arm = try.cyl =>
         /\ ~wrong_cyl
         /\ Sound(try.cyl) => /\ r.state = "MARK_ID"
                              /\ \A i \in Sectors : i < processed => GoodEntry(r.list[i])
    /\ drive.arm # try.cyl =>
         /\ wrong_cyl => r.seek_difference = try.cyl - drive.arm
         /\ (\E i \in Sectors : i < processed /\ Natural(i).header) => wrong_cyl

\* What the end of a track promises
EndInv == pc = "end" /\ Sound(try.cyl) => ~SectErr

\* The inductive invariant, together with ReaderInv and WholeInv
SteadyInv == CurrentInv /\ AloneInv /\ ActiveInv /\ (Steady => ArmInv /\ OverInv /\ EndInv)

\* A header read over the track has no error; one read elsewhere says where that is.
LEMMA HeaderPlaced ==
  ASSUME JobInv, TrackInv, drive.arm \in DOMAIN disk, dp.sector_numbers = <<>>,
         ~dp.ignore_seek_errors, NEW d, DecoderType(d), NEW sector \in Sectors
  PROVE  LET h == ReadHeader(d, sector)
         IN IF Medium.header = try.cyl
            THEN h.sector_status.status = {"SECT_HEADER_FOUND"}
            ELSE /\ "SECT_WRONG_CYL" \in h.sector_status.status
                 /\ h.seek_difference = try.cyl - Medium.header
<1>1. /\ Medium.header \in Nat /\ try.cyl \in Nat /\ try.head \in Nat /\ sector \in Nat
      /\ try.head \in 0 .. dp.num_head - 1
      /\ SectRel0(dp, Blank(Medium.header, try.head, sector)) = sector
  <2>1. try.head \in 0 .. dp.num_head - 1 /\ try.cyl \in 0 .. dp.num_cyl - 1
    BY DEF TrackInv
  <2>2. Medium.header \in Nat
    BY <2>1, PlaceFacts DEF Medium
  <2>3. sector \in Nat /\ try.head \in Nat /\ try.cyl \in Nat /\ dp.first_sector_number = 0
    BY <2>1, JobFacts DEF Sectors
  <2>4. Blank(Medium.header, try.head, sector).sector = sector
    BY <2>2, <2>3 DEF Blank, NoSector
  <2> QED BY <2>1, <2>2, <2>3, <2>4 DEF SectRel0
<1> DEFINE b == Blank(Medium.header, try.head, sector)
           d1 == [d EXCEPT !.sector_status = b, !.state = "MARK_DATA"]
           s == d1.sector_status
           ordered == dp.sector_numbers # <<>>
           found == Expected(dp, s, d1.sector_index)
           unordered == ordered /\ found = dp.num_sectors
           outside == \/ ~ InRange(dp, s) /\ "SECT_BAD_SECTOR_NUMBER" \notin s.status
                      \/ s.head > dp.num_head
           once == MarkIf(SeekError(dp, s, try.cyl, try.head), s, {"ANALYZE_WRONG_FORMAT", "SECT_WRONG_CYL"})
           placed == MarkIf(Misplaced(dp, s, try.cyl, try.head), once, {"SECT_BAD_HEADER"})
           sensible == MarkIf(SenselessLba(dp, s, try.cyl) \/ dp.sector_size # dp.sector_size,
                              placed, {"ANALYZE_WRONG_FORMAT"})
           checked == MarkIf(outside \/ unordered, sensible, {"SECT_BAD_HEADER", "ANALYZE_WRONG_FORMAT"})
           difference == IF SeekError(dp, s, try.cyl, try.head) THEN try.cyl - s.cyl ELSE d1.seek_difference
           index == IF ~ ordered THEN d1.sector_index + 1 ELSE IF unordered THEN d1.sector_index ELSE found
           list == [i \in DOMAIN d1.list |->
                      IF i = SectRel0(dp, s) THEN Awaiting(d1.list[i], checked) ELSE d1.list[i]]
           h == ReadHeader(d, sector)
<1>2. s = b /\ Fields \subseteq DOMAIN d1
  BY DEF DecoderType, Fields
<1>3. /\ s \in SectorRecord /\ s.status = {"SECT_HEADER_FOUND"}
      /\ s.cyl = Medium.header /\ s.head = try.head /\ s.sector = sector
      /\ ~s.ignore /\ ~s.is_lba
  <2>1. /\ b \in SectorRecord /\ b.status = {"SECT_HEADER_FOUND"}
        /\ b.cyl = Medium.header /\ b.head = try.head /\ b.sector = sector
        /\ ~b.ignore /\ ~b.is_lba
    BY <1>1 DEF Blank, NoSector, SectorRecord, Statuses
  <2> HIDE DEF d1, b
  <2> QED BY <1>2, <2>1
<1>4. h = [d1 EXCEPT !.seek_difference = difference, !.sector_index = index,
                     !.sector_status = checked, !.list = list]
  <2>1. ReadHeader(d, sector)
          = mfm_check_header_values(dp, d1, dp.sector_size, try.cyl, try.head)
    BY DEF ReadHeader, Blank
  <2>2. ~dp.ignore_header_mismatch
    BY JobFacts
  <2> HIDE DEF d1
  <2> QED BY <1>3, <2>1, <2>2 DEF mfm_check_header_values
<1>5. ~outside /\ ~unordered /\ ~SenselessLba(dp, s, try.cyl)
  <2>1. SectRel0(dp, s) = sector
    BY <1>1, <1>2
  <2>2. InRange(dp, s)
    BY <2>1 DEF InRange, Sectors
  <2>3. ~(s.head > dp.num_head)
    BY <1>1, <1>3, JobFacts
  <2> QED BY <1>3, <2>2, <2>3 DEF SenselessLba
<1>6. /\ SeekError(dp, s, try.cyl, try.head) <=> Medium.header # try.cyl
      /\ Misplaced(dp, s, try.cyl, try.head) <=> Medium.header # try.cyl
  BY <1>1, <1>3 DEF SeekError, Misplaced, Distance
<1> HIDE DEF s, outside, unordered, index, list
<1>7. checked = placed
  BY <1>5 DEF MarkIf
<1>8. h.sector_status = checked /\ h.seek_difference = difference
  <2> HIDE DEF checked, difference, d1, h
  <2> QED BY <1>2, <1>4 DEF Fields
<1>9. CASE Medium.header = try.cyl
  BY <1>3, <1>6, <1>7, <1>8, <1>9 DEF MarkIf
<1>10. CASE Medium.header # try.cyl
  <2>1. difference = try.cyl - Medium.header
    BY <1>3, <1>6, <1>10
  <2>2. Flagged(s, s)
    BY <1>3, FlagNone
  <2>3. Flagged(s, once) /\ "SECT_WRONG_CYL" \in once.status
    BY <1>3, <1>6, <1>10, <2>2, FlagMore DEF Flags
  <2> HIDE DEF once
  <2>4. once.status \subseteq placed.status
    BY <1>3, <2>3, FlagMore DEF Flags
  <2> HIDE DEF placed, checked, difference
  <2> QED BY <1>7, <1>8, <1>10, <2>1, <2>3, <2>4
<1> QED BY <1>9, <1>10

\* The data of a sector that is read well leaves its entry without an error.
LEMMA DataPlaced ==
  ASSUME JobInv, ~dp.ignore_seek_errors, NEW d, DecoderType(d), Headed(d.sector_status),
         NEW rank \in ReadRanks
  PROVE  LET x == ReadData(d, rank)
             j == d.sector_status.sector
         IN /\ x.seek_difference = d.seek_difference
            /\ \A i \in Sectors : i # j => x.list[i] = d.list[i]
            /\ rank = 0 /\ d.sector_status.status = {"SECT_HEADER_FOUND"} => GoodEntry(x.list[j])
<1> DEFINE s == DataStatus(d, rank)
           h == d.sector_status
           q == [d EXCEPT !.sector_status = s, !.state = "MARK_ID"]
           x == ReadData(d, rank)
           e == d.list[s.sector]
<1>1. /\ s \in SectorRecord /\ s.sector = h.sector /\ h.sector \in Sectors
      /\ s.status = h.status \cup (IF rank = Unreadable THEN {"SECT_BAD_DATA"} ELSE {})
                             \cup (IF rank \in Spans THEN {"SECT_ECC_RECOVERED"} ELSE {})
  BY DataStatusFacts DEF Headed
<1>2. NotTaken(d, s, x) \/ Taken(d, s, rank, x)
  BY DataRead
<1>3. q.seek_difference = d.seek_difference /\ q.sector_status = s
  <2> HIDE DEF s
  <2> QED BY DEF DecoderType, Fields
<1>4. x.seek_difference = d.seek_difference
  <2>1. x = IF Writes(s) THEN mfm_write_sector(dp, q, Content(s, rank)) ELSE q
    BY DEF ReadData
  <2> HIDE DEF q, s
  <2>2. mfm_write_sector(dp, q, Content(s, rank)).seek_difference = q.seek_difference
    BY DEF mfm_write_sector
  <2> HIDE DEF x
  <2> QED BY <1>3, <2>1, <2>2
<1> HIDE DEF s, x, q
<1>5. e \in SectorRecord /\ d.list \in [Sectors -> SectorRecord]
  BY <1>1 DEF DecoderType
<1>6. \A i \in Sectors : i # h.sector => x.list[i] = d.list[i]
  BY <1>1, <1>2, <1>5 DEF NotTaken, Taken
<1>7. ASSUME rank = 0, h.status = {"SECT_HEADER_FOUND"} PROVE GoodEntry(x.list[h.sector])
  <2>1. s.status = {"SECT_HEADER_FOUND"}
    BY <1>1, <1>7, SpansAssumption DEF Unreadable
  <2>2. CASE x.list = [d.list EXCEPT ![s.sector] = [e EXCEPT !.last_status = s.status]] /\ ~Better(dp, e, s)
    <3>1. e.status \cap {"SECT_BAD_HEADER", "SECT_BAD_DATA"} = {}
      BY <2>1, <2>2 DEF Better, BadData
    <3>2. x.list[s.sector].status = e.status
      BY <1>1, <1>5, <2>2 DEF SectorRecord
    <3> QED BY <1>1, <3>1, <3>2 DEF GoodEntry
  <2>3. CASE x.list = [d.list EXCEPT ![s.sector] = [s EXCEPT !.last_status = s.status]]
    <3>1. x.list[s.sector].status = s.status
      BY <1>1, <1>5, <2>3 DEF SectorRecord
    <3> QED BY <1>1, <2>1, <3>1 DEF GoodEntry
  <2> QED BY <1>2, <2>1, <2>2, <2>3 DEF NotTaken, Taken
<1> QED BY <1>4, <1>6, <1>7 DEF x

\* What a step of the drive does without a slip
LEMMA CleanStep ==
  ASSUME JobInv, DriveInv, NEW steps \in Int, NEW update_cyl \in BOOLEAN,
         drive_step(steps, update_cyl)
  PROVE  LET current == drive.current_cyl + (IF update_cyl THEN steps ELSE 0)
         IN /\ clean' => clean
            /\ drive'.current_cyl \in {0, current}
            /\ clean' /\ ~try.recovery_active /\ steps # 0 /\ drive.arm + steps \in 0 .. LastCyl =>
                 /\ drive'.arm = drive.arm + steps
                 /\ drive'.arm # 0 \/ current = 0 \/ drive.current_cyl = 0 =>
                      drive'.current_cyl = current
            /\ clean' /\ ~try.recovery_active /\ steps > 0 /\ LastCyl > 0 => drive'.current_cyl = current
<1> DEFINE current == drive.current_cyl + (IF update_cyl THEN steps ELSE 0)
<1>1. LastCyl \in Int /\ LastCyl >= 0 /\ drive.arm \in 0 .. LastCyl /\ drive.current_cyl \in Int
  BY JobFacts DEF DriveInv
<1>2. PICK slip \in {-1, 0, 1} :
        LET recalibrated == Moved(steps, slip) = 0 /\ drive.current_cyl # 0 /\ current # 0
        IN /\ drive' = [arm |-> Moved(steps, slip), current_cyl |-> IF recalibrated THEN 0 ELSE current]
           /\ clean' = (clean /\ slip = 0)
  BY DEF drive_step
<1> HIDE DEF current
<1>3. /\ drive'.arm = Moved(steps, slip)
      /\ drive'.current_cyl = IF Moved(steps, slip) = 0 /\ drive.current_cyl # 0 /\ current # 0 THEN 0 ELSE current
  BY <1>2
<1>4. (clean' => clean /\ slip = 0) /\ drive'.current_cyl \in {0, current}
  BY <1>2, <1>3
<1>5. ASSUME clean', ~try.recovery_active, steps # 0
      PROVE  drive'.arm = Stopped(drive.arm + steps)
  <2>1. drive.arm + steps + 0 = drive.arm + steps
    BY <1>1
  <2> QED BY <1>3, <1>4, <1>5, <2>1 DEF Moved, Pulses
<1>6. ASSUME clean', ~try.recovery_active, steps # 0, drive.arm + steps \in 0 .. LastCyl
      PROVE  /\ drive'.arm = drive.arm + steps
             /\ drive'.arm # 0 \/ current = 0 \/ drive.current_cyl = 0 => drive'.current_cyl = current
  <2>1. drive'.arm = drive.arm + steps
    BY <1>1, <1>5, <1>6 DEF Stopped
  <2> QED BY <1>3, <2>1
<1>7. ASSUME clean', ~try.recovery_active, steps > 0, LastCyl > 0 PROVE drive'.current_cyl = current
  <2>1. drive'.arm # 0
    BY <1>1, <1>5, <1>7 DEF Stopped
  <2> QED BY <1>3, <2>1
<1> QED BY <1>4, <1>6, <1>7 DEF current

\* A seek away from the track stays on the disk.
LEMMA AwayOnDisk ==
  ASSUME JobInv, TrackInv, TryInv
  PROVE  /\ ClipSeekLen \in Int /\ try.cyl \in Nat /\ try.cyl <= LastCyl /\ LastCyl \in Nat
         /\ try.cyl + ClipSeekLen \in 0 .. LastCyl
<1>1. /\ dp.num_cyl \in Nat \ {0} /\ try.cyl \in 0 .. dp.num_cyl - 1
      /\ LastCyl \in Int /\ LastCyl >= dp.num_cyl - 1 /\ try.seek_len \in Int
  BY JobFacts DEF TrackInv, TryInv
<1>2. ClipSeekLen \in Int /\ try.cyl + ClipSeekLen \in 0 .. dp.num_cyl - 1
  BY <1>1 DEF ClipSeekLen
<1> QED BY <1>1, <1>2

\* The steps that say how far the heads are from where the reader believes them to be
LEMMA CurrentStep ==
  ASSUME ReaderInv, CurrentInv, ActiveInv, [Next]_vars
  PROVE  CurrentInv' /\ ActiveInv'
<1> USE DEF ReaderInv
<1>1. dp' = dp /\ disk' = disk
  BY JobStays
<1>2. /\ try.cyl \in Nat /\ ClipSeekLen \in Int /\ try.cyl + ClipSeekLen \in 0 .. LastCyl
      /\ drive.current_cyl \in Int
  BY AwayOnDisk DEF DriveInv
<1>3. TryFields \subseteq DOMAIN try
  BY DEF TryInv, TryFields
<1>4. ASSUME try'.cyl = try.cyl, try'.seek_len = try.seek_len PROVE ClipSeekLen' = ClipSeekLen
  BY <1>1, <1>4 DEF ClipSeekLen
<1>5. CASE NoSeek
  <2>1. /\ try'.cyl = try.cyl /\ try'.recovery_active = try.recovery_active
        /\ drive' = drive /\ pc = "retry" /\ pc' = "go"
    BY <1>3, <1>5 DEF NoSeek, TryFields
  <2> QED BY <1>1, <2>1 DEF CurrentInv, ActiveInv
<1>6. CASE EnableRecovery
  <2>1. try'.cyl = try.cyl /\ drive' = drive /\ pc = "retry" /\ pc' = "retry" /\ dp.recovery
    BY <1>3, <1>6 DEF EnableRecovery, TryFields
  <2> QED BY <1>1, <2>1 DEF CurrentInv, ActiveInv
<1>7. CASE MicroStep
  <2>1. /\ try'.cyl = try.cyl /\ drive_step(1, FALSE) /\ pc = "retry" /\ pc' = "go" /\ dp.recovery
    BY <1>7, RestedFacts DEF MicroStep, DRIVE_STEP_NO_UPDATE_CYL
  <2>2. 1 \in Int
    OBVIOUS
  <2>3. drive'.current_cyl \in {0, drive.current_cyl + 0}
    BY <2>1, <2>2, CleanStep
  <2> QED BY <1>1, <1>2, <2>1, <2>3 DEF CurrentInv, ActiveInv
<1>8. CASE SeekAway
  <2>1. try' = try /\ drive_step(ClipSeekLen, TRUE) /\ pc = "retry" /\ pc' = "back"
    BY <1>8 DEF SeekAway, DRIVE_STEP_UPDATE_CYL
  <2>2. drive'.current_cyl \in {0, drive.current_cyl + ClipSeekLen}
    BY <1>2, <2>1, CleanStep
  <2>3. ClipSeekLen' = ClipSeekLen
    BY <1>4, <2>1
  <2>4. drive.current_cyl <= try.cyl
    BY <1>2, <2>1 DEF CurrentInv
  <2>5. drive'.current_cyl <= try.cyl + ClipSeekLen
    BY <1>2, <2>2, <2>4
  <2>6. CurrentInv'
    BY <2>1, <2>3, <2>5 DEF CurrentInv
  <2> QED BY <1>1, <2>1, <2>6 DEF ActiveInv
<1>9. CASE SeekBack
  <2>1. try'.cyl = try.cyl /\ drive_step(- ClipSeekLen, TRUE) /\ pc = "back" /\ pc' = "go"
    BY <1>9, RestedFacts DEF SeekBack, DRIVE_STEP_UPDATE_CYL
  <2>2. drive'.current_cyl \in {0, drive.current_cyl - ClipSeekLen}
    <3>1. - ClipSeekLen \in Int
      BY <1>2
    <3>2. drive'.current_cyl \in {0, drive.current_cyl + (- ClipSeekLen)}
      BY <2>1, <3>1, CleanStep
    <3> QED BY <1>2, <3>2
  <2>3. try'.recovery_active = try.recovery_active
    BY <1>3, <1>9 DEF SeekBack, Rested, TryFields
  <2> QED BY <1>1, <1>2, <2>1, <2>2, <2>3 DEF CurrentInv, ActiveInv
<1>10. CASE NowhereToSeek
  <2>1. try'.cyl = try.cyl /\ drive' = drive /\ pc = "retry" /\ pc' = "go"
    BY <1>10, RestedFacts DEF NowhereToSeek
  <2>2. try'.recovery_active = try.recovery_active
    BY <1>3, <1>10 DEF NowhereToSeek, Rested, TryFields
  <2> QED BY <1>1, <2>1, <2>2 DEF CurrentInv, ActiveInv
<1>11. CASE GoToTrack
  <2>1. /\ try' = try /\ pc = "go" /\ pc' = "read"
        /\ \/ try.cyl # drive.current_cyl /\ drive_step(try.cyl - drive.current_cyl, TRUE)
           \/ drive' = drive
    BY <1>11 DEF GoToTrack, DRIVE_STEP_UPDATE_CYL
  <2>2. CASE drive_step(try.cyl - drive.current_cyl, TRUE)
    <3>1. try.cyl - drive.current_cyl \in Int
      BY <1>2
    <3>2. drive'.current_cyl \in {0, drive.current_cyl + (try.cyl - drive.current_cyl)}
      BY <2>2, <3>1, CleanStep
    <3> QED BY <1>1, <1>2, <2>1, <3>2 DEF CurrentInv, ActiveInv
  <2>3. CASE drive' = drive
    BY <1>1, <2>1, <2>3 DEF CurrentInv, ActiveInv
  <2> QED BY <2>1, <2>2, <2>3
<1>12. CASE CorrectSeek
  <2>1. /\ try' = Counting /\ drive_step(r.seek_difference, FALSE)
        /\ pc = "correct" /\ pc' \in {"retry", "end"}
    BY <1>12 DEF CorrectSeek, DRIVE_STEP_NO_UPDATE_CYL
  <2>2. try'.cyl = try.cyl /\ try'.recovery_active = try.recovery_active
    BY <1>3, <2>1 DEF Counting, TryFields
  <2>3. r.seek_difference \in Int
    BY DEF DecoderInv, DecoderType
  <2>4. drive'.current_cyl \in {0, drive.current_cyl + 0}
    BY <2>1, <2>3, CleanStep
  <2> QED BY <1>1, <1>2, <2>1, <2>2, <2>4 DEF CurrentInv, ActiveInv
<1>13. CASE EndDecode
  <2>1. /\ try' \in {try, Counting} /\ drive' = drive
        /\ pc' \in {"correct", "retry", "end"} /\ pc = "decode"
    BY <1>13 DEF EndDecode, Decoded, PhaseInv
  <2>2. try'.cyl = try.cyl /\ try'.recovery_active = try.recovery_active
    BY <1>3, <2>1 DEF Counting, TryFields
  <2> QED BY <1>1, <2>1, <2>2 DEF CurrentInv, ActiveInv
<1>14. CASE NextTrack
  <2>1. /\ try'.cyl \in {try.cyl, try.cyl + 1} /\ try'.recovery_active = FALSE /\ drive' = drive
        /\ pc = "end" /\ pc' = "retry"
    BY <1>14 DEF NextTrack, StartTrack
  <2> QED BY <1>1, <1>2, <2>1 DEF CurrentInv, ActiveInv
<1>15. CASE ReadTrack \/ mfm_decode_done
  <2>1. try' = try /\ drive' = drive /\ pc # "back" /\ pc' # "back"
    BY <1>15 DEF ReadTrack, mfm_decode_done
  <2> QED BY <1>1, <2>1 DEF CurrentInv, ActiveInv
<1>16. CASE StartDecode \/ DecodeSector \/ NoIndex
  <2>1. try' = try /\ drive' = drive /\ pc' = pc
    BY <1>16 DEF StartDecode, DecodeSector, NoIndex
  <2> QED BY <1>1, <1>4, <2>1 DEF CurrentInv, ActiveInv
<1>17. CASE Failed \/ StopThread \/ Join \/ SigInt \/ DeltaThread \/ PruRead \/ UNCHANGED vars
  <2>1. try' = try /\ drive' = drive /\ pc' = pc
    BY <1>17 DEF Failed, StopThread, Join, SigInt, DeltaThread, PruRead, vars, driveVars
  <2> QED BY <1>1, <1>4, <2>1 DEF CurrentInv, ActiveInv
<1> QED
  BY <1>5, <1>6, <1>7, <1>8, <1>9, <1>10, <1>11, <1>12, <1>13, <1>14, <1>15, <1>16, <1>17 DEF Next, Reader

\* Over which the heads are
LEMMA OverFacts ==
  ASSUME ReaderInv, TrueHeaders
  PROVE  /\ drive.arm \in DOMAIN disk /\ drive.arm \in Nat /\ Medium.header = drive.arm
         /\ \E i \in Sectors : Natural(i).header
         /\ try.cyl \in Nat /\ try.cyl \in DOMAIN disk /\ drive.current_cyl \in Int
<1>1. drive.arm \in 0 .. LastCyl /\ drive.current_cyl \in Int
  BY DEF ReaderInv, DriveInv
<1>2. drive.arm \in DOMAIN disk /\ try.cyl \in 0 .. LastCyl
  BY <1>1, JobFacts, AwayOnDisk DEF ReaderInv
<1>3. Medium.header = drive.arm /\ Legible(drive.arm)
  BY <1>2 DEF TrueHeaders, Medium
<1>4. PICK i \in Sectors : i \in DOMAIN Medium.bad => Medium.bad[i].header
  BY <1>3 DEF Legible, Medium
<1>5. Natural(i).header
  BY <1>4 DEF Natural, Fine
<1>6. try.cyl \in DOMAIN disk
  BY <1>2, JobFacts DEF ReaderInv
<1> QED BY <1>1, <1>2, <1>3, <1>5, <1>6

\* What is asked for stays, for as long as the track.
LEMMA SteadyStays ==
  ASSUME ReaderInv, dp' = dp, disk' = disk, try'.cyl = try.cyl, try'.head = try.head, Steady', clean' => clean
  PROVE  Steady
BY DEF Steady, TrueHeaders, Legible, Retries, Sectors

\* A sector of a track without a fault of its own
LEMMA CleanSector ==
  ASSUME ReaderInv, OverInv, Steady, clean', DecodeSector
  PROVE  /\ drive.arm = try.cyl =>
              /\ ~wrong_cyl'
              /\ Sound(try.cyl) => /\ r'.state = "MARK_ID"
                                   /\ \A i \in Sectors : i < processed' => GoodEntry(r'.list[i])
         /\ drive.arm # try.cyl =>
              /\ wrong_cyl' => r'.seek_difference = try.cyl - drive.arm
              /\ (\E i \in Sectors : i < processed' /\ Natural(i).header) => wrong_cyl'
<1> USE DEF ReaderInv
<1>0. main = "decode" /\ processed' = processed + 1
  BY DEF DecodeSector, Process
<1>1. /\ ReadSector(processed, Natural(processed)) \/ MissHeader(Natural(processed))
      /\ Natural(processed) \in MayRead(processed)
  <2>1. PICK seen \in MayRead(processed) :
          /\ ReadSector(processed, seen) \/ MissHeader(seen)
          /\ clean' = (clean /\ seen = Natural(processed))
    BY DEF DecodeSector
  <2> QED BY <2>1
<1> DEFINE seen == Natural(processed)
           h == ReadHeader(r, processed)
<1>2. processed \in Sectors
  <2>1. processed \in Nat /\ processed < num_deltas /\ num_deltas \in Nat /\ num_deltas <= MaxDeltas
    BY DEF DecodeSector, Process, CountsInv, IInv, DeltaTypeOK
  <2> QED BY <2>1, JobFacts DEF Sectors
<1>3. /\ drive.arm \in DOMAIN disk /\ drive.arm \in Nat /\ try.cyl \in Nat /\ try.cyl \in DOMAIN disk
      /\ Medium.header = drive.arm
  BY OverFacts DEF Steady
<1>4. seen.header \in BOOLEAN /\ seen.mark \in BOOLEAN /\ seen.rank \in ReadRanks
  BY <1>1, <1>3, SeenFacts
<1>5. DecoderType(r) /\ (r.state = "MARK_DATA" => Headed(r.sector_status))
  BY <1>0 DEF DecoderInv
<1>6. /\ DecoderType(h) /\ Headed(h.sector_status) /\ h.sector_status.sector = processed
      /\ h.list = [r.list EXCEPT ![processed] = Awaiting(r.list[processed], h.sector_status)]
  BY <1>2, <1>3, <1>5, HeaderRead, HeaderNumber
<1>7. IF drive.arm = try.cyl THEN h.sector_status.status = {"SECT_HEADER_FOUND"}
      ELSE "SECT_WRONG_CYL" \in h.sector_status.status /\ h.seek_difference = try.cyl - drive.arm
  BY <1>2, <1>3, <1>5, HeaderPlaced DEF Steady, TrueHeaders
<1>8. ~dp.ignore_seek_errors
  BY DEF Steady
<1> HIDE DEF h
<1>9. ASSUME ReadSector(processed, seen)
      PROVE  /\ seen.header
             /\ r' = IF seen.mark THEN ReadData(h, seen.rank) ELSE h
             /\ wrong_cyl' <=> wrong_cyl \/ "SECT_WRONG_CYL" \in h.sector_status.status
  BY <1>9 DEF ReadSector, h
<1>10. ASSUME MissHeader(seen)
       PROVE  /\ ~seen.header /\ (wrong_cyl' <=> wrong_cyl)
              /\ r' = IF r.state = "MARK_DATA" THEN ReadData(r, Unreadable) ELSE r
  BY <1>10 DEF MissHeader
<1>11. CASE drive.arm = try.cyl
  <2>1. ~wrong_cyl'
    <3>1. ~wrong_cyl
      BY <1>0, <1>11 DEF OverInv
    <3> QED BY <1>1, <1>7, <1>9, <1>10, <1>11, <3>1
  <2>2. ASSUME Sound(try.cyl)
        PROVE  r'.state = "MARK_ID" /\ \A i \in Sectors : i < processed' => GoodEntry(r'.list[i])
    <3>1. seen = Fine
      BY <1>11, <2>2 DEF Sound, Medium, Natural
    <3>2. seen.header /\ seen.mark /\ seen.rank = 0
      BY <3>1 DEF Fine
    <3>3. r' = ReadData(h, 0)
      BY <1>1, <1>9, <1>10, <3>2
    <3>4. 0 \in ReadRanks
      BY DEF ReadRanks
    <3>5. /\ r'.state = "MARK_ID"
          /\ \A i \in Sectors : i # processed => r'.list[i] = h.list[i]
          /\ GoodEntry(r'.list[processed])
      <4>1. h.sector_status.status = {"SECT_HEADER_FOUND"}
        BY <1>7, <1>11
      <4>2. DecoderType(ReadData(h, 0)) /\ ReadData(h, 0).state = "MARK_ID"
        BY <1>6, <3>4, DataRead
      <4>3. /\ \A i \in Sectors : i # h.sector_status.sector => ReadData(h, 0).list[i] = h.list[i]
            /\ GoodEntry(ReadData(h, 0).list[h.sector_status.sector])
        <5>1. DecoderType(h) /\ Headed(h.sector_status)
          BY <1>6
        <5> QED BY <1>8, <3>4, <4>1, <5>1, DataPlaced
      <4> QED BY <1>6, <3>3, <4>2, <4>3
    <3>6. \A i \in Sectors : i # processed => h.list[i] = r.list[i]
      BY <1>2, <1>5, <1>6 DEF DecoderType
    <3>7. \A i \in Sectors : i < processed => GoodEntry(r.list[i])
      BY <1>0, <1>11, <2>2 DEF OverInv
    <3>8. \A i \in Sectors : i < processed' => i < processed \/ i = processed
      BY <1>0, <1>2 DEF Sectors
    <3>9. ASSUME NEW i \in Sectors, i < processed' PROVE GoodEntry(r'.list[i])
      <4>1. CASE i = processed
        BY <3>5, <4>1
      <4>2. CASE i # processed
        BY <3>5, <3>6, <3>7, <3>8, <3>9, <4>2
      <4> QED BY <4>1, <4>2
    <3> QED BY <3>5, <3>9
  <2> QED BY <1>11, <2>1, <2>2
<1>12. CASE drive.arm # try.cyl
  <2>1. CASE ReadSector(processed, seen)
    <3>1. wrong_cyl' /\ h.seek_difference = try.cyl - drive.arm
      BY <1>7, <1>9, <1>12, <2>1
    <3>2. r'.seek_difference = h.seek_difference
      BY <1>4, <1>6, <1>8, <1>9, <2>1, DataPlaced
    <3> QED BY <1>12, <3>1, <3>2
  <2>2. CASE MissHeader(seen)
    <3>1. r'.seek_difference = r.seek_difference
      <4>1. Unreadable \in ReadRanks
        BY DEF ReadRanks
      <4>2. CASE r.state = "MARK_DATA"
        BY <1>5, <1>8, <1>10, <2>2, <4>1, <4>2, DataPlaced
      <4>3. CASE r.state # "MARK_DATA"
        BY <1>10, <2>2, <4>3
      <4> QED BY <4>2, <4>3
    <3>2. wrong_cyl => r.seek_difference = try.cyl - drive.arm
      BY <1>0, <1>12 DEF OverInv
    <3>3. ASSUME NEW i \in Sectors, i < processed', Natural(i).header PROVE wrong_cyl
      <4>1. i # processed
        BY <1>10, <2>2, <3>3
      <4>2. i < processed
        BY <1>0, <1>2, <3>3, <4>1 DEF Sectors
      <4> QED BY <1>0, <1>12, <3>3, <4>2 DEF OverInv
    <3> QED BY <1>10, <1>12, <2>2, <3>1, <3>2, <3>3
  <2> QED BY <1>1, <2>1, <2>2
<1> QED BY <1>11, <1>12

\* On a disk of one cylinder the reader knows where it is.
LEMMA AloneStep ==
  ASSUME ReaderInv, AloneInv, [Next]_vars
  PROVE  AloneInv'
<1> USE DEF ReaderInv
<1>1. dp' = dp /\ disk' = disk
  BY JobStays
<1>2. LastCyl' = LastCyl
  BY <1>1 DEF LastCyl
<1>3. SUFFICES ASSUME LastCyl = 0 PROVE drive'.current_cyl = 0 /\ pc' # "back"
  BY <1>2 DEF AloneInv
<1>4. /\ drive.current_cyl = 0 /\ pc # "back" /\ try.cyl = 0 /\ ClipSeekLen = 0
      /\ r.seek_difference \in Int
  BY <1>3, AwayOnDisk DEF AloneInv, DecoderInv, DecoderType
<1>5. CASE MicroStep \/ CorrectSeek
  <2>1. drive_step(1, FALSE) \/ drive_step(r.seek_difference, FALSE)
    BY <1>5 DEF MicroStep, CorrectSeek, DRIVE_STEP_NO_UPDATE_CYL
  <2>2. 1 \in Int
    OBVIOUS
  <2>3. drive'.current_cyl \in {0, drive.current_cyl + 0}
    BY <1>4, <2>1, <2>2, CleanStep
  <2>4. pc' # "back"
    BY <1>5 DEF MicroStep, CorrectSeek
  <2> QED BY <1>4, <2>3, <2>4
<1>6. CASE SeekAway \/ SeekBack
  BY <1>4, <1>6 DEF SeekAway, SeekBack
<1>7. CASE GoToTrack
  BY <1>4, <1>7 DEF GoToTrack
<1>8. CASE \/ NoSeek \/ EnableRecovery \/ NowhereToSeek \/ ReadTrack \/ StartDecode \/ EndDecode
           \/ NextTrack \/ mfm_decode_done \/ DecodeSector \/ NoIndex
  <2>1. drive' = drive /\ (pc' = "back" => pc = "back")
    BY <1>8 DEF NoSeek, EnableRecovery, NowhereToSeek, ReadTrack, StartDecode, EndDecode, NextTrack,
                mfm_decode_done, DecodeSector, NoIndex
  <2> QED BY <1>4, <2>1
<1>9. CASE Failed \/ StopThread \/ Join \/ SigInt \/ DeltaThread \/ PruRead \/ UNCHANGED vars
  <2>1. drive' = drive /\ pc' = pc
    BY <1>9 DEF Failed, StopThread, Join, SigInt, DeltaThread, PruRead, vars, driveVars
  <2> QED BY <1>4, <2>1
<1> QED BY <1>5, <1>6, <1>7, <1>8, <1>9 DEF Next, Reader

\* What is promised of the heads, the read and the track
SteadyParts == ArmInv /\ OverInv /\ EndInv

\* Steps that leave the reader where it is
LEMMA QuietParts ==
  ASSUME ReaderInv, Steady => SteadyParts, Steady',
         UNCHANGED <<dp, disk, pc, try, drive, r, wrong_cyl>>, clean' => clean,
         main' = "decode" => main = "decode" /\ processed' = processed
  PROVE  SteadyParts'
<1>1. Steady
  BY SteadyStays
<1>2. ClipSeekLen' = ClipSeekLen /\ Retries' = Retries /\ Sectors' = Sectors
  BY DEF ClipSeekLen, Retries, Sectors
<1>3. ArmInv'
  BY <1>1, <1>2 DEF SteadyParts, ArmInv, Onto
<1>4. \A i : Natural(i)' = Natural(i)
  BY DEF Natural, Medium
<1>5. Sound(try.cyl)' <=> Sound(try.cyl)
  BY DEF Sound
<1>6. OverInv'
  BY <1>1, <1>2, <1>4, <1>5 DEF SteadyParts, OverInv
<1>7. EndInv'
  BY <1>1, <1>5 DEF SteadyParts, EndInv, SectErr
<1> QED BY <1>3, <1>6, <1>7 DEF SteadyParts

\* Steps that move the heads or not, on the way to a read
LEMMA SeekParts ==
  ASSUME ReaderInv, SteadyInv, Steady', [Next]_vars,
         \/ NoSeek \/ EnableRecovery \/ MicroStep \/ SeekAway \/ SeekBack \/ NowhereToSeek \/ GoToTrack
         \/ ReadTrack
  PROVE  SteadyParts'
<1> USE DEF ReaderInv
<1>1. dp' = dp /\ disk' = disk
  BY JobStays
<1>2. /\ try.cyl \in Nat /\ ClipSeekLen \in Int /\ try.cyl + ClipSeekLen \in 0 .. LastCyl
      /\ drive.current_cyl \in Int /\ try.cyl \in 0 .. LastCyl /\ LastCyl \in Nat
      /\ try.err_cnt \in Nat
  BY AwayOnDisk DEF DriveInv, TryInv
<1>3. TryFields \subseteq DOMAIN try
  BY DEF TryInv, TryFields
<1>4. /\ try'.cyl = try.cyl /\ try'.head = try.head /\ try'.err_cnt = try.err_cnt
      /\ clean' => clean
      /\ main' # "decode" /\ pc' \in {"retry", "back", "go", "read", "decode"}
  <2>1. CASE NoSeek \/ EnableRecovery
    BY <1>3, <2>1 DEF NoSeek, EnableRecovery, TryFields, Idle, deltaVars
  <2>2. CASE MicroStep
    <3>1. clean' => clean
      <4>1. drive_step(1, FALSE)
        BY <2>2 DEF MicroStep, DRIVE_STEP_NO_UPDATE_CYL
      <4>2. 1 \in Int
        OBVIOUS
      <4> QED BY <4>1, <4>2, CleanStep
    <3> QED BY <2>2, <3>1, RestedFacts DEF MicroStep, Idle, deltaVars
  <2>3. CASE SeekAway \/ SeekBack
    <3>1. clean' => clean
      <4>1. drive_step(ClipSeekLen, TRUE) \/ drive_step(- ClipSeekLen, TRUE)
        BY <2>3 DEF SeekAway, SeekBack, DRIVE_STEP_UPDATE_CYL
      <4>2. - ClipSeekLen \in Int
        BY <1>2
      <4> QED BY <1>2, <4>1, <4>2, CleanStep
    <3> QED BY <2>3, <3>1, RestedFacts DEF SeekAway, SeekBack, Idle, deltaVars
  <2>4. CASE NowhereToSeek
    BY <2>4, RestedFacts DEF NowhereToSeek, Idle, deltaVars
  <2>5. CASE GoToTrack
    <3>1. clean' => clean
      <4>1. drive_step(try.cyl - drive.current_cyl, TRUE) \/ clean' = clean
        BY <2>5 DEF GoToTrack, DRIVE_STEP_UPDATE_CYL
      <4>2. try.cyl - drive.current_cyl \in Int
        BY <1>2
      <4> QED BY <4>1, <4>2, CleanStep
    <3> QED BY <2>5, <3>1 DEF GoToTrack, Idle, deltaVars
  <2>6. CASE ReadTrack
    BY <2>6 DEF ReadTrack, ExecRead
  <2> QED BY <2>1, <2>2, <2>3, <2>4, <2>5, <2>6
<1>5. Steady
  BY <1>1, <1>4, SteadyStays
<1>6. ArmInv /\ CurrentInv /\ AloneInv /\ ~dp.recovery /\ ~try.recovery_active /\ clean'
  BY <1>5 DEF SteadyInv, Steady, ActiveInv
<1>7. OverInv' /\ EndInv'
  BY <1>4 DEF OverInv, EndInv
<1>8. ASSUME drive' = drive, pc \in {"retry", "go"}, pc' \in {"retry", "go"} PROVE ArmInv'
  BY <1>4, <1>6, <1>8 DEF ArmInv, Onto
<1>9. CASE NoSeek \/ EnableRecovery \/ NowhereToSeek
  <2>1. drive' = drive /\ pc \in {"retry", "go"} /\ pc' \in {"retry", "go"}
    BY <1>9 DEF NoSeek, EnableRecovery, NowhereToSeek
  <2> QED BY <1>7, <1>8, <2>1 DEF SteadyParts
<1>10. CASE MicroStep
  BY <1>6, <1>10 DEF MicroStep
<1>11. CASE SeekAway
  <2>1. /\ drive_step(ClipSeekLen, TRUE) /\ pc = "retry" /\ pc' = "back" /\ ClipSeekLen # 0
        /\ try' = try
    BY <1>11 DEF SeekAway, DRIVE_STEP_UPDATE_CYL
  <2>2. ClipSeekLen' = ClipSeekLen
    BY <1>1, <2>1 DEF ClipSeekLen
  <2>3. ASSUME try.err_cnt > 0 PROVE Onto(try.cyl + ClipSeekLen)'
    <3>1. drive.arm = try.cyl /\ drive.current_cyl = try.cyl
      BY <1>6, <2>1, <2>3 DEF ArmInv, Onto
    <3>2. /\ drive'.arm = drive.arm + ClipSeekLen
          /\ drive'.arm # 0 \/ drive.current_cyl + ClipSeekLen = 0 => drive'.current_cyl = drive.current_cyl + ClipSeekLen
      BY <1>2, <1>6, <2>1, <3>1, CleanStep
    <3>3. drive'.arm = try.cyl + ClipSeekLen /\ drive'.current_cyl = try.cyl + ClipSeekLen
      BY <1>2, <3>1, <3>2
    <3> QED BY <2>1, <2>2, <3>3 DEF Onto
  <2>4. ArmInv'
    BY <1>4, <2>1, <2>2, <2>3 DEF ArmInv
  <2> QED BY <1>7, <2>4 DEF SteadyParts
<1>12. CASE SeekBack
  <2>1. drive_step(- ClipSeekLen, TRUE) /\ pc = "back" /\ pc' = "go"
    BY <1>12 DEF SeekBack, DRIVE_STEP_UPDATE_CYL
  <2>2. ClipSeekLen # 0 /\ - ClipSeekLen # 0 /\ - ClipSeekLen \in Int
    BY <1>2, <1>6, <2>1 DEF ArmInv
  <2>3. ASSUME try.err_cnt > 0 PROVE Onto(try.cyl)'
    <3>1. drive.arm = try.cyl + ClipSeekLen /\ drive.current_cyl = try.cyl + ClipSeekLen
      BY <1>6, <2>1, <2>3 DEF ArmInv, Onto
    <3>2. drive.arm + (- ClipSeekLen) = try.cyl /\ drive.current_cyl + (- ClipSeekLen) = try.cyl
      BY <1>2, <3>1
    <3>3. /\ drive'.arm = try.cyl
          /\ drive'.arm # 0 \/ try.cyl = 0 => drive'.current_cyl = try.cyl
      BY <1>2, <1>6, <2>1, <2>2, <3>2, CleanStep
    <3> QED BY <1>4, <3>3 DEF Onto
  <2>4. ArmInv'
    BY <1>4, <2>1, <2>3 DEF ArmInv
  <2> QED BY <1>7, <2>4 DEF SteadyParts
<1>13. CASE GoToTrack
  <2>1. /\ pc = "go" /\ pc' = "read"
        /\ IF try.cyl # drive.current_cyl THEN drive_step(try.cyl - drive.current_cyl, TRUE) ELSE drive' = drive
    BY <1>13 DEF GoToTrack, DRIVE_STEP_UPDATE_CYL
  <2>2. ASSUME try.cyl = drive.current_cyl PROVE ArmInv'
    BY <1>4, <1>6, <2>1, <2>2 DEF ArmInv, Onto
  <2>3. ASSUME try.cyl # drive.current_cyl PROVE ArmInv'
    <3>1. /\ try.cyl - drive.current_cyl \in Int /\ try.cyl - drive.current_cyl > 0
          /\ LastCyl > 0
      BY <1>2, <1>6, <2>1, <2>3 DEF CurrentInv, AloneInv
    <3>2. drive'.current_cyl = drive.current_cyl + (try.cyl - drive.current_cyl)
      BY <1>6, <2>1, <2>3, <3>1, CleanStep
    <3>3. drive'.current_cyl = try.cyl
      BY <1>2, <3>2
    <3>4. ~(try.err_cnt > 0)
      BY <1>6, <2>1, <2>3 DEF ArmInv, Onto
    <3> QED BY <1>4, <2>1, <3>3, <3>4 DEF ArmInv
  <2>4. ArmInv'
    BY <2>2, <2>3
  <2> QED BY <1>7, <2>4 DEF SteadyParts
<1>14. CASE ReadTrack
  <2>1. pc = "read" /\ pc' = "decode" /\ drive' = drive
    BY <1>14 DEF ReadTrack
  <2>2. ArmInv'
    BY <1>4, <1>6, <2>1 DEF ArmInv, Onto
  <2> QED BY <1>7, <2>2 DEF SteadyParts
<1> QED BY <1>9, <1>10, <1>11, <1>12, <1>13, <1>14

\* What the end of a read or of a correction leaves: another try with the heads in
\* place, or a track without an error.
LEMMA TriedParts ==
  ASSUME ReaderInv, dp' = dp, try' = Counting, pc' = IF Again THEN "retry" ELSE "end", r' = r,
         main' # "decode", try.err_cnt < Retries \/ (Sound(try.cyl) => ~SectErr),
         SectErr => Onto(try.cyl)', disk' = disk
  PROVE  SteadyParts'
<1>1. /\ try'.cyl = try.cyl
      /\ try'.err_cnt = IF SectErr THEN try.err_cnt + 1 ELSE try.err_cnt
  <2>1. TryFields \subseteq DOMAIN try
    BY DEF ReaderInv, TryInv, TryFields
  <2> QED BY <2>1 DEF Counting, TryFields
<1>2. pc' \in {"retry", "end"} /\ (pc' = "retry" => SectErr) /\ (pc' = "end" => ~Again)
  BY DEF Again
<1>3. Onto(try.cyl)' <=> drive'.arm = try.cyl /\ drive'.current_cyl = try.cyl
  BY <1>1 DEF Onto
<1>4. ArmInv'
  BY <1>1, <1>2 DEF ArmInv
<1>5. Sound(try.cyl)' <=> Sound(try.cyl)
  BY <1>1 DEF Sound
<1>6. EndInv'
  BY <1>2, <1>5 DEF EndInv, SectErr, Again
<1>7. OverInv'
  BY DEF OverInv
<1> QED BY <1>4, <1>6, <1>7 DEF SteadyParts

\* A read that is through: over the track, or the reader knows how far away.
LEMMA EndDecodeParts ==
  ASSUME ReaderInv, WholeInv, SteadyInv, Steady', EndDecode, dp' = dp, disk' = disk
  PROVE  SteadyParts'
<1> USE DEF ReaderInv
<1>1. /\ try'.cyl = try.cyl /\ try'.head = try.head /\ clean' = clean
      /\ try' = try \/ try' = Counting
  <2>1. clean' = clean /\ (try' = try \/ try' = Counting)
    BY DEF EndDecode
  <2>2. TryFields \subseteq DOMAIN try
    BY DEF TryInv, TryFields
  <2>3. Counting.cyl = try.cyl /\ Counting.head = try.head
    BY <2>2 DEF Counting, TryFields
  <2> QED BY <2>1, <2>3
<1>2. Steady
  BY <1>1, SteadyStays
<1>3. ArmInv /\ OverInv /\ ~dp.ignore_seek_errors /\ TrueHeaders
  BY <1>2 DEF SteadyInv, Steady
<1>4. /\ main = "decode" /\ main' = "idle" /\ pc = "decode" /\ drive' = drive /\ r' = r
      /\ processed = MaxDeltas
  BY AllDecoded DEF EndDecode, Decoded, PhaseInv
<1>5. \A i \in Sectors : i < processed
  BY <1>4, JobFacts DEF Sectors
<1>6. drive.current_cyl = try.cyl /\ (try.err_cnt > 0 => drive.arm = try.cyl) /\ try.err_cnt \in Nat
  BY <1>3, <1>4 DEF ArmInv, Onto, TryInv
<1>7. Retries > 0 /\ Retries \in Nat
  BY <1>2, RetriesNat DEF Steady
<1>8. CASE drive.arm = try.cyl
  <2>1. ~wrong_cyl /\ (Sound(try.cyl) => \A i \in Sectors : GoodEntry(r.list[i]))
    BY <1>3, <1>4, <1>5, <1>8 DEF OverInv
  <2>2. DOMAIN r.list = Sectors
    BY DEF DecoderInv, DecoderType
  <2>3. Sound(try.cyl) => ~SectErr
    BY <2>1, <2>2 DEF SectErr, UNRECOVERED_ERROR, GoodEntry
  <2>4. try' = Counting /\ pc' = IF Again THEN "retry" ELSE "end"
    BY <2>1 DEF EndDecode
  <2>5. Onto(try.cyl)'
    BY <1>1, <1>4, <1>6, <1>8 DEF Onto
  <2>6. main' # "decode"
    BY <1>4
  <2> QED BY <1>4, <2>3, <2>4, <2>5, <2>6, TriedParts
<1>9. CASE drive.arm # try.cyl
  <2>1. \E i \in Sectors : Natural(i).header
    BY <1>3, OverFacts
  <2>2. wrong_cyl /\ r.seek_difference = try.cyl - drive.arm
    BY <1>3, <1>4, <1>5, <1>9, <2>1 DEF OverInv
  <2>3. try.err_cnt < Retries
    BY <1>6, <1>7, <1>9
  <2>4. pc' = "correct" /\ try' = try
    BY <2>2, <2>3 DEF EndDecode
  <2>5. Retries' = Retries
    BY <2>4 DEF Retries
  <2>6. ArmInv'
    BY <1>4, <1>6, <1>9, <2>2, <2>3, <2>4, <2>5 DEF ArmInv
  <2>7. OverInv' /\ EndInv'
    BY <1>4, <2>4 DEF OverInv, EndInv
  <2> QED BY <2>6, <2>7 DEF SteadyParts
<1> QED BY <1>8, <1>9

\* The correction takes the heads to the track.
LEMMA CorrectParts ==
  ASSUME ReaderInv, SteadyInv, Steady', CorrectSeek, dp' = dp, disk' = disk
  PROVE  SteadyParts'
<1> USE DEF ReaderInv
<1>1. /\ try' = Counting /\ drive_step(r.seek_difference, FALSE) /\ pc = "correct"
      /\ pc' = (IF Again THEN "retry" ELSE "end") /\ r' = r /\ main' # "decode"
  BY DEF CorrectSeek, DRIVE_STEP_NO_UPDATE_CYL, Idle, deltaVars
<1>2. try'.cyl = try.cyl /\ try'.head = try.head
  <2>1. "err_cnt" \in DOMAIN try
    BY DEF TryInv
  <2> QED BY <1>1, <2>1 DEF Counting
<1>3. r.seek_difference \in Int
  BY DEF DecoderInv, DecoderType
<1>4. clean' => clean
  BY <1>1, <1>3, CleanStep
<1>5. Steady
  BY <1>2, <1>4, SteadyStays
<1>6. ArmInv /\ ~try.recovery_active /\ clean'
  BY <1>5 DEF SteadyInv, Steady, ActiveInv
<1>7. /\ drive.arm \in Nat /\ try.cyl \in 0 .. LastCyl /\ drive.current_cyl = try.cyl
      /\ drive.arm # try.cyl /\ r.seek_difference = try.cyl - drive.arm /\ try.err_cnt < Retries
  BY <1>1, <1>6, AwayOnDisk DEF ArmInv, DriveInv
<1>8. r.seek_difference # 0 /\ drive.arm + r.seek_difference = try.cyl
  BY <1>7, AwayOnDisk
<1>9. drive.current_cyl + 0 = try.cyl
  BY <1>7, AwayOnDisk
<1>10. /\ drive'.arm = try.cyl
       /\ drive'.arm # 0 \/ try.cyl = 0 => drive'.current_cyl = try.cyl
  BY <1>1, <1>3, <1>6, <1>7, <1>8, <1>9, CleanStep
<1>11. Onto(try.cyl)'
  BY <1>2, <1>10 DEF Onto
<1> QED BY <1>1, <1>7, <1>11, TriedParts

\* A read begins with nothing seen.
LEMMA StartDecodeParts ==
  ASSUME ReaderInv, SteadyInv, Steady', StartDecode, dp' = dp, disk' = disk
  PROVE  SteadyParts'
<1> USE DEF ReaderInv
<1>1. /\ try' = try /\ pc' = pc /\ drive' = drive /\ clean' = clean
      /\ ~wrong_cyl' /\ processed' = 0 /\ main = "exec"
      /\ r' = [r EXCEPT !.list = StartRead(@), !.state = "MARK_ID", !.sector_index = 0]
  BY DEF StartDecode, deltas_start_read
<1>2. Steady
  BY <1>1, SteadyStays
<1>3. pc = "decode" /\ ArmInv
  BY <1>1, <1>2 DEF PhaseInv, SteadyInv
<1>4. r'.state = "MARK_ID"
  <2>1. Fields \subseteq DOMAIN r
    BY DEF DecoderInv, DecoderType
  <2> QED BY <1>1, <2>1 DEF Fields
<1>5. ArmInv'
  BY <1>1, <1>3 DEF ArmInv, Onto
<1>6. \A i \in Sectors : ~(i < processed')
  BY <1>1 DEF Sectors
<1>7. OverInv'
  BY <1>1, <1>4, <1>6 DEF OverInv, Sectors
<1>8. EndInv'
  BY <1>1, <1>3 DEF EndInv
<1> QED BY <1>5, <1>7, <1>8 DEF SteadyParts

\* A sector leaves the heads and the retries alone.
LEMMA DecodeParts ==
  ASSUME ReaderInv, SteadyInv, Steady', DecodeSector, dp' = dp, disk' = disk
  PROVE  SteadyParts'
<1> USE DEF ReaderInv
<1>1. try' = try /\ pc' = pc /\ drive' = drive /\ main = "decode"
  BY DEF DecodeSector
<1>2. clean' => clean
  BY DEF DecodeSector
<1>3. Steady /\ clean'
  BY <1>1, <1>2, SteadyStays DEF Steady
<1>4. pc = "decode" /\ ArmInv /\ OverInv
  BY <1>1, <1>3 DEF PhaseInv, SteadyInv
<1>5. ArmInv' /\ EndInv'
  BY <1>1, <1>4 DEF ArmInv, EndInv, Onto
<1>6. /\ drive.arm = try.cyl =>
           /\ ~wrong_cyl'
           /\ Sound(try.cyl) => /\ r'.state = "MARK_ID"
                                /\ \A i \in Sectors : i < processed' => GoodEntry(r'.list[i])
      /\ drive.arm # try.cyl =>
           /\ wrong_cyl' => r'.seek_difference = try.cyl - drive.arm
           /\ (\E i \in Sectors : i < processed' /\ Natural(i).header) => wrong_cyl'
  BY <1>3, <1>4, CleanSector
<1>7. \A i : Natural(i)' = Natural(i)
  BY <1>1 DEF Natural, Medium
<1>8. Sound(try.cyl)' <=> Sound(try.cyl)
  BY <1>1 DEF Sound
<1>9. Sectors' = Sectors
  BY DEF Sectors
<1>10. OverInv'
  BY <1>1, <1>6, <1>7, <1>8, <1>9 DEF OverInv
<1> QED BY <1>5, <1>10 DEF SteadyParts

\* The invariant holds at the start ...
LEMMA InitSteady == Init => SteadyInv
<1> SUFFICES ASSUME Init PROVE SteadyInv
  OBVIOUS
<1>1. /\ pc = "retry" /\ try.cyl = 0 /\ try.err_cnt = 0 /\ ~try.recovery_active
      /\ drive.current_cyl = 0 /\ main = "idle"
  BY DEF Init, DeltaInit
<1> QED BY <1>1 DEF SteadyInv, CurrentInv, AloneInv, ActiveInv, ArmInv, OverInv, EndInv

\* ... at every step ...
LEMMA StepSteady ==
  ASSUME ReaderInv, WholeInv, SteadyInv, [Next]_vars
  PROVE  SteadyInv'
<1>1. dp' = dp /\ disk' = disk
  BY JobStays DEF ReaderInv
<1>2. CurrentInv' /\ AloneInv' /\ ActiveInv'
  BY CurrentStep, AloneStep DEF SteadyInv
<1>3. Steady => SteadyParts
  BY DEF SteadyInv, SteadyParts
<1>4. SUFFICES ASSUME Steady' PROVE SteadyParts'
  BY <1>2 DEF SteadyInv, SteadyParts
<1>5. CASE \/ NoSeek \/ EnableRecovery \/ MicroStep \/ SeekAway \/ SeekBack \/ NowhereToSeek
           \/ GoToTrack \/ ReadTrack
  BY <1>4, <1>5, SeekParts
<1>6. CASE StartDecode
  BY <1>1, <1>4, <1>6, StartDecodeParts
<1>7. CASE DecodeSector
  BY <1>1, <1>4, <1>7, DecodeParts
<1>8. CASE EndDecode
  BY <1>1, <1>4, <1>8, EndDecodeParts
<1>9. CASE CorrectSeek
  BY <1>1, <1>4, <1>9, CorrectParts
<1>10. CASE NextTrack
  <2>1. pc' = "retry" /\ try'.err_cnt = 0 /\ main' = "idle"
    BY <1>10 DEF NextTrack, StartTrack, Idle, deltaVars
  <2> QED BY <2>1 DEF SteadyParts, ArmInv, OverInv, EndInv
<1>11. CASE mfm_decode_done
  <2>1. pc' = "done" /\ main' = "idle"
    BY <1>11 DEF mfm_decode_done, Idle, deltaVars
  <2> QED BY <2>1 DEF SteadyParts, ArmInv, OverInv, EndInv
<1>12. CASE Failed \/ StopThread \/ Join \/ SigInt \/ DeltaThread \/ PruRead \/ NoIndex \/ UNCHANGED vars
  <2>1. UNCHANGED <<dp, disk, pc, try, drive, r, wrong_cyl>>
    BY <1>12 DEF Failed, StopThread, Join, SigInt, DeltaThread, PruRead, NoIndex, vars, driveVars
  <2>2. clean' => clean
    BY <1>12 DEF Failed, StopThread, Join, SigInt, DeltaThread, PruRead, NoIndex, vars, driveVars
  <2>3. main' = "decode" => main = "decode" /\ processed' = processed
    <3>1. CASE Failed \/ StopThread \/ Join \/ SigInt
      BY <3>1 DEF Failed, ReadFailed, StopThread, Stop, deltas_stop_thread, Join, Joined, SigInt,
                  Interrupt, driveVars
    <3>2. CASE DeltaThread
      BY <3>2 DEF DeltaThread, driveVars, delta_proc, WaitRead, CopyDeltas, CheckStatus, WriteDeltas,
                  Complete
    <3>3. CASE PruRead \/ NoIndex
      BY <3>3 DEF PruRead, NoIndex, PruStart, PruCapture, PruFinish, driveVars
    <3>4. CASE UNCHANGED vars
      BY <3>4 DEF vars, deltaVars, driveVars
    <3> QED BY <1>12, <3>1, <3>2, <3>3, <3>4
  <2> QED BY <1>3, <1>4, <2>1, <2>2, <2>3, QuietParts
<1> QED
  BY <1>5, <1>6, <1>7, <1>8, <1>9, <1>10, <1>11, <1>12 DEF Next, Reader

\* On a disk whose headers tell where the heads are, one retry is enough for a track without
\* a fault of its own, wherever the seeks for earlier tracks left the heads and whatever
\* the reader believes of it.
THEOREM CleanTrackReadAlways == Spec => [](TrueHeaders => CleanTrackRead)
<1>1. ReaderInv /\ WholeInv /\ SteadyInv /\ [Next]_vars => WholeInv' /\ SteadyInv'
  BY WholeStep, StepSteady DEF ReaderInv
<1>2. Init => WholeInv /\ SteadyInv
  BY InitImage, InitSteady DEF ImageInv
<1>3. SteadyInv => (TrueHeaders => CleanTrackRead)
  BY DEF SteadyInv, CleanTrackRead, Steady, EndInv
<1> QED BY <1>1, <1>2, <1>3, ReaderInvAlways, PTL DEF Spec
=============================================================================
