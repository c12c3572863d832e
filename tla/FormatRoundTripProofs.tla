------------------------ MODULE FormatRoundTripProofs ------------------------
(***************************************************************************)
(* Of every format, layout and interleave: what ext2emu writes has every   *)
(* sector of every track, once, the parts of a track lie after each other, *)
(* and what a reader makes of the parts never leaves the track.            *)
(***************************************************************************)
EXTENDS FormatRoundTrip, SectorSlotsProofs

\* The slots start as those of a disk with the format's number of sectors.
LEMMA InitSlots == Init => SlotInit
BY InterleaveAssumption DEF Init, SlotInit, controller

\* The steps of the writer take a slot by the rules, or leave the slots alone.
LEMMA WriterSlots == WriteTrack => [SlotNext]_slotVars
<1>1. StartCyl => SlotNext
  BY DEF StartCyl, SlotNext
<1>2. StartTrack => SlotNext
  BY DEF StartTrack, SlotNext
<1>3. FillEntry => UNCHANGED slotVars
  BY DEF FillEntry, Exit
<1>4. FieldEntry => SlotNext \/ UNCHANGED slotVars
  BY DEF FieldEntry, PlacePart, Exit, SlotNext
<1>5. EndTrack => UNCHANGED slotVars
  BY DEF EndTrack
<1> QED
  BY <1>1, <1>2, <1>3, <1>4, <1>5 DEF WriteTrack

\* The steps of the reader and of the loop over the tracks leave them alone.
LEMMA OtherSlots ==
  ASSUME \/ mfm_decode_track \/ PassPart \/ mfm_end_track \/ NextRead \/ UNCHANGED vars
         \/ \E what \in {"PROCESS_HEADER", "PROCESS_HEADER2", "PROCESS_DATA"} : ReadPart(what)
  PROVE  UNCHANGED slotVars
<1>1. CASE mfm_decode_track \/ mfm_end_track \/ PassPart
  BY <1>1 DEF mfm_decode_track, mfm_end_track, PassPart
<1>2. CASE NextRead
  BY <1>2 DEF NextRead, NextTrack
<1>3. CASE UNCHANGED vars
  BY <1>3 DEF vars
<1>4. ASSUME NEW what, ReadPart(what) PROVE UNCHANGED slotVars
  BY <1>4 DEF ReadPart, TakeBytes
<1> QED BY <1>1, <1>2, <1>3, <1>4

\* Writing and reading back an image follows SectorSlots.
THEOREM WriterFollowsSlots == Spec => FollowsSlots
<1>1. [Next]_vars => [SlotNext]_slotVars
  BY WriterSlots, OtherSlots DEF Next, Write
<1> QED
  BY <1>1, InitSlots, PTL DEF Spec, FollowsSlots, SlotSpec

\* So no sector of a written track is missing or there twice.
THEOREM EveryTrackComplete == Spec => []EverySectorOnce
BY WriterFollowsSlots, InterleaveComplete, PTL DEF FollowsSlots

-----------------------------------------------------------------------------

(* The marks of a part: process_field() over its fields.                       *)

\* The fields of what is known of a part, as they are at its start
PartFields == {"ones", "regions", "checks", "marks", "crc_start", "crc_end", "field_filled", "fatal"}

\* The marks of the part still fit the list.
MarksFit(acc) == IsFiniteSet(acc.marks) /\ special_list_ndx + Cardinality(acc.marks) <= MAX_SECTORS * 5
Going(acc) == acc.fatal = ""
PartOK(acc) == DOMAIN acc = PartFields /\ (Going(acc) => MarksFit(acc))

\* The same marks, or the program stops.
SameMarks(acc, new) == DOMAIN new = PartFields /\ (Going(new) => new.marks = acc.marks /\ Going(acc))

\* What leaves the marks alone leaves them fitting.
LEMMA SameMarksFit ==
  ASSUME NEW acc, PartOK(acc), NEW new, SameMarks(acc, new)
  PROVE  PartOK(new)
BY DEF PartOK, SameMarks, MarksFit

\* A part that is given up has the marks it had.
LEMMA FailMarks ==
  ASSUME NEW acc, DOMAIN acc = PartFields, NEW why, why # ""
  PROVE  SameMarks(acc, Fail(acc, why))
BY DEF SameMarks, Fail, PartFields, Going

\* Filling a part marks nothing.
LEMMA FilledMarks ==
  ASSUME NEW acc, NEW new, SameMarks(acc, new), NEW byte
  PROVE  SameMarks(acc, Filled(new, byte))
BY DEF SameMarks, Filled, PartFields, Going

\* Writing over what was there marks nothing.
LEMMA ClobberMarks ==
  ASSUME NEW acc, NEW new, SameMarks(acc, new), NEW bytes
  PROVE  SameMarks(acc, Clobber(new, bytes))
BY DEF SameMarks, Clobber, PartFields, Going

\* Nor does writing one bits,
LEMMA WriteOnesMarks ==
  ASSUME NEW acc, DOMAIN acc = PartFields, NEW f, NEW touched, NEW ones
  PROVE  SameMarks(acc, WriteOnes(acc, f, touched, ones))
<1> DEFINE new == Clobber(acc, {p \div 8 : p \in touched})
<1>1. SameMarks(acc, acc)
  BY DEF SameMarks
<1>2. SameMarks(acc, new)
  BY <1>1, ClobberMarks
<1> HIDE DEF new
<1> QED BY <1>2 DEF WriteOnes, new, SameMarks, PartFields, Going

\* a fill,
LEMMA PutFillMarks ==
  ASSUME NEW acc, DOMAIN acc = PartFields, NEW f, NEW loc, NEW length
  PROVE  SameMarks(acc, PutFill(acc, f, loc, length))
<1>1. SameMarks(acc, acc)
  BY DEF SameMarks
<1>2. \A byte : SameMarks(acc, Filled(acc, byte))
  BY <1>1, FilledMarks
<1>3. \A touched, ones, byte : SameMarks(acc, Filled(WriteOnes(acc, f, touched, ones), byte))
  BY FilledMarks, WriteOnesMarks
<1>4. \A why : why # "" => SameMarks(acc, Fail(acc, why))
  BY FailMarks
<1> DEFINE byteOnes == {b \in 0 .. 7 : (f.value \div 2 ^ (7 - b)) % 2 = 1}
           skipped == f.type = "FILL_LAST_SECTOR" /\ loc.phys_sector # num_sectors - 1
           touched == 8 * f.at .. 8 * (f.at + f.len) - 1
           ones == {8 * i + b : i \in FieldBytes(f), b \in byteOnes}
           last == f.at + f.len - 1
<1>5. PutFill(acc, f, loc, length) =
        IF skipped THEN Filled(acc, last)
        ELSE IF TooLong(f, length) THEN Fail(acc, "Track overflow field fill")
        ELSE Filled(WriteOnes(acc, f, touched, ones), last)
  BY DEF PutFill
<1> HIDE DEF skipped, touched, ones, last
<1> QED BY <1>2, <1>3, <1>4, <1>5

\* the bytes of a value,
LEMMA PutBytesMarks ==
  ASSUME NEW acc, DOMAIN acc = PartFields, NEW f, NEW value, NEW length
  PROVE  SameMarks(acc, PutBytes(acc, f, value, length))
BY FailMarks, FilledMarks, WriteOnesMarks DEF PutBytes

\* its bits,
LEMMA PutBitsMarks ==
  ASSUME NEW acc, DOMAIN acc = PartFields, NEW f, NEW value, NEW length
  PROVE  SameMarks(acc, PutBits(acc, f, value, length))
BY FailMarks, FilledMarks, WriteOnesMarks DEF PutBits

\* the data of a sector,
LEMMA PutDataMarks ==
  ASSUME NEW acc, DOMAIN acc = PartFields, NEW f, NEW loc, NEW length
  PROVE  SameMarks(acc, PutData(acc, f, loc, length))
<1> DEFINE new == Filled(Clobber(acc, FieldBytes(f)), f.at + f.len - 1)
<1>1. SameMarks(acc, acc)
  BY DEF SameMarks
<1>2. SameMarks(acc, new)
  BY <1>1, ClobberMarks, FilledMarks
<1> HIDE DEF new
<1>3. \A ones, regions : SameMarks(acc, [new EXCEPT !.ones = ones, !.regions = regions])
  BY <1>2 DEF SameMarks, PartFields, Going
<1> QED BY <1>3, FailMarks DEF PutData, new

\* or a check over what was written.
LEMMA PutCheckMarks ==
  ASSUME NEW acc, DOMAIN acc = PartFields, NEW f, NEW loc, NEW length
  PROVE  SameMarks(acc, PutCheck(acc, f, loc, length))
<1> DEFINE to == IF acc.crc_end = -1 THEN f.at - 1 ELSE acc.crc_end
           marked == [acc EXCEPT !.crc_end = to]
           new == Filled(Clobber(marked, FieldBytes(f)), f.at + f.len - 1)
<1>1. DOMAIN marked = PartFields /\ SameMarks(acc, marked)
  BY DEF SameMarks, PartFields, Going
<1>2. SameMarks(acc, new)
  BY <1>1, ClobberMarks, FilledMarks
<1>3. \A value : SameMarks(marked, PutBytes(marked, f, value, length))
  BY <1>1, PutBytesMarks
<1>4. \A value : SameMarks(acc, PutBytes(marked, f, value, length))
  BY <1>1, <1>3 DEF SameMarks
<1> HIDE DEF new
<1>5. \A ones, checks : SameMarks(acc, [new EXCEPT !.ones = ones, !.checks = checks])
  BY <1>2 DEF SameMarks, PartFields, Going
<1> QED BY <1>4, <1>5, FailMarks DEF PutCheck, new

\* The marks of a Xebec track are five,
LEMMA XebecDomain == DOMAIN XebecPatterns = 1 .. 5
BY DEF XebecPatterns

\* which is finitely many,
LEMMA FiveFinite == IsFiniteSet(1 .. 5)
<1>1. 1 \in Int /\ 5 \in Int
  OBVIOUS
<1> QED BY <1>1, FS_Interval

\* wherever they are put.
LEMMA XebecMarks ==
  ASSUME NEW f
  PROVE  IsFiniteSet({<<f.at + i - 1, XebecPatterns[i]>> : i \in DOMAIN XebecPatterns})
<1> DEFINE marks == {<<f.at + i - 1, XebecPatterns[i]>> : i \in 1 .. 5}
           mark == [i \in 1 .. 5 |-> <<f.at + i - 1, XebecPatterns[i]>>]
<1>1. mark \in Surjection(1 .. 5, marks)
  BY Zenon DEF Surjection
<1>2. IsFiniteSet(marks)
  <2> HIDE DEF mark, marks
  <2> QED BY <1>1, FiveFinite, FS_Surjection
<1> QED BY <1>2, XebecDomain, Zenon

\* A special field adds its marks only if the list still has room for them.
LEMMA PutSpecialMarks ==
  ASSUME special_list_ndx \in Nat, NEW acc, PartOK(acc), Going(acc), NEW f, NEW length
  PROVE  PartOK(PutSpecial(acc, f, length))
<1> DEFINE xebec == {<<f.at + i - 1, XebecPatterns[i]>> : i \in DOMAIN XebecPatterns}
           marks == IF f.type = "XEBEC_ID" THEN xebec ELSE {<<f.at, SpecialPattern(f)>>}
           patterns == {m \in marks : m[1] \in FieldBytes(f)}
           put == PutBytes(acc, f, f.value, length)
           new == [put EXCEPT !.marks = @ \cup marks]
<1>1. IsFiniteSet(marks)
  <2>1. IsFiniteSet(xebec)
    BY XebecMarks
  <2>2. IsFiniteSet({<<f.at, SpecialPattern(f)>>})
    BY FS_Singleton
  <2> HIDE DEF xebec
  <2> QED BY <2>1, <2>2
<1>8. PutSpecial(acc, f, length) =
        IF special_list_ndx + Cardinality(acc.marks \cup marks) > MAX_SECTORS * 5
        THEN Fail(acc, "Special list overflow")
        ELSE IF patterns # marks THEN Fail(acc, "XEBEC id length wrong")
        ELSE new
  BY DEF PutSpecial
<1> HIDE DEF marks, patterns
<1>2. IsFiniteSet(acc.marks) /\ DOMAIN acc = PartFields
  BY DEF PartOK, MarksFit
<1>3. SameMarks(acc, put)
  BY <1>2, PutBytesMarks
<1>4. DOMAIN new = PartFields /\ (Going(new) <=> Going(put)) /\ new.marks = put.marks \cup marks
  BY <1>3 DEF SameMarks, PartFields, Going
<1>5. IsFiniteSet(acc.marks \cup marks)
  BY <1>1, <1>2, FS_Union
<1> HIDE DEF put
<1>6. special_list_ndx + Cardinality(acc.marks \cup marks) <= MAX_SECTORS * 5 => PartOK(new)
  <2> HIDE DEF new
  <2> QED BY <1>3, <1>4, <1>5 DEF PartOK, MarksFit, SameMarks
<1>7. \A why : why # "" => PartOK(Fail(acc, why))
  BY <1>2, FailMarks, SameMarksFit
<1> HIDE DEF new
<1>9. special_list_ndx + Cardinality(acc.marks \cup marks) <= MAX_SECTORS * 5
      \/ special_list_ndx + Cardinality(acc.marks \cup marks) > MAX_SECTORS * 5
  <2>1. Cardinality(acc.marks \cup marks) \in Nat
    BY <1>5, FS_CardinalityType
  <2> QED BY <2>1 DEF MAX_SECTORS
<1> QED BY <1>6, <1>7, <1>8, <1>9
\* So whatever a field is, its part's marks fit the list after it.
LEMMA PutFieldMarks ==
  ASSUME special_list_ndx \in Nat, NEW acc, PartOK(acc), NEW f, NEW loc, NEW length
  PROVE  PartOK(PutField(acc, f, loc, length))
<1>1. CASE ~ Going(acc)
  BY <1>1 DEF PutField, Going
<1>2. CASE Going(acc)
  <2>1. DOMAIN acc = PartFields /\ SameMarks(acc, acc)
    BY <1>2 DEF PartOK, SameMarks
  <2>2. PartOK(PutFill(acc, f, loc, length))
    BY <2>1, PutFillMarks, SameMarksFit
  <2>3. PartOK(PutCheck(acc, f, loc, length))
    BY <2>1, PutCheckMarks, SameMarksFit
  <2>4. \A at : PartOK(Filled([acc EXCEPT !.crc_start = at], f.at - 1))
    <3> TAKE at
    <3>1. SameMarks(acc, [acc EXCEPT !.crc_start = at])
      BY <1>2, <2>1 DEF SameMarks, PartFields, Going
    <3> QED BY <3>1, FilledMarks, SameMarksFit
  <2>5. \A at : PartOK(Filled([acc EXCEPT !.crc_end = at], f.at - 1))
    <3> TAKE at
    <3>1. SameMarks(acc, [acc EXCEPT !.crc_end = at])
      BY <1>2, <2>1 DEF SameMarks, PartFields, Going
    <3> QED BY <3>1, FilledMarks, SameMarksFit
  <2>6. PartOK(PutData(acc, f, loc, length))
    BY <2>1, PutDataMarks, SameMarksFit
  <2>7. PartOK(PutSpecial(acc, f, length))
    BY <1>2, PutSpecialMarks
  <2>8. /\ PartOK(PutBits(acc, f, FieldValue(f, loc), length))
        /\ PartOK(PutBytes(acc, f, FieldValue(f, loc), length))
    BY <2>1, PutBitsMarks, PutBytesMarks, SameMarksFit
  <2> QED BY <1>2, <2>2, <2>3, <2>4, <2>5, <2>6, <2>7, <2>8 DEF PutField, Going
<1> QED BY <1>1, <1>2

\* put[k] is what is known of a part after its first k fields.
Puts(put, part, loc, n) ==
  put = [k \in 0 .. n |-> IF k = 0 THEN Blank ELSE PutField(put[k - 1], part.list[k], loc, part.count)]

\* For every number of fields there is such a function: no number is the least
\* without one.
LEMMA PutsExist ==
  ASSUME NEW n \in Nat, NEW part, NEW loc
  PROVE  \E put : Puts(put, part, loc, n)
<1> DEFINE T == {k \in Nat : ~ \E put : Puts(put, part, loc, k)}
<1> SUFFICES ASSUME T # {} PROVE FALSE
  OBVIOUS
<1>1. PICK k \in T : \A l \in T : k <= l
  BY LeastNumber, T \subseteq Nat, Zenon
<1>2. k \in Nat /\ ~ \E put : Puts(put, part, loc, k)
  OBVIOUS
<1>3. CASE k = 0
  <2> DEFINE f == [l \in 0 .. 0 |-> Blank]
  <2>1. f = [l \in 0 .. 0 |-> IF l = 0 THEN Blank ELSE PutField(f[l - 1], part.list[l], loc, part.count)]
    OBVIOUS
  <2> QED BY <1>2, <1>3, <2>1 DEF Puts
<1>4. CASE k # 0
  <2>1. k - 1 \in Nat /\ k - 1 \notin T
    BY <1>1, <1>2, <1>4
  <2>2. PICK f : Puts(f, part, loc, k - 1)
    BY <2>1
  <2> DEFINE g == [l \in 0 .. k |-> IF l = k THEN PutField(f[k - 1], part.list[k], loc, part.count) ELSE f[l]]
  <2>3. ASSUME NEW l \in 0 .. k
        PROVE  g[l] = IF l = 0 THEN Blank ELSE PutField(g[l - 1], part.list[l], loc, part.count)
    <3>1. CASE l = k
      <4>1. k - 1 \in 0 .. k /\ k - 1 # k
        BY <1>2, <1>4
      <4> QED BY <1>4, <3>1, <4>1
    <3>2. CASE l # k
      <4>1. l \in 0 .. k - 1 /\ (l # 0 => l - 1 \in 0 .. k /\ l - 1 # k)
        BY <1>2, <3>2
      <4>2. f[l] = IF l = 0 THEN Blank ELSE PutField(f[l - 1], part.list[l], loc, part.count)
        BY <2>2, <4>1 DEF Puts
      <4> QED BY <3>2, <4>1, <4>2
    <3> QED BY <3>1, <3>2
  <2>5. g = [l \in 0 .. k |-> g[l]]
    OBVIOUS
  <2> HIDE DEF g
  <2>6. Puts(g, part, loc, k)
    BY <2>3, <2>5 DEF Puts
  <2> QED BY <1>2, <2>6
<1> QED BY <1>3, <1>4

\* The marks of the part process_field() makes fit.
LEMMA PartMarksFit ==
  ASSUME special_list_ndx \in 0 .. MAX_SECTORS * 5, NEW part, Len(part.list) \in Nat, NEW loc,
         Going(process_field(part, loc))
  PROVE  MarksFit(process_field(part, loc))
<1> DEFINE n == Len(part.list)
           put == CHOOSE put : put = [k \in 0 .. n |-> IF k = 0 THEN Blank
                                       ELSE PutField(put[k - 1], part.list[k], loc, part.count)]
<1>1. process_field(part, loc) = FilledUp(put[n], part.count)
  BY DEF process_field
<1>2. Puts(put, part, loc, n)
  BY PutsExist DEF Puts
<1> HIDE DEF put
<1>3. PartOK(Blank)
  <2>1. IsFiniteSet({}) /\ Cardinality({}) = 0
    BY FS_EmptySet
  <2>2. DOMAIN Blank = PartFields /\ Blank.marks = {}
    BY DEF Blank, PartFields
  <2>3. special_list_ndx + Cardinality(Blank.marks) <= MAX_SECTORS * 5
    BY <2>1, <2>2 DEF MAX_SECTORS
  <2> QED BY <2>1, <2>2, <2>3 DEF PartOK, MarksFit
<1> DEFINE T == {k \in 0 .. n : ~ PartOK(put[k])}
<1>4. T = {}
  <2> SUFFICES ASSUME T # {} PROVE FALSE
    OBVIOUS
  <2>1. PICK k \in T : \A l \in T : k <= l
    BY LeastNumber, T \subseteq Nat, Zenon
  <2>2. k \in 0 .. n /\ ~ PartOK(put[k])
    OBVIOUS
  <2>3. put[k] = IF k = 0 THEN Blank ELSE PutField(put[k - 1], part.list[k], loc, part.count)
    BY <1>2, <2>2 DEF Puts
  <2>4. k # 0
    BY <1>3, <2>2, <2>3
  <2>5. PartOK(put[k - 1])
    <3>1. k - 1 \in 0 .. n /\ k - 1 \notin T
      BY <2>1, <2>2, <2>4
    <3> QED BY <3>1
  <2>6. special_list_ndx \in Nat
    OBVIOUS
  <2> QED BY <2>2, <2>3, <2>4, <2>5, <2>6, PutFieldMarks
<1>5. PartOK(put[n])
  <2>1. n \in 0 .. n
    OBVIOUS
  <2> QED BY <1>4, <2>1
<1>6. process_field(part, loc) = put[n]
  <2>1. process_field(part, loc) = put[n] \/ process_field(part, loc) = Fail(put[n], "Incorrect field length")
    BY <1>1 DEF FilledUp
  <2>2. ~ Going(Fail(put[n], "Incorrect field length"))
    BY <1>5 DEF Fail, PartOK, PartFields, Going
  <2> QED BY <2>1, <2>2
<1> QED BY <1>5, <1>6 DEF PartOK

-----------------------------------------------------------------------------

(* Where the writer is, and what it has placed on the track.                   *)

\* The job does not change, and the writer follows the cylinders and heads it names.
JobInv ==
  /\ drive_params \in Jobs /\ num_sectors = controller.num_sectors
  /\ cyl \in Nat /\ head \in Nat

WriterType ==
  /\ pc \in {"cyl", "track", "entry", "written", "done", "exit"}
  /\ start \in 0 .. track_length
  /\ special_list_ndx \in 0 .. MAX_SECTORS * 5
  /\ ndx \in Nat \ {0}

EndOf(t, k) == t[k].at + entries[t[k].ndx].count
EndsOf(t) == {k \in DOMAIN t : Advances(entries[t[k].ndx])}
EndsTo(t, k) == {j \in EndsOf(t) : j <= k}
Rank(t, k) == Cardinality(EndsTo(t, k))

\* The parts of the track follow each other, up to where the next one goes.
PartsInv ==
  /\ \E S : track \in Seq(S)
  /\ \A k \in DOMAIN track : track[k].ndx \in DOMAIN entries /\ track[k].at \in Nat
  /\ \A k \in 1 .. Len(track) - 1 : EndOf(track, k) <= track[k + 1].at
  /\ Len(track) > 0 => EndOf(track, Len(track)) <= start

\* The sector of a part is that of the next, unless the part ends it.
SameSector ==
  /\ \A k \in 1 .. Len(track) - 1 : k \notin EndsOf(track) => track[k + 1].loc = track[k].loc
  /\ Len(track) > 0 /\ Len(track) \notin EndsOf(track) => track[Len(track)].loc = here

\* The parts that end a sector are, in turn, those of the order.
InOrder ==
  /\ Rank(track, Len(track)) = Len(order)
  /\ \A k \in EndsOf(track) : Rank(track, k) \in DOMAIN order /\ track[k].loc.sector = order[Rank(track, k)]
  /\ \A n \in DOMAIN order : \E k \in EndsOf(track) : Rank(track, k) = n

\* When every sector was taken the last is taken again.
LastAgain ==
  Len(order) >= num_sectors =>
    /\ slot.sector = order[num_sectors]
    /\ \A n \in num_sectors .. Len(order) : order[n] = order[num_sectors]

PlacedInv == pc \in {"entry", "written"} => PartsInv /\ SameSector /\ InOrder /\ LastAgain

WriterInv == JobInv /\ WriterType /\ SlotInv /\ PlacedInv

\* What the assumptions say of the job at hand.
LEMMA JobFacts ==
  ASSUME JobInv
  PROVE  /\ num_sectors \in Nat \ {0} /\ track_length \in Nat
         /\ Len(entries) \in Nat /\ DOMAIN entries = 1 .. Len(entries)
         /\ \A k \in DOMAIN entries : /\ entries[k].count \in Nat
                                      /\ entries[k].type = "TRK_FIELD" => Len(entries[k].list) \in Nat
         /\ drive_params.controller \in DOMAIN mfm_controller_info \ NotReadable
         /\ drive_params.num_head \in Nat \ {0}
         /\ drive_params.cyls \in Seq(Nat) /\ 1 \in DOMAIN drive_params.cyls
         /\ drive_params.heads \in Seq(Nat) /\ 1 \in DOMAIN drive_params.heads
<1>1. controller.track_words \in Nat => track_length \in Nat
  BY DEF track_length
<1>2. \A s \in Seq(Nat) \ {<<>>} : 1 \in DOMAIN s
  OBVIOUS
<1> QED BY <1>1, <1>2, InterleaveAssumption, GeometryAssumption, LayoutAssumption
           DEF JobInv, controller, entries

\* The job stays the job.
LEMMA SameJob ==
  ASSUME drive_params' = drive_params, num_sectors' = num_sectors
  PROVE  entries' = entries /\ track_length' = track_length /\ controller' = controller
BY DEF entries, track_length, controller

\* One more part
LEMMA OnePartMore ==
  ASSUME NEW S, NEW t \in Seq(S), NEW part, NEW u, u = Append(t, part)
  PROVE  /\ u \in Seq(S \cup {part}) /\ Len(u) = Len(t) + 1 /\ Len(t) \in Nat
         /\ DOMAIN t = 1 .. Len(t) /\ DOMAIN u = 1 .. Len(t) + 1
         /\ u[Len(t) + 1] = part /\ \A k \in DOMAIN t : u[k] = t[k]
<1>1. t \in Seq(S \cup {part})
  OBVIOUS
<1> QED BY <1>1

\* The parts that end a sector are counted.
LEMMA RankFacts ==
  ASSUME NEW S, NEW t \in Seq(S)
  PROVE  /\ \A k : IsFiniteSet(EndsTo(t, k)) /\ Rank(t, k) \in Nat
         /\ \A k \in EndsOf(t) : Rank(t, k) > 0 /\ Rank(t, k) <= Rank(t, Len(t))
         /\ \A j, k \in EndsOf(t) : j < k => Rank(t, j) < Rank(t, k)
<1>1. IsFiniteSet(DOMAIN t)
  <2>1. 1 \in Int /\ Len(t) \in Int /\ DOMAIN t = 1 .. Len(t)
    OBVIOUS
  <2> QED BY <2>1, FS_Interval
<1>2. IsFiniteSet(EndsOf(t)) /\ EndsOf(t) \subseteq Nat
  <2>1. EndsOf(t) \subseteq DOMAIN t /\ DOMAIN t \subseteq Nat
    BY DEF EndsOf
  <2> QED BY <1>1, <2>1, FS_Subset
<1>3. \A k : IsFiniteSet(EndsTo(t, k)) /\ Rank(t, k) \in Nat
  BY <1>2, FS_Subset, FS_CardinalityType DEF EndsTo, Rank
<1>4. ASSUME NEW k \in EndsOf(t)
      PROVE  Rank(t, k) > 0 /\ Rank(t, k) <= Rank(t, Len(t))
  <2>1. k \in EndsTo(t, k)
    BY <1>2 DEF EndsTo
  <2>2. Rank(t, k) # 0
    BY <1>3, <2>1, FS_EmptySet DEF Rank
  <2>3. EndsTo(t, k) \subseteq EndsTo(t, Len(t))
    BY <1>2 DEF EndsTo, EndsOf
  <2>4. Rank(t, k) <= Rank(t, Len(t))
    BY <1>3, <2>3, FS_Subset DEF Rank
  <2> QED BY <1>3, <2>2, <2>4
<1>5. ASSUME NEW j \in EndsOf(t), NEW k \in EndsOf(t), j < k
      PROVE  Rank(t, j) < Rank(t, k)
  <2>1. EndsTo(t, j) \subseteq EndsTo(t, k)
    BY <1>2, <1>5 DEF EndsTo
  <2>2. k \in EndsTo(t, k) /\ k \notin EndsTo(t, j)
    BY <1>2, <1>5 DEF EndsTo
  <2>3. Rank(t, j) <= Rank(t, k) /\ Rank(t, j) # Rank(t, k)
    BY <1>3, <2>1, <2>2, FS_Subset DEF Rank
  <2> QED BY <1>3, <2>3
<1> QED BY <1>3, <1>4, <1>5

\* How the count goes on with one part more
LEMMA RankMore ==
  \A S, part : \A t \in Seq(S) :
     /\ \A k \in DOMAIN t : Rank(Append(t, part), k) = Rank(t, k)
     /\ Advances(entries[part.ndx]) => /\ EndsOf(Append(t, part)) = EndsOf(t) \cup {Len(t) + 1}
                                      /\ Rank(Append(t, part), Len(t) + 1) = Rank(t, Len(t)) + 1
     /\ ~ Advances(entries[part.ndx]) => /\ EndsOf(Append(t, part)) = EndsOf(t)
                                        /\ Rank(Append(t, part), Len(t) + 1) = Rank(t, Len(t))
<1> SUFFICES ASSUME NEW S, NEW part, NEW t \in Seq(S)
             PROVE  /\ \A k \in DOMAIN t : Rank(Append(t, part), k) = Rank(t, k)
                    /\ Advances(entries[part.ndx]) =>
                         /\ EndsOf(Append(t, part)) = EndsOf(t) \cup {Len(t) + 1}
                         /\ Rank(Append(t, part), Len(t) + 1) = Rank(t, Len(t)) + 1
                    /\ ~ Advances(entries[part.ndx]) =>
                         /\ EndsOf(Append(t, part)) = EndsOf(t)
                         /\ Rank(Append(t, part), Len(t) + 1) = Rank(t, Len(t))
  OBVIOUS
<1> DEFINE u == Append(t, part)
           n == Len(t) + 1
<1>1. /\ Len(t) \in Nat /\ DOMAIN t = 1 .. Len(t) /\ DOMAIN u = DOMAIN t \cup {n}
      /\ u[n] = part /\ \A k \in DOMAIN t : u[k] = t[k]
  BY OnePartMore
<1>0. u = Append(t, part) /\ n = Len(t) + 1
  OBVIOUS
<1> HIDE DEF u, n
<1>2. /\ Advances(entries[part.ndx]) => EndsOf(u) = EndsOf(t) \cup {n}
      /\ ~ Advances(entries[part.ndx]) => EndsOf(u) = EndsOf(t)
  BY <1>1 DEF EndsOf
<1>3. n \notin EndsOf(t) /\ EndsOf(t) \subseteq DOMAIN t
  BY <1>1, <1>0 DEF EndsOf
<1>4. \A k \in DOMAIN t : EndsTo(u, k) = EndsTo(t, k)
  BY <1>0, <1>1, <1>2, <1>3 DEF EndsTo
<1>5. /\ Advances(entries[part.ndx]) => EndsTo(u, n) = EndsTo(t, Len(t)) \cup {n}
      /\ ~ Advances(entries[part.ndx]) => EndsTo(u, n) = EndsTo(t, Len(t))
  BY <1>0, <1>1, <1>2, <1>3 DEF EndsTo
<1>6. /\ IsFiniteSet(EndsTo(t, Len(t))) /\ n \notin EndsTo(t, Len(t))
      /\ Rank(t, Len(t)) \in Nat
  BY <1>3, RankFacts DEF EndsTo
<1>7. Advances(entries[part.ndx]) => Rank(u, n) = Rank(t, Len(t)) + 1
  BY <1>5, <1>6, FS_AddElement DEF Rank
<1>8. /\ \A k \in DOMAIN t : Rank(u, k) = Rank(t, k)
      /\ ~ Advances(entries[part.ndx]) => Rank(u, n) = Rank(t, Len(t))
  BY <1>4, <1>5 DEF Rank
<1> QED BY <1>2, <1>7, <1>8, Zenon DEF u, n

\* A new track has no parts.
LEMMA EmptyPlaced ==
  ASSUME track' = <<>>, order' = <<>>, start' = 0, JobInv', SlotInv'
  PROVE  PlacedInv'
<1>1. track' \in Seq({}) /\ Len(track') = 0 /\ DOMAIN track' = {} /\ Len(order') = 0 /\ DOMAIN order' = {}
  OBVIOUS
<1>2. EndsOf(track)' = {}
  BY <1>1 DEF EndsOf
<1>3. PartsInv'
  BY <1>1 DEF PartsInv
<1>4. SameSector'
  BY <1>1 DEF SameSector
<1>5. InOrder'
  <2>1. EndsTo(track, Len(track))' = {}
    BY <1>2 DEF EndsTo
  <2>2. Rank(track, Len(track))' = 0
    BY <2>1, FS_EmptySet DEF Rank
  <2> QED BY <1>1, <1>2, <2>2 DEF InOrder
<1>6. LastAgain'
  BY <1>1 DEF LastAgain, SlotInv, SlotTypeOK
<1> QED BY <1>3, <1>4, <1>5, <1>6 DEF PlacedInv

\* Nothing is placed by a step that leaves the track, the slots and the place alone,
\* or moves the place on.
LEMMA SamePlaced ==
  ASSUME WriterInv, pc' \in {"entry", "written"} => pc \in {"entry", "written"}, track' = track,
         UNCHANGED slotVars, drive_params' = drive_params, cyl' = cyl, head' = head,
         start' \in Int, start' >= start
  PROVE  PlacedInv'
<1> SUFFICES ASSUME pc' \in {"entry", "written"} PROVE PartsInv' /\ SameSector' /\ InOrder' /\ LastAgain'
  BY DEF PlacedInv
<1>1. PartsInv /\ SameSector /\ InOrder /\ LastAgain
  BY DEF WriterInv, PlacedInv
<1>2. entries' = entries /\ num_sectors' = num_sectors /\ order' = order /\ slot' = slot /\ here' = here
  BY SameJob DEF slotVars, interleaveVars, here
<1>3. start \in Int
  BY JobFacts DEF WriterInv, WriterType
<1>4. EndsOf(track)' = EndsOf(track) /\ \A k : EndOf(track, k)' = EndOf(track, k)
  BY <1>2 DEF EndsOf, EndOf
<1>5. \A k : Rank(track, k)' = Rank(track, k)
  BY <1>4 DEF Rank, EndsTo
<1>6. PartsInv'
  <2>1. Len(track) > 0 => EndOf(track, Len(track)) \in Int
    <3>1. PICK S : track \in Seq(S)
      BY <1>1 DEF PartsInv
    <3>2. Len(track) > 0 => Len(track) \in DOMAIN track
      BY <3>1
    <3>3. \A k \in DOMAIN entries : entries[k].count \in Nat
      BY JobFacts DEF WriterInv
    <3> QED BY <1>1, <3>2, <3>3 DEF PartsInv, EndOf
  <2>2. \E S : track' \in Seq(S)
    BY <1>1 DEF PartsInv
  <2>3. Len(track') > 0 => EndOf(track, Len(track))' <= start'
    BY <1>1, <1>3, <1>4, <2>1 DEF PartsInv
  <2> QED BY <1>1, <1>2, <1>4, <2>2, <2>3 DEF PartsInv
<1>7. SameSector'
  BY <1>1, <1>2, <1>4 DEF SameSector
<1>8. InOrder'
  BY <1>1, <1>2, <1>4, <1>5 DEF InOrder
<1>9. LastAgain'
  BY <1>1, <1>2 DEF LastAgain
<1> QED BY <1>6, <1>7, <1>8, <1>9

\* A part is placed; it ends its sector or not.
LEMMA PartPlaced ==
  ASSUME WriterInv, pc = "entry", ndx \in DOMAIN entries, NEW gap,
         LET part == [ndx |-> ndx, at |-> start, gaps |-> gap, loc |-> here]
         IN track' = Append(track, part),
         start' = start + entry.count,
         IF Advances(entry) THEN inc_sector ELSE UNCHANGED slotVars,
         drive_params' = drive_params, cyl' = cyl, head' = head
  PROVE  PlacedInv'
<1> DEFINE part == [ndx |-> ndx, at |-> start, gaps |-> gap, loc |-> here]
           n == Len(track) + 1
<1>1. PartsInv /\ SameSector /\ InOrder /\ LastAgain /\ JobInv /\ WriterType /\ SlotInv
  BY DEF WriterInv, PlacedInv
<1>2. entries' = entries /\ num_sectors' = num_sectors /\ num_sectors \in Nat \ {0} /\ start \in Nat
  BY <1>1, SameJob, JobFacts DEF slotVars, interleaveVars, inc_sector, WriterType
<1>3. part.ndx = ndx /\ part.at = start /\ part.loc = here
  OBVIOUS
<1> HIDE DEF part
<1>4. PICK S : track \in Seq(S)
  BY <1>1 DEF PartsInv
<1>5. track' = Append(track, part)
  BY DEF part
<1>6. /\ track' \in Seq(S \cup {part}) /\ Len(track') = n /\ Len(track) \in Nat
      /\ DOMAIN track = 1 .. Len(track) /\ DOMAIN track' = 1 .. n
      /\ track'[n] = part /\ \A k \in DOMAIN track : track'[k] = track[k]
  BY <1>4, <1>5, OnePartMore
<1>7. /\ \A k \in DOMAIN track : Rank(track', k) = Rank(track, k)
      /\ Advances(entry) => EndsOf(track') = EndsOf(track) \cup {n} /\ Rank(track', n) = Rank(track, Len(track)) + 1
      /\ ~ Advances(entry) => EndsOf(track') = EndsOf(track) /\ Rank(track', n) = Rank(track, Len(track))
      /\ EndsOf(track) \subseteq DOMAIN track
  <2>1. entries[part.ndx] = entry
    BY <1>3 DEF entry
  <2>2. /\ \A k \in DOMAIN track : Rank(Append(track, part), k) = Rank(track, k)
        /\ Advances(entries[part.ndx]) => /\ EndsOf(Append(track, part)) = EndsOf(track) \cup {Len(track) + 1}
                                         /\ Rank(Append(track, part), Len(track) + 1) = Rank(track, Len(track)) + 1
        /\ ~ Advances(entries[part.ndx]) => /\ EndsOf(Append(track, part)) = EndsOf(track)
                                           /\ Rank(Append(track, part), Len(track) + 1) = Rank(track, Len(track))
    BY <1>4, RankMore, Zenon
  <2> QED BY <1>5, <2>1, <2>2 DEF EndsOf
<1>8. /\ EndsOf(track)' = EndsOf(track')
      /\ \A k : Rank(track, k)' = Rank(track', k) /\ EndOf(track, k)' = EndOf(track', k)
      /\ Rank(track, Len(track))' = Rank(track', Len(track'))
  BY <1>2 DEF EndsOf, EndsTo, Rank, EndOf
<1>9. \A k \in DOMAIN track : EndOf(track', k) = EndOf(track, k)
  BY <1>6 DEF EndOf
<1>10. EndOf(track', n) = start'
  BY <1>3, <1>6 DEF EndOf, entry
<1>11. PartsInv'
  <2>1. \A k \in DOMAIN track' : track'[k].ndx \in DOMAIN entries /\ track'[k].at \in Nat
    BY <1>1, <1>2, <1>3, <1>6 DEF PartsInv
  <2>2. ASSUME NEW k \in 1 .. n - 1
        PROVE  EndOf(track', k) <= track'[k + 1].at
    <3>1. CASE k = Len(track)
      BY <1>1, <1>3, <1>6, <1>9, <3>1 DEF PartsInv
    <3>2. CASE k # Len(track)
      <4>1. k \in 1 .. Len(track) - 1 /\ k \in DOMAIN track /\ k + 1 \in DOMAIN track
        BY <1>6, <3>2
      <4> QED BY <1>1, <1>6, <1>9, <4>1 DEF PartsInv
    <3> QED BY <3>1, <3>2
  <2>3. EndOf(track', n) <= start'
    <3>1. start' \in Int
      BY <1>1, <1>2, JobFacts DEF entry
    <3> QED BY <1>10, <3>1
  <2>4. \E T : track' \in Seq(T)
    BY <1>6
  <2> QED BY <1>2, <1>6, <1>8, <2>1, <2>2, <2>3, <2>4 DEF PartsInv
<1>12. SameSector'
  <2>1. ASSUME NEW k \in 1 .. n - 1, k \notin EndsOf(track')
        PROVE  track'[k + 1].loc = track'[k].loc
    <3>1. k \notin EndsOf(track) /\ k \in DOMAIN track
      BY <1>6, <1>7, <2>1
    <3>2. CASE k = Len(track)
      BY <1>1, <1>3, <1>6, <3>1, <3>2 DEF SameSector
    <3>3. CASE k # Len(track)
      <4>1. k \in 1 .. Len(track) - 1 /\ k + 1 \in DOMAIN track
        BY <1>6, <3>3
      <4> QED BY <1>1, <1>6, <3>1, <4>1 DEF SameSector
    <3> QED BY <3>2, <3>3
  <2>2. ASSUME n \notin EndsOf(track') PROVE track'[n].loc = here'
    <3>1. ~ Advances(entry)
      BY <1>7, <2>2
    <3>2. here' = here
      BY <3>1 DEF here, slotVars
    <3> QED BY <1>3, <1>6, <3>2
  <2> QED BY <1>6, <1>8, <2>1, <2>2 DEF SameSector
<1>13. CASE ~ Advances(entry)
  <2>1. order' = order /\ slot' = slot
    BY <1>13 DEF slotVars
  <2>2. EndsOf(track') = EndsOf(track) /\ Rank(track', n) = Rank(track, Len(track))
    BY <1>7, <1>13
  <2>3. InOrder'
    <3>1. Rank(track', Len(track')) = Len(order)
      BY <1>1, <1>6, <2>2 DEF InOrder
    <3>2. \A k \in EndsOf(track') : Rank(track', k) = Rank(track, k) /\ track'[k] = track[k]
      BY <1>6, <1>7, <2>2
    <3>3. Rank(track, Len(track))' = Len(order')
      BY <1>8, <2>1, <3>1
    <3>4. \A k \in EndsOf(track)' : Rank(track, k)' \in DOMAIN order' /\ track'[k].loc.sector = order'[Rank(track, k)']
      <4>1. \A k \in EndsOf(track) : Rank(track, k) \in DOMAIN order /\ track[k].loc.sector = order[Rank(track, k)]
        BY <1>1 DEF InOrder
      <4>2. \A k \in EndsOf(track)' : /\ k \in EndsOf(track) /\ k \in EndsOf(track')
                                      /\ Rank(track, k)' = Rank(track, k) /\ track'[k] = track[k]
        BY <1>8, <2>2, <3>2
      <4> QED BY <2>1, <4>1, <4>2
    <3>5. \A i \in DOMAIN order' : \E k \in EndsOf(track)' : Rank(track, k)' = i
      BY <1>1, <1>8, <2>1, <2>2, <3>2 DEF InOrder
    <3> QED BY <3>3, <3>4, <3>5 DEF InOrder
  <2>4. LastAgain'
    BY <1>1, <1>2, <2>1 DEF LastAgain
  <2> QED BY <1>11, <1>12, <2>3, <2>4 DEF PlacedInv
<1>14. CASE Advances(entry)
  <2>1. /\ order' = Append(order, slot.sector) /\ slot' = IncSector(slot)
        /\ order \in Seq(Sectors) /\ slot.sector \in Sectors /\ slot.count = Len(order)
    BY <1>1, <1>14 DEF inc_sector, SlotInv, SlotTypeOK, UsedIsOrder
  <2>2. /\ Len(order') = Len(order) + 1 /\ Len(order) \in Nat /\ DOMAIN order = 1 .. Len(order)
        /\ DOMAIN order' = 1 .. Len(order) + 1
        /\ order'[Len(order) + 1] = slot.sector /\ \A i \in DOMAIN order : order'[i] = order[i]
    BY <2>1
  <2>3. EndsOf(track') = EndsOf(track) \cup {n} /\ Rank(track', n) = Len(order) + 1
    BY <1>1, <1>7, <1>14 DEF InOrder
  <2>4. track'[n].loc.sector = slot.sector
    BY <1>3, <1>6 DEF here
  <2>5. InOrder'
    <3>1. \A k \in EndsOf(track') :
             Rank(track', k) \in DOMAIN order' /\ track'[k].loc.sector = order'[Rank(track', k)]
      <4> TAKE k \in EndsOf(track')
      <4>1. CASE k = n
        BY <2>2, <2>3, <2>4, <4>1
      <4>2. CASE k # n
        <5>1. k \in EndsOf(track) /\ k \in DOMAIN track
          BY <1>7, <2>3, <4>2
        <5>2. Rank(track', k) = Rank(track, k) /\ track'[k] = track[k]
          BY <1>6, <1>7, <5>1
        <5>3. Rank(track, k) \in DOMAIN order /\ track[k].loc.sector = order[Rank(track, k)]
          BY <1>1, <5>1 DEF InOrder
        <5>4. \A i \in DOMAIN order : i \in DOMAIN order' /\ order'[i] = order[i]
          BY <2>2
        <5> QED BY <5>2, <5>3, <5>4
      <4> QED BY <4>1, <4>2
    <3>2. ASSUME NEW i \in DOMAIN order'
          PROVE  \E k \in EndsOf(track') : Rank(track', k) = i
      <4>1. CASE i = Len(order) + 1
        BY <2>3, <4>1
      <4>2. CASE i # Len(order) + 1
        <5>1. i \in DOMAIN order
          BY <2>2, <4>2
        <5>2. PICK k \in EndsOf(track) : Rank(track, k) = i
          BY <1>1, <5>1 DEF InOrder
        <5> QED BY <1>7, <2>3, <5>2
      <4> QED BY <4>1, <4>2
    <3>3. Rank(track, Len(track))' = Len(order')
      BY <1>6, <1>8, <2>2, <2>3
    <3>4. \A k \in EndsOf(track)' : Rank(track, k)' \in DOMAIN order' /\ track'[k].loc.sector = order'[Rank(track, k)']
      BY <1>8, <3>1
    <3>5. \A i \in DOMAIN order' : \E k \in EndsOf(track)' : Rank(track, k)' = i
      BY <1>8, <3>2
    <3> QED BY <3>3, <3>4, <3>5 DEF InOrder
  <2>6. LastAgain'
    <3> SUFFICES ASSUME Len(order') >= num_sectors
                 PROVE  /\ slot'.sector = order'[num_sectors]
                        /\ \A i \in num_sectors .. Len(order') : order'[i] = order'[num_sectors]
      BY <1>2 DEF LastAgain
    <3>1. slot'.sector = slot.sector
      BY <1>2, <2>1, <2>2 DEF IncSector
    <3>2. CASE Len(order) + 1 = num_sectors
      BY <1>2, <2>2, <3>1, <3>2
    <3>3. CASE Len(order) >= num_sectors
      <4>1. num_sectors \in DOMAIN order
        BY <1>2, <2>2, <3>3
      <4>2. /\ slot.sector = order[num_sectors] /\ order'[num_sectors] = order[num_sectors]
            /\ \A i \in num_sectors .. Len(order) : order[i] = order[num_sectors]
        BY <1>1, <2>2, <3>3, <4>1 DEF LastAgain
      <4>3. ASSUME NEW i \in num_sectors .. Len(order')
            PROVE  order'[i] = order'[num_sectors]
        <5>1. CASE i = Len(order) + 1
          BY <2>2, <4>2, <5>1
        <5>2. CASE i # Len(order) + 1
          <6>1. i \in num_sectors .. Len(order) /\ i \in DOMAIN order
            BY <1>2, <2>2, <5>2
          <6> QED BY <2>2, <4>2, <6>1
        <5> QED BY <5>1, <5>2
      <4> QED BY <3>1, <4>2, <4>3
    <3> QED BY <1>2, <2>2, <3>2, <3>3
  <2> QED BY <1>11, <1>12, <2>5, <2>6 DEF PlacedInv
<1> QED BY <1>13, <1>14

-----------------------------------------------------------------------------

(* The steps of the writer.                                                    *)

\* ext2emu starts with nothing on its track.
LEMMA InitWriter == Init => WriterInv
<1> SUFFICES ASSUME Init PROVE WriterInv
  OBVIOUS
<1>1. JobInv
  <2>1. drive_params \in Jobs /\ num_sectors = controller.num_sectors
    BY DEF Init
  <2>2. drive_params.cyls[1] \in Nat /\ drive_params.heads[1] \in Nat
    BY <2>1, GeometryAssumption
  <2> QED BY <2>1, <2>2 DEF Init, WriteInit, JobInv
<1>2. WriterType
  <2>1. track_length \in Nat
    BY <1>1, JobFacts
  <2>2. pc = "cyl" /\ ndx = 1 /\ start = 0 /\ special_list_ndx = 0
    BY Zenon DEF Init, WriteInit
  <2> QED BY <2>1, <2>2 DEF WriterType, MAX_SECTORS
<1>3. SlotInv
  BY InitSlots, SlotInvInit
<1>4. PlacedInv
  BY DEF Init, WriteInit, PlacedInv
<1> QED BY <1>1, <1>2, <1>3, <1>4 DEF WriterInv

\* The job stays what it is.
LEMMA JobStays ==
  ASSUME JobInv, drive_params' = drive_params, num_sectors' = num_sectors, cyl' \in Nat, head' \in Nat
  PROVE  JobInv'
BY SameJob DEF JobInv

\* A step to another place, with the slots left alone
LEMMA SameTrack ==
  ASSUME WriterInv, pc' \in {"entry", "written"} => pc \in {"entry", "written"} /\ track' = track,
         UNCHANGED slotVars, drive_params' = drive_params, cyl' = cyl, head' = head,
         start' = start, pc' \in {"cyl", "track", "entry", "written", "done", "exit"}, ndx' = ndx,
         special_list_ndx' \in {0, special_list_ndx}
  PROVE  WriterInv'
<1>1. JobInv /\ WriterType /\ SlotInv
  BY DEF WriterInv
<1>2. JobInv'
  BY <1>1, JobStays DEF JobInv, slotVars, interleaveVars
<1>3. WriterType'
  BY <1>1, SameJob DEF WriterType, slotVars, interleaveVars, MAX_SECTORS
<1>4. SlotInv'
  BY <1>1, SlotInvNext
<1>5. start \in Int
  BY <1>1, JobFacts DEF WriterType
<1>6. PlacedInv'
  <2>1. CASE pc' \in {"entry", "written"}
    BY <1>5, <2>1, SamePlaced
  <2> QED BY <2>1 DEF PlacedInv
<1> QED BY <1>2, <1>3, <1>4, <1>6 DEF WriterInv

\* The entry the writer is at
LEMMA EntryFacts ==
  ASSUME JobInv, WriterType, NEW type, AtEntry(type)
  PROVE  /\ pc = "entry" /\ ndx \in DOMAIN entries /\ entry.type = type
         /\ entry.count \in Nat /\ track_length \in Nat /\ start \in Nat
         /\ type = "TRK_FIELD" => Len(entry.list) \in Nat
<1>1. ndx \in DOMAIN entries
  <2>1. Len(entries) \in Nat /\ DOMAIN entries = 1 .. Len(entries)
    BY JobFacts
  <2>2. ndx <= Len(entries) /\ ndx \in Nat \ {0}
    BY DEF AtEntry, WriterType
  <2> QED BY <2>1, <2>2
<1>2. track_length \in Nat /\ \A k \in DOMAIN entries : entries[k].count \in Nat
  BY JobFacts
<1>3. \A k \in DOMAIN entries : entries[k].type = "TRK_FIELD" => Len(entries[k].list) \in Nat
  BY JobFacts
<1>4. pc = "entry" /\ entry.type = type /\ start \in Nat
  BY <1>2 DEF AtEntry, WriterType
<1>5. entry.count \in Nat
  BY <1>1, <1>2 DEF entry
<1>6. entry.type = "TRK_FIELD" => Len(entry.list) \in Nat
  BY <1>1, <1>3, Zenon DEF entry
<1> QED BY <1>1, <1>2, <1>4, <1>5, <1>6

\* A fill of the layout moves the place of the next part on, and no part.
LEMMA FillPlaced ==
  ASSUME WriterInv, FillEntry
  PROVE  WriterInv'
<1>1. JobInv /\ WriterType /\ SlotInv
  BY DEF WriterInv
<1>2. ndx \in DOMAIN entries /\ entry.count \in Nat /\ track_length \in Nat /\ start \in Nat
  BY <1>1, EntryFacts DEF FillEntry
<1>3. CASE start + entry.count > track_length
  BY <1>1, <1>3, SameTrack DEF FillEntry, Exit, AtEntry, WriterType
<1>4. CASE ~ (start + entry.count > track_length)
  <2>0. /\ start' = start + entry.count /\ ndx' = ndx + 1 /\ pc' = pc
        /\ UNCHANGED slotVars /\ drive_params' = drive_params /\ cyl' = cyl /\ head' = head
        /\ track' = track /\ special_list_ndx' = special_list_ndx
    BY <1>4, Zenon DEF FillEntry
  <2>1. start' \in 0 .. track_length /\ start' >= start
    BY <1>2, <1>4, <2>0
  <2>2. JobInv'
    BY <1>1, <2>0, JobStays DEF JobInv, slotVars, interleaveVars
  <2>3. track_length' = track_length
    BY <2>0, SameJob DEF slotVars, interleaveVars
  <2>4. WriterType'
    BY <1>1, <2>0, <2>1, <2>3 DEF WriterType, MAX_SECTORS
  <2>5. SlotInv'
    BY <1>1, <2>0, SlotInvNext
  <2>6. PlacedInv'
    BY <1>2, <2>0, <2>1, SamePlaced
  <2> QED BY <2>2, <2>4, <2>5, <2>6 DEF WriterInv
<1> QED BY <1>3, <1>4

\* A part that process_field() could make is placed, with another the program ends.
Placed(part) ==
  /\ track' = Append(track, [ndx |-> ndx, at |-> start, gaps |-> gaps, loc |-> here])
  /\ special_list_ndx' = special_list_ndx + Cardinality(part.marks)
  /\ start' = start + entry.count
  /\ ndx' = ndx + 1
  /\ IF Advances(entry) THEN inc_sector ELSE UNCHANGED slotVars
  /\ UNCHANGED <<drive_params, cyl, head, pc, fatal>>

\* A part is placed, or ext2emu gives up.
LEMMA PartOrExit ==
  ASSUME NEW part, PlacePart(part)
  PROVE  (Going(part) /\ Placed(part)) \/ \E why : Exit(why)
BY Zenon DEF PlacePart, Placed, Going

\* Giving up leaves the track as it was.
LEMMA ExitFacts ==
  ASSUME NEW why, Exit(why)
  PROVE  /\ pc' = "exit" /\ UNCHANGED <<drive_params, cyl, head, ndx, start, track, special_list_ndx, slotVars>>
BY DEF Exit

\* A part goes where the parts before it end, with the sector that is taken.
LEMMA FieldPlaced ==
  ASSUME WriterInv, FieldEntry
  PROVE  WriterInv'
<1>1. JobInv /\ WriterType /\ SlotInv
  BY DEF WriterInv
<1>2. ndx \in DOMAIN entries /\ pc = "entry" /\ entry.type = "TRK_FIELD"
  BY <1>1, EntryFacts DEF FieldEntry
<1>3. entry.count \in Nat /\ track_length \in Nat /\ start \in Nat /\ Len(entry.list) \in Nat
  BY <1>1, EntryFacts DEF FieldEntry
<1> DEFINE part == process_field(entry, here)
<1>4. /\ start + entry.count >= track_length => \E why : Exit(why)
      /\ ~ (start + entry.count >= track_length) => PlacePart(part)
  BY DEF FieldEntry
<1>5. ASSUME NEW why, Exit(why) PROVE WriterInv'
  BY <1>1, <1>5, SameTrack, ExitFacts DEF WriterType
<1>6. ASSUME ~ (start + entry.count >= track_length), Going(part), Placed(part)
      PROVE  WriterInv'
  <2>1. MarksFit(part)
    BY <1>1, <1>3, <1>6, PartMarksFit DEF WriterType
  <2> HIDE DEF part
  <2>2. special_list_ndx' \in 0 .. MAX_SECTORS * 5
    <3>1. Cardinality(part.marks) \in Nat
      BY <2>1, FS_CardinalityType DEF MarksFit
    <3>2. special_list_ndx' = special_list_ndx + Cardinality(part.marks) /\ special_list_ndx \in Nat
      BY <1>1, <1>6 DEF Placed, WriterType
    <3>3. special_list_ndx + Cardinality(part.marks) <= MAX_SECTORS * 5
      BY <2>1 DEF MarksFit
    <3> QED BY <3>1, <3>2, <3>3 DEF MAX_SECTORS
  <2>3. /\ start' = start + entry.count /\ start' \in 0 .. track_length /\ ndx' = ndx + 1 /\ pc' = pc
        /\ drive_params' = drive_params /\ cyl' = cyl /\ head' = head
        /\ inc_sector \/ UNCHANGED slotVars
    BY <1>3, <1>6 DEF Placed
  <2>4. num_sectors' = num_sectors
    BY <2>3 DEF inc_sector, slotVars, interleaveVars
  <2>5. JobInv'
    BY <1>1, <2>3, <2>4, JobStays DEF JobInv
  <2>6. WriterType'
    BY <1>1, <2>2, <2>3, <2>4, SameJob DEF WriterType, MAX_SECTORS
  <2>7. SlotInv'
    BY <1>1, <2>3, SlotInvNext DEF SlotNext
  <2>8. PlacedInv'
    BY <1>2, <1>6, PartPlaced DEF Placed
  <2> QED BY <2>5, <2>6, <2>7, <2>8 DEF WriterInv
<1> HIDE DEF part
<1> QED BY <1>3, <1>4, <1>5, <1>6, PartOrExit

\* The steps between the tracks
LEMMA TrackStarts ==
  ASSUME WriterInv, StartCyl \/ StartTrack \/ EndTrack
  PROVE  WriterInv'
<1>1. JobInv /\ WriterType /\ SlotInv
  BY DEF WriterInv
<1>2. drive_params' = drive_params /\ num_sectors' = num_sectors
  BY DEF StartCyl, StartTrack, EndTrack, start_new_cyl, start_new_track, slotVars, interleaveVars
<1>3. SlotInv'
  <2>1. SlotNext \/ UNCHANGED slotVars
    BY DEF StartCyl, StartTrack, EndTrack, SlotNext
  <2> QED BY <1>1, <2>1, SlotInvNext
<1>4. cyl' \in Nat /\ head' \in Nat
  <2>1. drive_params.heads[1] \in Nat
    BY <1>1, JobFacts
  <2> QED BY <1>1, <2>1 DEF JobInv, StartCyl, StartTrack, EndTrack
<1>5. JobInv'
  BY <1>1, <1>2, <1>4, JobStays
<1>6. start' \in 0 .. track_length' /\ special_list_ndx' \in 0 .. MAX_SECTORS * 5 /\ ndx' \in Nat \ {0}
  <2>1. track_length' = track_length /\ track_length \in Nat
    BY <1>1, <1>2, SameJob, JobFacts
  <2>2. start' \in {0, start} /\ ndx' \in {1, ndx} /\ special_list_ndx' \in {0, special_list_ndx}
    BY DEF StartCyl, StartTrack, EndTrack
  <2> QED BY <1>1, <2>1, <2>2 DEF WriterType, MAX_SECTORS
<1>7. WriterType'
  BY <1>6 DEF WriterType, StartCyl, StartTrack, EndTrack
<1>8. PlacedInv'
  <2>1. CASE StartCyl
    BY <2>1 DEF StartCyl, PlacedInv
  <2>2. CASE StartTrack
    <3>1. track' = <<>> /\ order' = <<>> /\ start' = 0
      BY <2>2 DEF StartTrack, start_new_track
    <3> QED BY <1>3, <1>5, <3>1, EmptyPlaced
  <2>3. CASE EndTrack
    <3>1. start \in Int
      BY <1>1, JobFacts DEF WriterType
    <3>2. pc = "entry" /\ track' = track /\ UNCHANGED slotVars /\ cyl' = cyl /\ head' = head /\ start' = start
      BY <2>3 DEF EndTrack
    <3> QED BY <1>2, <3>1, <3>2, SamePlaced
  <2> QED BY <2>1, <2>2, <2>3
<1> QED BY <1>3, <1>5, <1>7, <1>8 DEF WriterInv

\* So every step that writes a track keeps what the parts are.
LEMMA WriterStep == WriterInv /\ WriteTrack => WriterInv'
BY FillPlaced, FieldPlaced, TrackStarts DEF WriteTrack

\* The steps of the reader leave the writer alone.
LEMMA ReaderStep ==
  ASSUME WriterInv,
         \/ mfm_decode_track \/ PassPart \/ mfm_end_track \/ UNCHANGED vars
         \/ \E what \in {"PROCESS_HEADER", "PROCESS_HEADER2", "PROCESS_DATA"} : ReadPart(what)
  PROVE  UNCHANGED <<writeVars, slotVars>> /\ WriterInv'
<1>1. UNCHANGED <<writeVars, slotVars>>
  <2>1. ASSUME NEW what, ReadPart(what) PROVE UNCHANGED <<writeVars, slotVars>>
    BY <2>1 DEF ReadPart, TakeBytes
  <2>2. CASE mfm_decode_track \/ PassPart \/ mfm_end_track
    BY <2>2 DEF mfm_decode_track, PassPart, mfm_end_track
  <2>3. CASE UNCHANGED vars
    BY <2>3 DEF vars
  <2> QED BY <2>1, <2>2, <2>3
<1>2. WriterInv'
  <2>1. pc \in {"cyl", "track", "entry", "written", "done", "exit"}
    BY DEF WriterInv, WriterType
  <2> QED BY <1>1, <2>1, SameTrack DEF writeVars
<1> QED BY <1>1, <1>2

\* On to the next track
LEMMA NextTrackStep ==
  ASSUME WriterInv, NextRead
  PROVE  WriterInv'
<1>1. JobInv /\ WriterType /\ SlotInv
  BY DEF WriterInv
<1>2. /\ drive_params' = drive_params /\ UNCHANGED slotVars /\ start' = start /\ ndx' = ndx
      /\ special_list_ndx' = special_list_ndx /\ pc' \in {"track", "cyl", "done"}
  BY DEF NextRead, NextTrack
<1>3. cyl' \in Nat /\ head' \in Nat
  <2>1. \A s \in Seq(Nat) : \A x : \A i \in Following(s, x) : s[i] \in Nat
    BY DEF Following
  <2>2. drive_params.cyls \in Seq(Nat) /\ drive_params.heads \in Seq(Nat)
    BY <1>1, JobFacts
  <2> QED BY <1>1, <2>1, <2>2 DEF JobInv, NextRead, NextTrack
<1>4. JobInv'
  BY <1>1, <1>2, <1>3, JobStays DEF slotVars, interleaveVars
<1>5. WriterType'
  BY <1>1, <1>2, SameJob DEF WriterType, slotVars, interleaveVars, MAX_SECTORS
<1>6. SlotInv'
  BY <1>1, <1>2, SlotInvNext
<1>7. PlacedInv'
  BY <1>2 DEF PlacedInv
<1> QED BY <1>4, <1>5, <1>6, <1>7 DEF WriterInv

\* So do all steps.
LEMMA WriterNext == WriterInv /\ [Next]_vars => WriterInv'
BY WriterStep, ReaderStep, NextTrackStep DEF Next, Write

\* The parts of a track are where the writer has them, all the time.
LEMMA WriterInvAlways == Spec => []WriterInv
BY WriterNext, InitWriter, PTL DEF Spec

\* What the invariant of the writer says of a written track
LEMMA WrittenPlaced == WriterInv => SectorsPlaced
<1> SUFFICES ASSUME WriterInv, pc = "written" PROVE SectorsPlaced
  BY DEF SectorsPlaced
<1> DEFINE first == {k \in EndsOf(track) : Rank(track, k) <= num_sectors}
<1>1. PartsInv /\ SameSector /\ InOrder /\ LastAgain /\ JobInv /\ WriterType /\ SlotInv
  BY DEF WriterInv, PlacedInv
<1>2. PICK S : track \in Seq(S)
  BY <1>1 DEF PartsInv
<1>3. Len(track) \in Nat /\ DOMAIN track = 1 .. Len(track)
  BY <1>2
<1>4. num_sectors \in Nat \ {0} /\ start <= track_length
  <2>1. num_sectors \in Nat \ {0}
    BY <1>1, JobFacts
  <2>2. track_length \in Nat
    BY <1>1, JobFacts
  <2> QED BY <1>1, <2>1, <2>2 DEF WriterType
<1>5. /\ \A k : Rank(track, k) \in Nat
      /\ \A j, k \in EndsOf(track) : j < k => Rank(track, j) < Rank(track, k)
  BY <1>2, RankFacts
<1>6. \A k \in EndsOf(track) : k \in Nat /\ Rank(track, k) \in DOMAIN order
                               /\ track[k].loc.sector = order[Rank(track, k)]
  BY <1>1, <1>3 DEF InOrder, EndsOf
<1>7. order \in Seq(Sectors) /\ Len(order) \in Nat /\ DOMAIN order = 1 .. Len(order)
  <2>1. order \in Seq(Sectors)
    BY <1>1 DEF SlotInv, SlotTypeOK
  <2> QED BY <2>1
<1>8. ASSUME NEW k \in DOMAIN track
      PROVE  EndOf(track, k) <= IF k = Len(track) THEN track_length ELSE track[k + 1].at
  <2>1. CASE k = Len(track)
    <3>1. Len(track) > 0 /\ EndOf(track, Len(track)) <= start
      BY <1>1, <1>3, <2>1 DEF PartsInv
    <3>2. EndOf(track, k) \in Int /\ start \in Int /\ track_length \in Int
      <4>1. \A l \in DOMAIN entries : entries[l].count \in Nat
        BY <1>1, JobFacts
      <4>2. track_length \in Nat
        BY <1>1, JobFacts
      <4>3. track[k].ndx \in DOMAIN entries /\ track[k].at \in Nat
        BY <1>1 DEF PartsInv
      <4> QED BY <1>1, <4>1, <4>2, <4>3 DEF EndOf, WriterType
    <3> QED BY <1>4, <2>1, <3>1, <3>2
  <2>2. CASE k # Len(track)
    <3>1. k \in 1 .. Len(track) - 1
      BY <1>3, <2>2
    <3> QED BY <1>1, <2>2, <3>1 DEF PartsInv
  <2> QED BY <2>1, <2>2
<1>9. ASSUME NEW j \in first, NEW k \in first, track[j].loc.sector = track[k].loc.sector
      PROVE  j = k
  <2>1. \A i, l \in DOMAIN order : i < l /\ l <= num_sectors => order[i] # order[l]
    BY <1>1 DEF SlotInv, Distinct
  <2>2. /\ Rank(track, j) \in DOMAIN order /\ Rank(track, k) \in DOMAIN order
        /\ order[Rank(track, j)] = order[Rank(track, k)]
        /\ Rank(track, j) <= num_sectors /\ Rank(track, k) <= num_sectors
    BY <1>6, <1>9
  <2>3. Rank(track, j) = Rank(track, k)
    BY <1>5, <2>1, <2>2
  <2> QED BY <1>5, <1>6, <2>3
<1>10. ASSUME Cardinality(EndsOf(track)) >= num_sectors
       PROVE  {track[k].loc.sector : k \in first} = Sectors
  <2>1. EndsOf(track) = EndsTo(track, Len(track))
    BY <1>3 DEF EndsOf, EndsTo
  <2>2. Len(order) >= num_sectors
    BY <1>1, <1>10, <2>1 DEF InOrder, Rank
  <2>3. \A i \in DOMAIN order : order[i] \in Sectors
    BY <1>7
  <2>4. ASSUME NEW s \in Sectors PROVE \E k \in first : track[k].loc.sector = s
    <3>1. PICK i \in DOMAIN order : order[i] = s
      BY <1>1, <2>2 DEF SlotInv, UsedIsOrder, UsedCounted
    <3>2. PICK n \in DOMAIN order : n <= num_sectors /\ order[n] = s
      <4>1. CASE i <= num_sectors
        BY <3>1, <4>1
      <4>2. CASE ~ (i <= num_sectors)
        <5>1. i \in num_sectors .. Len(order) /\ num_sectors \in DOMAIN order
          BY <1>4, <1>7, <4>2
        <5> QED BY <1>1, <1>4, <2>2, <3>1, <5>1 DEF LastAgain
      <4> QED BY <4>1, <4>2
    <3>3. PICK k \in EndsOf(track) : Rank(track, k) = n
      BY <1>1 DEF InOrder
    <3> QED BY <1>6, <3>2, <3>3
  <2>5. \A k \in first : track[k].loc.sector \in Sectors
    BY <1>6, <2>3
  <2> HIDE DEF first
  <2> QED BY <2>4, <2>5
<1>11. \A k \in 1 .. Len(track) - 1 : k \notin EndsOf(track) => track[k + 1].loc = track[k].loc
  BY <1>1 DEF SameSector
<1> QED BY <1>8, <1>9, <1>10, <1>11, Zenon DEF SectorsPlaced, EndOf, EndsOf, EndsTo, Rank

\* Of every format and interleave: on a track ext2emu has written (process_track()) no part
\* lies over another or past the end, the parts between two that end a sector are of one
\* sector, and the parts that end a sector, num_sectors of them, end each sector once.
THEOREM SectorsPlacedAlways == Spec => []SectorsPlaced
BY WriterInvAlways, WrittenPlaced, PTL

-----------------------------------------------------------------------------

(* The header a decoder finds.                                                 *)

ByteString == [0 .. 10 -> 0 .. 255]
NumbersOK(h) == h.cyl \in Nat /\ h.head \in Nat
HeaderOK(h) == NumbersOK(h) /\ h.lba = -1
TrackOK(exp) == exp.cyl \in Nat /\ exp.head \in Nat

\* The bits that are cut out of a byte are a small number.
LEMMA CutRange ==
  \A x \in Nat :
    /\ Cut(x, 0, 1) \in 0 .. 1 /\ Cut(x, 1, 1) \in 0 .. 1 /\ Cut(x, 2, 1) \in 0 .. 1
    /\ Cut(x, 3, 1) \in 0 .. 1 /\ Cut(x, 4, 1) \in 0 .. 1 /\ Cut(x, 5, 1) \in 0 .. 1
    /\ Cut(x, 6, 1) \in 0 .. 1 /\ Cut(x, 7, 1) \in 0 .. 1
    /\ Cut(x, 4, 4) \in Nat /\ Cut(x, 4, 3) \in Nat /\ Cut(x, 5, 3) \in Nat /\ Cut(x, 6, 2) \in Nat
BY DEF Cut

\* A byte read off the track is one, whatever lies there,
LEMMA ByteRange ==
  ASSUME NEW p, NEW i
  PROVE  Byte(p, i) \in 0 .. 255
<1>1. \A o : Bit(p, o) \in 0 .. 1
  BY DEF Bit
<1> QED BY <1>1 DEF Byte

\* and so is one with its bits reversed,
LEMMA ReversedRange == \A x \in Nat : REV_BYTE(x) \in 0 .. 255 /\ REV_BYTE(x) \in Nat
<1> TAKE x \in Nat
<1>1. /\ Cut(x, 0, 1) \in 0 .. 1 /\ Cut(x, 1, 1) \in 0 .. 1 /\ Cut(x, 2, 1) \in 0 .. 1
      /\ Cut(x, 3, 1) \in 0 .. 1 /\ Cut(x, 4, 1) \in 0 .. 1 /\ Cut(x, 5, 1) \in 0 .. 1
      /\ Cut(x, 6, 1) \in 0 .. 1 /\ Cut(x, 7, 1) \in 0 .. 1
  BY CutRange
<1> QED BY <1>1 DEF REV_BYTE

\* so each decoder is given a string of bytes.
LEMMA BytesRange ==
  ASSUME NEW dp, NEW p, NEW base
  PROVE  Bytes(dp, p, base) \in ByteString
<1>1. ASSUME NEW i \in 0 .. 10
      PROVE  (IF dp.controller = "CONTROLLER_SAGA_FOX" THEN REV_BYTE(Byte(p, base + i))
              ELSE Byte(p, base + i)) \in 0 .. 255
  <2>1. Byte(p, base + i) \in 0 .. 255 /\ Byte(p, base + i) \in Nat
    BY ByteRange
  <2> HIDE DEF Byte
  <2>2. REV_BYTE(Byte(p, base + i)) \in 0 .. 255
    BY <2>1, ReversedRange, Zenon
  <2> QED BY <2>1, <2>2
<1> QED BY <1>1 DEF Bytes, ByteString

\* What decoders do with two bytes gives a natural number,
LEMMA Sums ==
  \A x, y \in Nat : /\ 256 * x + y \in Nat /\ x + 256 * y \in Nat /\ 8 * x + y \in Nat /\ x + 8 * y \in Nat
                     /\ x + 16 * y \in Nat /\ x + 4 * y \in Nat
OBVIOUS

\* and with a part of one byte.
LEMMA Parts ==
  \A x \in Nat : /\ x % 4 \in Nat /\ x % 8 \in Nat /\ x % 16 \in Nat /\ x % 32 \in Nat /\ x % 64 \in Nat
                  /\ x \div 32 \in Nat
OBVIOUS

\* The bytes of a header are natural numbers,
LEMMA ByteAt ==
  ASSUME NEW b \in ByteString
  PROVE  /\ b[0] \in Nat /\ b[1] \in Nat /\ b[2] \in Nat /\ b[3] \in Nat /\ b[4] \in Nat
         /\ b[5] \in Nat /\ b[6] \in Nat /\ b[7] \in Nat /\ b[8] \in Nat /\ b[9] \in Nat
         /\ 255 - b[1] \in Nat
<1>1. \A i \in 0 .. 10 : b[i] \in 0 .. 255
  BY DEF ByteString
<1>2. \A x \in 0 .. 255 : x \in Nat /\ 255 - x \in Nat
  OBVIOUS
<1>3. \A i \in 0 .. 10 : b[i] \in Nat /\ 255 - b[i] \in Nat
  BY <1>1, <1>2
<1> QED BY <1>3

\* and so are the bits cut from them.
LEMMA CutNat ==
  \A x \in Nat : /\ Cut(x, 4, 4) \in Nat /\ Cut(x, 4, 3) \in Nat /\ Cut(x, 5, 3) \in Nat /\ Cut(x, 6, 2) \in Nat
                 /\ Cut(x, 6, 1) \in Nat /\ Cut(x, 5, 3) + 1 \in Nat
BY DEF Cut

\* Each decoder finds a cylinder and a head in any bytes: those of the OMTI formats,
LEMMA OmtiOK ==
  ASSUME NEW b \in ByteString
  PROVE  HeaderOK(OmtiHeader(b))
<1>1. 256 * b[2] + b[3] \in Nat /\ b[4] % 16 \in Nat
  BY ByteAt, CutNat, Sums, Parts, Zenon
<1> QED BY <1>1 DEF HeaderOK, NumbersOK, Header, OmtiHeader

\* CONTROLLER_SHUGART_SA1400
LEMMA Sa1400OK ==
  ASSUME NEW b \in ByteString
  PROVE  HeaderOK(Sa1400Header(b))
<1>1. b[2] \in Nat /\ b[3] \in Nat
  BY ByteAt, CutNat, Sums, Parts, Zenon
<1> QED BY <1>1 DEF HeaderOK, NumbersOK, Header, Sa1400Header

\* CONTROLLER_MYARC_HFDC, whose first byte repeats bits of the cylinder
LEMMA MyarcOK ==
  ASSUME NEW b \in ByteString, NEW dp
  PROVE  HeaderOK(MyarcHeader(dp, b))
<1>1. 256 * Cut(b[3], 4, 4) + b[2] \in Nat /\ b[3] % 16 \in Nat
  BY ByteAt, CutNat, Sums, Parts, Zenon
<1> QED BY <1>1 DEF HeaderOK, NumbersOK, Header, MyarcHeader

\* CONTROLLER_MVME320
LEMMA Mvme320OK ==
  ASSUME NEW b \in ByteString
  PROVE  HeaderOK(Mvme320Header(b))
<1>1. 256 * b[2] + b[3] \in Nat /\ b[4] \in Nat
  BY ByteAt, CutNat, Sums, Parts, Zenon
<1> QED BY <1>1 DEF HeaderOK, NumbersOK, Header, Mvme320Header

\* CONTROLLER_CTM9016, FUJITSU_K_10R and ACORN_A310_PODULE
LEMMA MacbottomOK ==
  ASSUME NEW b \in ByteString
  PROVE  HeaderOK(MacbottomHeader(b))
<1>1. 256 * b[1] + b[2] \in Nat /\ b[3] \in Nat
  BY ByteAt, CutNat, Sums, Parts, Zenon
<1> QED BY <1>1 DEF HeaderOK, NumbersOK, Header, MacbottomHeader

\* The AT&T 3B2 formats
LEMMA Att3b2OK ==
  ASSUME NEW b \in ByteString
  PROVE  HeaderOK(Att3b2Header(b))
<1>1. b[2] + 256 * (255 - b[1]) \in Nat /\ b[3] \in Nat
  <2> DEFINE y == 255 - b[1]
  <2>1. b[2] \in Nat /\ b[3] \in Nat /\ y \in Nat
    BY ByteAt
  <2> HIDE DEF y
  <2>2. b[2] + 256 * y \in Nat
    BY <2>1, Sums, Zenon
  <2> QED BY <2>1, <2>2 DEF y
<1> QED BY <1>1 DEF HeaderOK, NumbersOK, Header, Att3b2Header

\* The ISBC_215 formats, CONTROLLER_SM_1810_512B and CONTROLLER_DSD_5217_512B
LEMMA Isbc215OK ==
  ASSUME NEW b \in ByteString, NEW id
  PROVE  HeaderOK(Isbc215Header(b, id))
<1>1. 256 * (b[2] % 16) + b[3] \in Nat /\ b[5] \in Nat
  BY ByteAt, CutNat, Sums, Parts, Zenon
<1> QED BY <1>1 DEF HeaderOK, NumbersOK, Header, Isbc215Header

\* CONTROLLER_CONVERGENT_AWS
LEMMA ConvergentOK ==
  ASSUME NEW b \in ByteString
  PROVE  HeaderOK(ConvergentHeader(b))
<1>1. 256 * (b[2] % 16) + b[3] \in Nat /\ Cut(b[2], 4, 4) \in Nat
  BY ByteAt, CutNat, Sums, Parts, Zenon
<1> QED BY <1>1 DEF HeaderOK, NumbersOK, Header, ConvergentHeader

\* The formats of xebec_mfm_decoder.c
LEMMA XebecOK ==
  ASSUME NEW b \in ByteString
  PROVE  HeaderOK(xebec_header(b))
<1>1. 256 * b[3] + b[4] \in Nat /\ b[5] % 16 \in Nat
  BY ByteAt, CutNat, Sums, Parts, Zenon
<1> QED BY <1>1 DEF HeaderOK, NumbersOK, Header, xebec_header

\* The formats of tagged_mfm_decoder.c
LEMMA TaggedOK ==
  ASSUME NEW b \in ByteString
  PROVE  HeaderOK(tagged_header(b))
<1>1. b[3] + 256 * (b[2] % 16) \in Nat /\ b[4] \in Nat
  BY ByteAt, CutNat, Sums, Parts, Zenon
<1> QED BY <1>1 DEF HeaderOK, NumbersOK, Header, tagged_header

\* CONTROLLER_ADAPTEC_4000_18SECTOR_512B, whose headers have only a block number
LEMMA AdaptecOK ==
  ASSUME NEW b \in ByteString, NEW exp, TrackOK(exp), NEW k
  PROVE  NumbersOK(AdaptecHeader(b, exp, k))
<1>1. exp.cyl \in Nat /\ exp.head \in Nat
  BY DEF TrackOK
<1> QED BY <1>1 DEF HeaderOK, NumbersOK, Header, AdaptecHeader

\* CONTROLLER_SHUGART_1610; the cylinder and head of a replaced track are those the heads are on
LEMMA Shugart1610OK ==
  ASSUME NEW b \in ByteString, NEW exp, TrackOK(exp)
  PROVE  HeaderOK(Shugart1610Header(b, exp))
<1>1. 256 * Cut(b[3], 4, 3) + b[2] \in Nat /\ b[3] % 8 \in Nat
  BY ByteAt, CutNat, Sums, Parts, Zenon
<1> QED BY <1>1 DEF HeaderOK, NumbersOK, Header, TrackOK, Shugart1610Header

\* The cylinder of the Western Digital formats, with its high bits in the mark
LEMMA WdCylinder ==
  ASSUME NEW b \in ByteString
  PROVE  WdCyl(b) \in Nat
<1>1. \A x : cyl_high_lookup(x) = -1 \/ cyl_high_lookup(x) \in Nat
  BY DEF cyl_high_lookup
<1> DEFINE high == IF CylHigh(b) = -1 THEN 0 ELSE CylHigh(b)
<1>2. high \in Nat
  BY <1>1 DEF CylHigh
<1>3. WdCyl(b) = 256 * high + b[2]
  BY DEF WdCyl
<1> HIDE DEF high
<1>4. b[2] \in Nat
  BY ByteAt
<1>5. 256 * high + b[2] \in Nat
  BY <1>2, <1>4, Sums, Zenon
<1> QED BY <1>3, <1>5

\* The Western Digital formats
LEMMA Wd1006OK ==
  ASSUME NEW b \in ByteString, NEW dp
  PROVE  HeaderOK(Wd1006Header(dp, b))
<1> DEFINE upper == Cut(b[4], 5, 3)
           fourth == IF upper % 2 = 0 /\ Cut(b[3], 3, 1) = 1 THEN upper + 1 ELSE upper
           code == IF dp.controller = "CONTROLLER_WD_3B1" THEN (b[3] % 8) + 8 * fourth ELSE b[3] % 16
<1>1. code \in Nat
  <2>1. fourth \in Nat /\ b[3] % 8 \in Nat /\ b[3] % 16 \in Nat
    BY ByteAt, CutNat, Parts
  <2> HIDE DEF fourth
  <2>2. (b[3] % 8) + 8 * fourth \in Nat
    BY <2>1, Sums, Zenon
  <2> QED BY <2>1, <2>2
<1>2. Wd1006Header(dp, b).cyl = WdCyl(b) /\ Wd1006Header(dp, b).head = code
      /\ Wd1006Header(dp, b).lba = -1
  BY DEF Wd1006Header, Header
<1> QED BY <1>1, <1>2, WdCylinder DEF HeaderOK, NumbersOK

\* The ISBC_214 formats and CONTROLLER_ELEKTRONIKA_85
LEMMA Isbc214OK ==
  ASSUME NEW b \in ByteString
  PROVE  HeaderOK(Isbc214Header(b)) /\ HeaderOK(ElektronikaHeader(b))
<1>1. WdCyl(b) \in Nat /\ b[3] % 16 \in Nat
  BY ByteAt, WdCylinder, Parts, Zenon
<1> QED BY <1>1 DEF HeaderOK, NumbersOK, Header, Isbc214Header, ElektronikaHeader

\* CONTROLLER_TEKTRONIX_6130
LEMMA TektronixOK ==
  ASSUME NEW b \in ByteString
  PROVE  HeaderOK(TektronixHeader(b))
<1>1. WdCyl(b) \in Nat /\ (b[3] % 8) + 8 * Cut(b[4], 6, 1) \in Nat
  BY ByteAt, WdCylinder, CutNat, Parts, Sums, Zenon
<1> QED BY <1>1 DEF HeaderOK, NumbersOK, Header, TektronixHeader

\* The DTC formats, which keep as many bits of the head as the drive has
LEMMA DtcOK ==
  ASSUME NEW b \in ByteString, NEW dp, dp.num_head \in Nat
  PROVE  HeaderOK(DtcHeader(dp, b))
<1> DEFINE mask == <<1, 1, 1, 3, 3, 7, 7, 7, 7>>
           code == b[3] % 16
           masked == IF dp.num_head < 9 THEN code % (mask[dp.num_head + 1] + 1) ELSE code
<1>1. code \in Nat
  BY ByteAt, Parts
<1>2. \A x \in Nat : x % (1 + 1) \in Nat /\ x % (3 + 1) \in Nat /\ x % (7 + 1) \in Nat
  OBVIOUS
<1>3. dp.num_head < 9 => mask[dp.num_head + 1] \in {1, 3, 7}
  OBVIOUS
<1> HIDE DEF code, mask
<1>4. masked \in Nat
  BY <1>1, <1>2, <1>3
<1>5. 256 * Cut(b[3], 4, 3) + b[2] \in Nat
  BY ByteAt, CutNat, Sums, Zenon
<1>6. DtcHeader(dp, b).cyl = 256 * Cut(b[3], 4, 3) + b[2] /\ DtcHeader(dp, b).head = masked
      /\ DtcHeader(dp, b).lba = -1
  BY DEF DtcHeader, Header, code, mask
<1> QED BY <1>4, <1>5, <1>6 DEF HeaderOK, NumbersOK

\* CONTROLLER_SYMBOLICS_3640
LEMMA Symbolics3640OK ==
  ASSUME NEW b \in ByteString
  PROVE  HeaderOK(Symbolics3640Header(b))
<1> DEFINE r7 == REV_BYTE(b[7])
           r8 == REV_BYTE(b[8])
           r9 == REV_BYTE(b[9])
<1>1. r7 \in Nat /\ r8 \in Nat /\ r9 \in Nat
  BY ByteAt, ReversedRange, Zenon
<1>2. Symbolics3640Header(b).cyl = Cut(r8, 4, 4) + 16 * r9
      /\ Symbolics3640Header(b).head = Cut(r7, 6, 2) + 4 * (r8 % 4)
      /\ Symbolics3640Header(b).lba = -1
  BY DEF Symbolics3640Header, Header
<1> HIDE DEF r7, r8, r9
<1>3. Cut(r8, 4, 4) + 16 * r9 \in Nat /\ Cut(r7, 6, 2) + 4 * (r8 % 4) \in Nat
  BY <1>1, CutNat, Parts, Sums, Zenon
<1> QED BY <1>2, <1>3 DEF HeaderOK, NumbersOK

\* CONTROLLER_SEAGATE_ST11M; a replaced track's header is taken for that of the track expected
LEMMA SeagateOK ==
  ASSUME NEW b \in ByteString, NEW exp, TrackOK(exp)
  PROVE  HeaderOK(SeagateHeader(b, exp))
<1>1. 256 * Cut(b[2], 6, 2) + b[3] + 1 \in Nat /\ b[2] % 16 \in Nat /\ b[3] \in Nat
  <2>1. 256 * Cut(b[2], 6, 2) + b[3] \in Nat /\ b[2] % 16 \in Nat /\ b[3] \in Nat
    BY ByteAt, CutNat, Sums, Parts, Zenon
  <2> QED BY <2>1
<1> QED BY <1>1 DEF HeaderOK, NumbersOK, Header, TrackOK, SeagateHeader

\* The formats of corvus_mfm_decoder.c
LEMMA CorvusOK ==
  ASSUME NEW b \in ByteString, NEW c \in CORVUS
  PROVE  HeaderOK(corvus_header(c, b))
<1>1. b[1] + 256 * b[2] \in Nat /\ b[6] + 256 * b[7] \in Nat /\ b[0] + 256 * b[1] \in Nat
  <2>1. b[0] \in Nat /\ b[1] \in Nat /\ b[2] \in Nat /\ b[6] \in Nat /\ b[7] \in Nat
    BY ByteAt
  <2>2. b[1] + 256 * b[2] \in Nat
    BY <2>1, Sums, Zenon
  <2>3. b[6] + 256 * b[7] \in Nat
    BY <2>1, Sums, Zenon
  <2>4. b[0] + 256 * b[1] \in Nat
    BY <2>1, Sums, Zenon
  <2> QED BY <2>2, <2>3, <2>4
<1>2. b[0] \div 32 \in Nat /\ b[8] \in Nat /\ b[2] \in Nat /\ b[3] \in Nat
  BY ByteAt, Parts, Zenon
<1> QED BY <1>1, <1>2 DEF HeaderOK, NumbersOK, Header, corvus_header, CORVUS

\* The formats of northstar_mfm_decoder.c
LEMMA NorthstarOK ==
  ASSUME NEW b \in ByteString, NEW c
  PROVE  HeaderOK(northstar_header(c, b))
<1>1. /\ b[1] + 256 * Cut(b[0], 4, 4) \in Nat /\ b[2] % 16 \in Nat
      /\ 8 * b[2] + Cut(b[3], 5, 3) \in Nat /\ b[1] % 16 \in Nat
  BY ByteAt, CutNat, Sums, Parts, Zenon
<1> QED BY <1>1 DEF HeaderOK, NumbersOK, Header, northstar_header

\* The formats of perq_mfm_decoder.c
LEMMA PerqOK ==
  ASSUME NEW b \in ByteString
  PROVE  HeaderOK(perq_header(b))
<1> DEFINE r0 == REV_BYTE(b[0])
           r1 == REV_BYTE(b[1])
<1>1. r0 \in Nat /\ r1 \in Nat
  BY ByteAt, ReversedRange, Zenon
<1>2. perq_header(b).cyl = r0 + 256 * Cut(r1, 4, 4) /\ perq_header(b).head = r1 % 16
      /\ perq_header(b).lba = -1
  BY DEF perq_header, Header
<1> HIDE DEF r0, r1
<1>3. r0 + 256 * Cut(r1, 4, 4) \in Nat /\ r1 % 16 \in Nat
  BY <1>1, CutNat, Parts, Sums, Zenon
<1> QED BY <1>2, <1>3 DEF HeaderOK, NumbersOK

\* The rows of mfm_controller_info
LEMMA ControllerNames ==
  DOMAIN mfm_controller_info =
  {"CONTROLLER_ISBC_214_128B", "CONTROLLER_ISBC_214_256B", "CONTROLLER_ISBC_214_512B",
    "CONTROLLER_ISBC_214_1024B", "CONTROLLER_MICROBEE_WD1002_05",
    "CONTROLLER_TEKTRONIX_6130", "CONTROLLER_WD_3B1", "CONTROLLER_TANDY_16B",
    "CONTROLLER_CORVUS_OMNI", "CONTROLLER_DTC", "CONTROLLER_DTC_520_256B",
    "CONTROLLER_DTC_520_512B", "CONTROLLER_FUJITSU_K_10R", "CONTROLLER_CTM9016",
    "CONTROLLER_ACORN_A310_PODULE", "CONTROLLER_ELEKTRONIKA_85", "CONTROLLER_ATT_3B2",
    "CONTROLLER_ATT_3B2_17sector", "CONTROLLER_CONVERGENT_AWS", "CONTROLLER_SHUGART_1610",
    "CONTROLLER_SHUGART_SA1400", "CONTROLLER_HP9133XV", "CONTROLLER_SHUGART_CD9963",
    "CONTROLLER_SM_1810_512B", "CONTROLLER_DSD_5217_512B", "CONTROLLER_OMTI_5510",
    "CONTROLLER_OMTI_5200_18SECTOR_512B", "CONTROLLER_MYARC_HFDC",
    "CONTROLLER_SEAGATE_ST11M", "CONTROLLER_ISBC_215_128B", "CONTROLLER_ISBC_215_256B",
    "CONTROLLER_ISBC_215_512B", "CONTROLLER_ISBC_215_1024B", "CONTROLLER_XEROX_8010",
    "CONTROLLER_ADAPTEC_4000_18SECTOR_512B", "CONTROLLER_MVME320",
    "CONTROLLER_SYMBOLICS_3640", "CONTROLLER_XEBEC_104527_256B",
    "CONTROLLER_XEBEC_104527_512B", "CONTROLLER_XEBEC_104527_C0_256B", "CONTROLLER_EC1841",
    "CONTROLLER_CORVUS_H", "CONTROLLER_NORTHSTAR_ADVANTAGE", "CONTROLLER_CROMEMCO",
    "CONTROLLER_SAGA_FOX", "CONTROLLER_ND100_3041", "CONTROLLER_PERQ_T2",
    "CONTROLLER_IMS_A820"}
BY DEF mfm_controller_info

\* Every format of wd_mfm_decoder.c finds a cylinder and a head, and all but one no block number.
LEMMA WdOK ==
  ASSUME NEW b \in ByteString, NEW exp, TrackOK(exp), NEW k, NEW dp, dp.num_head \in Nat,
         dp.controller \in DOMAIN mfm_controller_info \ NotReadable,
         dp.controller \notin XEBEC \cup CORVUS \cup NORTHSTAR \cup TAGGED \cup PERQ
  PROVE  /\ NumbersOK(wd_header(dp, b, exp, k))
         /\ dp.controller # "CONTROLLER_ADAPTEC_4000_18SECTOR_512B" => wd_header(dp, b, exp, k).lba = -1
<1>1. /\ HeaderOK(OmtiHeader(b)) /\ HeaderOK(Sa1400Header(b)) /\ HeaderOK(MyarcHeader(dp, b))
      /\ HeaderOK(Shugart1610Header(b, exp)) /\ HeaderOK(Mvme320Header(b)) /\ HeaderOK(Wd1006Header(dp, b))
      /\ HeaderOK(Isbc214Header(b)) /\ HeaderOK(TektronixHeader(b)) /\ HeaderOK(ElektronikaHeader(b))
      /\ HeaderOK(DtcHeader(dp, b)) /\ HeaderOK(MacbottomHeader(b)) /\ NumbersOK(AdaptecHeader(b, exp, k))
      /\ HeaderOK(Symbolics3640Header(b)) /\ HeaderOK(SeagateHeader(b, exp)) /\ HeaderOK(Att3b2Header(b))
      /\ HeaderOK(Isbc215Header(b, \h19)) /\ HeaderOK(Isbc215Header(b, \hFE)) /\ HeaderOK(ConvergentHeader(b))
  BY OmtiOK, Sa1400OK, MyarcOK, Shugart1610OK, Mvme320OK, Wd1006OK, Isbc214OK, TektronixOK, DtcOK,
     MacbottomOK, AdaptecOK, Symbolics3640OK, SeagateOK, Att3b2OK, Isbc215OK, ConvergentOK
<1> QED BY <1>1, ControllerNames
        DEF HeaderOK, wd_header, NotReadable, XEBEC, CORVUS, NORTHSTAR, TAGGED, PERQ, ISBC_214, ISBC_215

\* The same of the format of every controller, whatever the bytes.
LEMMA DecodedOK ==
  ASSUME NEW b \in ByteString, NEW exp, TrackOK(exp), NEW k, NEW dp, dp.num_head \in Nat,
         dp.controller \in DOMAIN mfm_controller_info \ NotReadable
  PROVE  /\ NumbersOK(DecodedHeader(dp, b, exp, k))
         /\ dp.controller # "CONTROLLER_ADAPTEC_4000_18SECTOR_512B" => DecodedHeader(dp, b, exp, k).lba = -1
BY WdOK, XebecOK, CorvusOK, NorthstarOK, TaggedOK, PerqOK
   DEF HeaderOK, XEBEC, CORVUS, NORTHSTAR, TAGGED, PERQ, DecodedHeader

-----------------------------------------------------------------------------

(* The reader.                                                                 *)

ReaderFields ==
  {"part", "state", "sector_index", "seek_difference", "sector_status", "list", "file", "metadata",
   "good", "crc", "alternates", "header_at", "resume", "next_header_time", "first_sector",
   "last_sector", "remap_list"}
StatusFields == {"status", "last_status", "cyl", "head", "sector", "is_lba", "lba_addr", "ignore", "ecc"}

StatusOK(s) == DOMAIN s = StatusFields /\ s.cyl \in Nat /\ s.head \in Nat
ListOK(list) == DOMAIN list = Sectors /\ \A i \in Sectors : StatusOK(list[i])
ReaderOK(r) ==
  DOMAIN r = ReaderFields /\ r.state \in States /\ StatusOK(r.sector_status) /\ ListOK(r.list)

\* r goes on as n.
GoesOn(r, n) == ReaderOK(n) /\ n.part = r.part

\* The status of a sector not yet found is one,
LEMMA NoSectorOK == StatusOK(NoSector)
BY DEF StatusOK, StatusFields, NoSector

\* and it stays one whatever it is marked with.
LEMMA MarkOK ==
  ASSUME NEW s, StatusOK(s)
  PROVE  /\ \A flags : StatusOK(Mark(s, flags))
         /\ \A flags : \A cond : StatusOK(MarkIf(cond, s, flags))
         /\ \A last : StatusOK([s EXCEPT !.last_status = last])
         /\ \A status : StatusOK([s EXCEPT !.status = status])
<1>1. ASSUME NEW status PROVE StatusOK([s EXCEPT !.status = status])
  BY DEF StatusOK, StatusFields
<1>2. ASSUME NEW last PROVE StatusOK([s EXCEPT !.last_status = last])
  BY DEF StatusOK, StatusFields
<1>3. ASSUME NEW flags PROVE StatusOK(Mark(s, flags))
  BY <1>1 DEF Mark
<1>4. ASSUME NEW flags, NEW cond PROVE StatusOK(MarkIf(cond, s, flags))
  BY <1>3 DEF MarkIf
<1> QED BY <1>1, <1>2, <1>3, <1>4

\* A reader that differs only where its kind does not show
LEMMA FieldsOK ==
  ASSUME NEW r, ReaderOK(r)
  PROVE  /\ \A s : StatusOK(s) => GoesOn(r, [r EXCEPT !.sector_status = s])
         /\ \A x \in States : GoesOn(r, [r EXCEPT !.state = x])
         /\ \A s : \A x \in States : StatusOK(s) => GoesOn(r, [r EXCEPT !.sector_status = s, !.state = x])
         /\ \A x : GoesOn(r, [r EXCEPT !.metadata = x])
         /\ \A x : GoesOn(r, [r EXCEPT !.alternates = x])
         /\ \A x : GoesOn(r, [r EXCEPT !.sector_index = x])
         /\ \A x, y, z : GoesOn(r, [r EXCEPT !.first_sector = x, !.last_sector = y, !.remap_list = z])
BY DEF ReaderOK, ReaderFields, GoesOn

\* Two steps of the decoder are one.
LEMMA GoesOnOn ==
  ASSUME NEW r, NEW n, GoesOn(r, n), NEW m, GoesOn(n, m)
  PROVE  GoesOn(r, m)
BY DEF GoesOn

\* The reader is told the geometry of the image.
LEMMA SectorsOf ==
  ASSUME JobInv
  PROVE  /\ read_params.num_sectors = num_sectors /\ num_sectors \in Nat \ {0}
         /\ read_params.num_head \in Nat /\ read_params.controller \in DOMAIN mfm_controller_info \ NotReadable
         /\ Sectors = 0 .. read_params.num_sectors - 1
BY JobFacts DEF read_params, JobInv, Sectors

\* mfm_write_sector()
LEMMA WrittenOK ==
  ASSUME NEW r, ReaderOK(r), NEW dp, NEW content, Sectors = 0 .. dp.num_sectors - 1,
         InRange(dp, r.sector_status)
  PROVE  GoesOn(r, mfm_write_sector(dp, r, content))
<1> DEFINE s == r.sector_status
           i == SectRel0(dp, s)
           entry_i == r.list[i]
           badLba == "SECT_BAD_LBA_NUMBER" \in s.status
           better == Better(dp, entry_i, s) /\ ~ badLba
           kept == dp.ignore_seek_errors /\ r.good[Place(dp, s)] < NewGood(s)
           update == /\ better
                     /\ dp.ignore_seek_errors => ~ kept /\ ~ Conflicts(dp, r, s, content)
           cleared == [entry_i EXCEPT !.status = @ \ {"SECT_NOT_WRITTEN"}]
           listed == IF update \/ badLba THEN s ELSE cleared
           file == IF update THEN Stored(r.file, Offset(dp, s), content) ELSE r.file
           new == [listed EXCEPT !.last_status = s.status]
           seen == [r EXCEPT !.list[i] = new, !.file = file]
<1>1. i \in Sectors /\ StatusOK(s) /\ StatusOK(entry_i)
  BY DEF InRange, ReaderOK, ListOK
<1>2. StatusOK(cleared)
  BY <1>1, MarkOK
<1>3. StatusOK(listed)
  <2> HIDE DEF cleared, update, badLba, s
  <2> QED BY <1>1, <1>2
<1>4. StatusOK(new)
  BY <1>3, MarkOK
<1> HIDE DEF new, file, i
<1>5. GoesOn(r, seen)
  BY <1>1, <1>4 DEF GoesOn, ReaderOK, ReaderFields, ListOK
<1> DEFINE known(x, y) == [seen EXCEPT !.good[Place(dp, s)] = x, !.crc[Place(dp, s)] = y]
<1>6. \/ mfm_write_sector(dp, r, content) = seen
      \/ \E x, y : mfm_write_sector(dp, r, content) = known(x, y)
  BY Zenon DEF mfm_write_sector, seen, new, file, i
<1> HIDE DEF seen, s
<1>7. \A x, y : GoesOn(r, known(x, y))
  BY <1>5 DEF GoesOn, ReaderOK, ReaderFields
<1> HIDE DEF known
<1> QED BY <1>5, <1>6, <1>7

\* Whether a sector is written or is passed over, the reader goes on,
LEMMA WriteSectorOK ==
  ASSUME NEW r, ReaderOK(r), NEW dp, NEW p, NEW at, Sectors = 0 .. dp.num_sectors - 1
  PROVE  GoesOn(r, WriteSector(dp, r, p, at))
<1> DEFINE s == r.sector_status
           bad == [r EXCEPT !.sector_status = Mark(s, {"SECT_BAD_HEADER"})]
           written == mfm_write_sector(dp, r, Content(dp, p, "SECTOR_DATA", at, dp.sector_size))
<1>1. GoesOn(r, r)
  BY DEF GoesOn
<1>2. GoesOn(r, bad)
  <2>1. StatusOK(Mark(s, {"SECT_BAD_HEADER"}))
    BY MarkOK DEF ReaderOK
  <2> QED BY <2>1, FieldsOK
<1>3. InRange(dp, s) => GoesOn(r, written)
  BY WrittenOK
<1>4. WriteSector(dp, r, p, at) \in {r, bad} \/ (InRange(dp, s) /\ WriteSector(dp, r, p, at) = written)
  <2> HIDE DEF bad, written
  <2> QED BY DEF WriteSector, Writable, bad, written
<1> HIDE DEF bad, written
<1> QED BY <1>1, <1>2, <1>3, <1>4

\* whatever its header is found to be,
LEMMA CheckedOK ==
  ASSUME NEW r, ReaderOK(r), NEW dp, NEW size, NEW exp_cyl, NEW exp_head
  PROVE  GoesOn(r, mfm_check_header_values(dp, r, size, exp_cyl, exp_head))
<1> DEFINE s == r.sector_status
           ordered == dp.sector_numbers # <<>>
           found == Expected(dp, s, r.sector_index)
           unordered == ordered /\ found = dp.num_sectors
           outside == \/ ~ InRange(dp, s) /\ "SECT_BAD_SECTOR_NUMBER" \notin s.status
                      \/ s.head > dp.num_head
           seek == SeekError(dp, s, exp_cyl, exp_head)
           misplaced == Misplaced(dp, s, exp_cyl, exp_head)
           senseless == SenselessLba(dp, s, exp_cyl) \/ size # dp.sector_size
           placed == MarkIf(misplaced, MarkIf(seek, s, {"ANALYZE_WRONG_FORMAT", "SECT_WRONG_CYL"}),
                            {"SECT_BAD_HEADER"})
           checked == MarkIf(outside \/ unordered,
                             MarkIf(senseless, placed, {"ANALYZE_WRONG_FORMAT"}),
                             {"SECT_BAD_HEADER", "ANALYZE_WRONG_FORMAT"})
           list == [i \in DOMAIN r.list |-> IF i = SectRel0(dp, s) THEN Awaiting(r.list[i], checked)
                                           ELSE r.list[i]]
           new(d, x) == [r EXCEPT !.seek_difference = d, !.sector_index = x,
                                  !.sector_status = checked, !.list = list]
<1>1. StatusOK(s) /\ \A i \in Sectors : StatusOK(r.list[i])
  BY DEF ReaderOK, ListOK
<1>2. StatusOK(placed)
  <2>1. StatusOK(MarkIf(seek, s, {"ANALYZE_WRONG_FORMAT", "SECT_WRONG_CYL"}))
    BY <1>1, MarkOK
  <2> QED BY <2>1, MarkOK
<1>3. StatusOK(checked)
  <2> HIDE DEF placed, outside, unordered, senseless
  <2>1. StatusOK(MarkIf(senseless, placed, {"ANALYZE_WRONG_FORMAT"}))
    BY <1>2, MarkOK
  <2> QED BY <2>1, MarkOK
<1>4. mfm_check_header_values(dp, r, size, exp_cyl, exp_head) \in {r, [r EXCEPT !.sector_index = r.sector_index + 1]}
      \/ \E d, x : mfm_check_header_values(dp, r, size, exp_cyl, exp_head) = new(d, x)
  <2> HIDE DEF s
  <2> QED BY Zenon DEF mfm_check_header_values, s
<1> HIDE DEF checked
<1>5. \A x : StatusOK(x) => StatusOK(Awaiting(x, checked))
  BY <1>3, MarkOK DEF Awaiting
<1>6. ListOK(list)
  BY <1>1, <1>5 DEF ReaderOK, ListOK
<1> HIDE DEF list
<1>7. \A d, x : GoesOn(r, new(d, x))
  BY <1>3, <1>6 DEF GoesOn, ReaderOK, ReaderFields
<1> HIDE DEF new
<1>8. GoesOn(r, r) /\ GoesOn(r, [r EXCEPT !.sector_index = r.sector_index + 1])
  BY FieldsOK DEF GoesOn
<1> QED BY <1>4, <1>7, <1>8

\* A header is taken.
LEMMA HeaderStatusOK ==
  ASSUME NEW h, NumbersOK(h), NEW exp, TrackOK(exp), NEW dp, NEW ambiguous
  PROVE  StatusOK(HeaderStatus(dp, h, exp, ambiguous))
<1>1. mfm_fix_head(dp, exp.head, h.head) \in Nat
  BY DEF mfm_fix_head, TrackOK, NumbersOK
<1> DEFINE head_ == IF dp.controller = "CONTROLLER_IMS_A820" THEN h.head ELSE mfm_fix_head(dp, exp.head, h.head)
           lba == IF h.lba = -1 THEN 0 ELSE h.lba
           status == {"SECT_HEADER_FOUND"} \cup h.flags \cup Flag(ambiguous, "SECT_AMBIGUOUS_CRC")
           isLba == h.lba # -1
<1>2. head_ \in Nat /\ h.cyl \in Nat
  BY <1>1 DEF NumbersOK
<1>3. HeaderStatus(dp, h, exp, ambiguous) =
        [NoSector EXCEPT !.cyl = h.cyl, !.sector = h.sector, !.ignore = h.ignore, !.head = head_,
                         !.is_lba = isLba, !.lba_addr = lba, !.status = status]
  BY Zenon DEF HeaderStatus
<1> HIDE DEF head_, lba, status, isLba
<1> QED BY <1>2, <1>3, NoSectorOK DEF StatusOK, StatusFields

\* from a state of the decoder it knows,
LEMMA AfterHeaderState == \A dp : AfterHeader(dp) \in States
BY DEF AfterHeader, States

\* also where the order of the headers is noted,
LEMMA NoteRemapOK ==
  ASSUME NEW r, ReaderOK(r), NEW dp, NEW sector
  PROVE  GoesOn(r, NoteRemap(dp, r, sector))
<1> DEFINE t == sector - dp.first_sector_number
           first == IF r.sector_index = 0 THEN t ELSE r.first_sector
           list == IF r.sector_index = 0 THEN <<>> ELSE r.remap_list
           previous == IF r.sector_index = 0 THEN list ELSE Stored(list, t, r.last_sector)
           remap == IF dp.xebec_skew THEN Stored(previous, first, t) ELSE list
<1>1. NoteRemap(dp, r, sector) = [r EXCEPT !.first_sector = first, !.last_sector = t, !.remap_list = remap]
  BY Zenon DEF NoteRemap
<1> HIDE DEF t, first, remap
<1> QED BY <1>1 DEF GoesOn, ReaderOK, ReaderFields

\* and where the header names an alternate track,
LEMMA TakeHeaderOK ==
  ASSUME NEW r, ReaderOK(r), NEW h, NEW s, StatusOK(s), NEW exp, NEW dp
  PROVE  GoesOn(r, TakeHeader(dp, r, h, s, exp))
<1> DEFINE named == IF h.alternate = <<>> THEN r
                    ELSE mfm_handle_alt_track_ch(dp, r, <<exp.cyl, exp.head>>, h.alternate)
           noted == IF dp.controller \in XEBEC THEN NoteRemap(dp, named, h.sector) ELSE named
           size == IF h.size = 0 THEN dp.sector_size ELSE h.size
           known == [noted EXCEPT !.sector_status = s]
           checked == mfm_check_header_values(dp, known, size, exp.cyl, exp.head)
<1>1. GoesOn(r, r)
  BY DEF GoesOn
<1>2. GoesOn(r, named)
  <2>1. \A bad, good : GoesOn(r, mfm_handle_alt_track_ch(dp, r, bad, good))
    BY <1>1, FieldsOK DEF mfm_handle_alt_track_ch
  <2> QED BY <1>1, <2>1
<1> HIDE DEF named
<1>3. GoesOn(r, noted)
  <2>1. GoesOn(named, NoteRemap(dp, named, h.sector))
    BY <1>2, NoteRemapOK DEF GoesOn
  <2> QED BY <1>2, <2>1, GoesOnOn
<1> HIDE DEF noted
<1>4. GoesOn(r, known)
  <2>1. GoesOn(noted, known)
    BY <1>3, FieldsOK DEF GoesOn
  <2> QED BY <1>3, <2>1, GoesOnOn
<1> HIDE DEF known, size
<1>5. GoesOn(r, checked)
  <2>1. GoesOn(known, checked)
    BY <1>4, CheckedOK DEF GoesOn
  <2> QED BY <1>4, <2>1, GoesOnOn
<1> HIDE DEF checked
<1>6. GoesOn(checked, [checked EXCEPT !.state = AfterHeader(dp)])
  BY <1>5, FieldsOK, AfterHeaderState DEF GoesOn
<1>7. TakeHeader(dp, r, h, s, exp) = [checked EXCEPT !.state = AfterHeader(dp)]
  BY Zenon DEF TakeHeader, checked, known, noted, named, size
<1> QED BY <1>5, <1>6, <1>7, GoesOnOn

\* or is not a header at all.
LEMMA HeaderReadOK ==
  ASSUME NEW r, ReaderOK(r), NEW dp, Sectors = 0 .. dp.num_sectors - 1, NEW p, NEW base, NEW length,
         NEW exp, TrackOK(exp), NEW h, NumbersOK(h)
  PROVE  GoesOn(r, HeaderRead(dp, r, p, base, length, exp, h))
<1> DEFINE s == HeaderStatus(dp, h, exp, Ambiguous(dp, p, base, length))
           taken == TakeHeader(dp, r, h, s, exp)
           at == base + Info(dp).data_header_bytes
           blank == [r EXCEPT !.sector_status = s, !.state = "HEADER_SYNC"]
<1>1. StatusOK(s)
  BY HeaderStatusOK
<1> HIDE DEF s
<1>2. GoesOn(r, blank)
  <2>1. "HEADER_SYNC" \in States
    BY DEF States
  <2> QED BY <1>1, <2>1, FieldsOK
<1>3. GoesOn(r, taken)
  BY <1>1, TakeHeaderOK
<1> HIDE DEF taken, at, blank
<1>4. GoesOn(r, WriteSector(dp, taken, p, at))
  <2>1. GoesOn(taken, WriteSector(dp, taken, p, at))
    BY <1>3, WriteSectorOK DEF GoesOn
  <2> QED BY <1>3, <2>1, GoesOnOn
<1>5. HeaderRead(dp, r, p, base, length, exp, h) \in {blank, taken, WriteSector(dp, taken, p, at)}
  BY DEF HeaderRead, blank, taken, at, s
<1> QED BY <1>2, <1>3, <1>4, <1>5

\* So processing the bytes of a header leaves the reader's state whole,
LEMMA HeaderProcessed ==
  ASSUME NEW r, ReaderOK(r), NEW dp, Sectors = 0 .. dp.num_sectors - 1, NEW p, NEW base, NEW length,
         NEW exp, TrackOK(exp), dp.num_head \in Nat, dp.controller \in DOMAIN mfm_controller_info \ NotReadable
  PROVE  GoesOn(r, ProcessHeader(dp, r, p, base, length, exp))
<1> DEFINE b == Bytes(dp, p, base)
           h == DecodedHeader(dp, b, exp, r.sector_index)
<1>1. b \in ByteString
  BY BytesRange
<1> HIDE DEF b
<1>2. NumbersOK(h)
  BY <1>1, DecodedOK
<1> HIDE DEF h
<1>3. GoesOn(r, HeaderRead(dp, r, p, base, length, exp, h))
  BY <1>2, HeaderReadOK
<1>4. GoesOn(r, [r EXCEPT !.state = "MARK_ID"])
  <2>1. "MARK_ID" \in States
    BY DEF States
  <2> QED BY <2>1, FieldsOK
<1> QED BY <1>3, <1>4 DEF ProcessHeader, h, b

\* and so does processing those of its second half,
LEMMA Header2Processed ==
  ASSUME NEW r, ReaderOK(r), NEW dp, NEW p, NEW base, NEW length
  PROVE  GoesOn(r, ProcessHeader2(dp, r, p, base, length))
<1> DEFINE tagged == dp.controller \in TAGGED
           spoilt == tagged /\ Byte(p, base + 1) # \h43
           checked == MarkIf(~ mfm_crc_bytes(dp, p, FALSE, base, length), r.sector_status, {"SECT_BAD_DATA"})
           s == MarkIf(spoilt, checked, {"SECT_BAD_HEADER"})
           state == IF tagged THEN "MARK_DATA" ELSE "DATA_SYNC"
           after == [r EXCEPT !.sector_status = s, !.state = state]
           at == IF tagged THEN base + 2 ELSE base
           written == mfm_write_metadata(dp, after, Content(dp, p, "SECTOR_METADATA", at, Info(dp).metadata_bytes))
<1>1. StatusOK(s)
  <2>1. StatusOK(checked)
    BY MarkOK DEF ReaderOK
  <2> HIDE DEF checked, spoilt
  <2> QED BY <2>1, MarkOK
<1>2. state \in States
  BY DEF States
<1> HIDE DEF s, state, at
<1>3. GoesOn(r, after)
  BY <1>1, <1>2, FieldsOK
<1>4. GoesOn(r, written)
  <2> HIDE DEF after
  <2>1. GoesOn(after, written)
    BY <1>3, FieldsOK DEF mfm_write_metadata, GoesOn
  <2> QED BY <1>3, <2>1, GoesOnOn
<1>5. ProcessHeader2(dp, r, p, base, length) = after \/ ProcessHeader2(dp, r, p, base, length) = written
  <2> HIDE DEF checked
  <2> QED BY Zenon DEF ProcessHeader2, s, state, at, checked
<1> HIDE DEF after, written
<1> QED BY <1>3, <1>4, <1>5

\* and of the data.
LEMMA DataProcessed ==
  ASSUME NEW r, ReaderOK(r), NEW dp, Sectors = 0 .. dp.num_sectors - 1, NEW p, NEW base, NEW length, NEW forced
  PROVE  GoesOn(r, ProcessData(dp, r, p, base, length, forced))
<1> DEFINE good == /\ ~ forced
                   /\ mfm_crc_bytes(dp, p, FALSE, base, length)
                   /\ Byte(p, base + 1) \in DataIds(dp)
           s == MarkIf(~ good, r.sector_status, {"SECT_BAD_DATA"})
           read == [r EXCEPT !.sector_status = s, !.state = "MARK_ID"]
           at == base + Info(dp).data_header_bytes
<1>1. StatusOK(s) /\ "MARK_ID" \in States
  <2> HIDE DEF good
  <2> QED BY MarkOK DEF ReaderOK, States
<1>2. GoesOn(r, read)
  <2> HIDE DEF s
  <2> QED BY <1>1, FieldsOK
<1>3. ProcessData(dp, r, p, base, length, forced) = WriteSector(dp, read, p, at)
  BY Zenon DEF ProcessData
<1> HIDE DEF read, at
<1>4. GoesOn(read, WriteSector(dp, read, p, at))
  BY <1>2, WriteSectorOK DEF GoesOn
<1> QED BY <1>2, <1>3, <1>4, GoesOnOn

\* A new track
LEMMA NewReaderOK ==
  ASSUME NEW dp, Sectors = 0 .. dp.num_sectors - 1
  PROVE  ReaderOK(NewReader(dp)) /\ NewReader(dp).part = 1
<1> DEFINE list == StartRead(mfm_init_sector_status_list(dp.num_sectors))
           time == FirstHeaderTime(dp)
<1>1. ListOK(list)
  <2>1. \A flags, last : StatusOK([Mark(NoSector, flags) EXCEPT !.last_status = last])
    BY NoSectorOK, MarkOK
  <2> QED BY <2>1 DEF ListOK, StartRead, mfm_init_sector_status_list
<1> HIDE DEF list, time
<1>2. NewReader(dp) =
        [part |-> 1, state |-> "MARK_ID", sector_index |-> 0, seek_difference |-> 0,
         sector_status |-> NoSector, list |-> list,
         file |-> <<>>, metadata |-> <<>>, good |-> <<>>, crc |-> <<>>, alternates |-> <<>>,
         header_at |-> 0, resume |-> 0, next_header_time |-> time,
         first_sector |-> 0, last_sector |-> 0, remap_list |-> <<>>]
  BY DEF NewReader, list, time
<1> QED BY <1>1, <1>2, NoSectorOK DEF ReaderOK, ReaderFields, States

\* The reader is where the track is written, and at a part of it or at its end.
ReaderInv ==
  reader # Idle => /\ pc = "written" /\ extract = Unread
                   /\ ReaderOK(reader) /\ reader.part \in 1 .. Len(track) + 1

TypeInv == WriterInv /\ ReaderInv

\* The track is a sequence when it is read.
LEMMA WrittenTrack ==
  ASSUME WriterInv, pc = "written"
  PROVE  Len(track) \in Nat /\ DOMAIN track = 1 .. Len(track)
<1>1. PICK S : track \in Seq(S)
  BY DEF WriterInv, PlacedInv, PartsInv
<1> QED BY <1>1

\* While the writer is at work the reader is idle, and the other way round.
LEMMA BusyReader ==
  ASSUME ReaderInv, Reading, JobInv, WriterInv
  PROVE  ReaderOK(reader) /\ reader.part \in 1 .. Len(track) /\ Len(track) \in Nat /\ extract = Unread
<1>1. Len(track) \in Nat /\ DOMAIN track = 1 .. Len(track)
  BY WrittenTrack DEF Reading
<1>2. reader # Idle
  BY <1>1 DEF Reading, Idle
<1> QED BY <1>1, <1>2 DEF ReaderInv, Reading

\* A part is read, whatever it holds.
LEMMA BytesProcessed ==
  ASSUME JobInv, ReaderOK(reader), NEW what \in {"PROCESS_HEADER", "PROCESS_HEADER2", "PROCESS_DATA"},
         NEW p, NEW base, NEW length
  PROVE  GoesOn(reader, mfm_process_bytes(what, p, base, length))
<1>1. /\ Sectors = 0 .. read_params.num_sectors - 1 /\ read_params.num_head \in Nat
      /\ read_params.controller \in DOMAIN mfm_controller_info \ NotReadable
  BY SectorsOf
<1> DEFINE exp == [cyl |-> cyl, head |-> head]
           forced == TooFar(read_params, reader, under.at)
<1>2. TrackOK(exp)
  BY DEF TrackOK, JobInv
<1> HIDE DEF exp, forced
<1>3. GoesOn(reader, ProcessHeader(read_params, reader, p, base, length, exp))
  BY <1>1, <1>2, HeaderProcessed
<1>4. GoesOn(reader, ProcessHeader2(read_params, reader, p, base, length))
  BY Header2Processed
<1>5. GoesOn(reader, ProcessData(read_params, reader, p, base, length, forced))
  BY <1>1, DataProcessed
<1> QED BY <1>3, <1>4, <1>5 DEF mfm_process_bytes, exp, forced

\* The reader goes on to the next part, or stays for a second look at this one.
LEMMA MovedOK ==
  ASSUME ReaderOK(reader), reader.part \in Nat, NEW after, GoesOn(reader, after), NEW take
  PROVE  ReaderOK(Moved(after, take)) /\ Moved(after, take).part \in {reader.part, reader.part + 1}
<1> DEFINE time == NextHeaderTime(read_params, reader, take.sync, take.end)
           stays == after.state = "DATA_SYNC" /\ read_params.controller \in NORTHSTAR
           part == IF stays THEN after.part ELSE after.part + 1
<1>1. Moved(after, take) = [after EXCEPT !.resume = take.end, !.next_header_time = time,
                                         !.header_at = under.at, !.part = part]
  BY Zenon DEF Moved
<1>2. part \in {reader.part, reader.part + 1}
  BY DEF GoesOn
<1> HIDE DEF time, part
<1> QED BY <1>1, <1>2 DEF GoesOn, ReaderOK, ReaderFields

\* At first nothing is read.
LEMMA InitReader == Init => ReaderInv
BY Zenon DEF Init, ReaderInv

\* The list of sectors is that of the format, and the format stays.
LEMMA ReaderStays ==
  ASSUME ReaderInv, num_sectors' = num_sectors, reader' = reader, reader # Idle => UNCHANGED <<pc, track, extract>>
  PROVE  ReaderInv'
BY DEF ReaderInv, Idle, ReaderOK, ListOK, StatusOK, Sectors

\* Every step keeps the reader where the track is written, at one of its parts.
LEMMA ReaderInvNext ==
  ASSUME WriterInv, ReaderInv, [Next]_vars
  PROVE  ReaderInv'
<1>1. JobInv /\ SlotInv
  BY DEF WriterInv
<1>2. CASE Write
  <2>1. reader = Idle
    BY <1>2 DEF Write, WriteTrack, StartCyl, StartTrack, FillEntry, FieldEntry, AtEntry, EndTrack, ReaderInv
  <2> QED BY <1>2, <2>1 DEF Write, ReaderInv, Idle
<1>3. CASE mfm_decode_track
  <2>1. Len(track) \in Nat /\ Sectors = 0 .. read_params.num_sectors - 1
    BY <1>1, <1>3, WrittenTrack, SectorsOf DEF mfm_decode_track
  <2>2. ReaderOK(reader') /\ reader'.part = 1
    BY <1>3, <2>1, NewReaderOK DEF mfm_decode_track
  <2>3. UNCHANGED <<pc, track, extract, num_sectors>>
    BY <1>3 DEF mfm_decode_track, writeVars, slotVars, interleaveVars
  <2> QED BY <1>3, <2>1, <2>2, <2>3 DEF mfm_decode_track, ReaderInv, ReaderOK, ListOK, StatusOK, Sectors
<1>4. CASE PassPart
  <2>1. ReaderOK(reader) /\ reader.part \in 1 .. Len(track) /\ Len(track) \in Nat /\ extract = Unread
    BY <1>1, <1>4, BusyReader DEF PassPart
  <2>2. ReaderOK(reader') /\ reader'.part = reader.part + 1
    BY <1>4, <2>1 DEF PassPart, ReaderOK, ReaderFields, ListOK, StatusOK, Sectors
  <2>3. UNCHANGED <<pc, track, extract, num_sectors>> /\ pc = "written"
    BY <1>4 DEF PassPart, Reading, writeVars, slotVars, interleaveVars
  <2> QED BY <2>1, <2>2, <2>3 DEF ReaderInv, ReaderOK, ListOK, StatusOK, Sectors
<1>5. ASSUME NEW what \in {"PROCESS_HEADER", "PROCESS_HEADER2", "PROCESS_DATA"}, ReadPart(what)
      PROVE  ReaderInv'
  <2>1. ReaderOK(reader) /\ reader.part \in 1 .. Len(track) /\ Len(track) \in Nat /\ extract = Unread
    BY <1>1, <1>5, BusyReader DEF ReadPart
  <2> DEFINE take == Taken(underPart)
             after == mfm_process_bytes(what, underPart, take.base, take.length)
  <2>2. GoesOn(reader, after)
    BY <1>1, <2>1, BytesProcessed
  <2>3. reader' = Moved(after, take)
    BY <1>5 DEF ReadPart, TakeBytes
  <2> HIDE DEF after, take
  <2>4. ReaderOK(reader') /\ reader'.part \in {reader.part, reader.part + 1}
    BY <2>1, <2>2, <2>3, MovedOK
  <2>5. UNCHANGED <<pc, track, extract, num_sectors>> /\ pc = "written"
    BY <1>5 DEF ReadPart, TakeBytes, Reading, writeVars, slotVars, interleaveVars
  <2> QED BY <2>1, <2>4, <2>5 DEF ReaderInv, ReaderOK, ListOK, StatusOK, Sectors
<1>6. CASE mfm_end_track
  BY <1>6 DEF mfm_end_track, ReaderInv, Idle
<1>7. CASE NextRead
  BY <1>7, ReaderStays DEF NextRead, NextTrack, ReaderInv, slotVars, interleaveVars
<1>8. CASE UNCHANGED vars
  BY <1>8, ReaderStays DEF vars, writeVars, slotVars, interleaveVars
<1> QED BY <1>2, <1>3, <1>4, <1>5, <1>6, <1>7, <1>8 DEF Next

\* The writer and the reader are where they should be, all the time.
LEMMA TypeInvAlways == Spec => []TypeInv
<1>1. Init => TypeInv
  BY InitWriter, InitReader DEF TypeInv
<1>2. TypeInv /\ [Next]_vars => TypeInv'
  BY WriterNext, ReaderInvNext DEF TypeInv
<1> QED BY <1>1, <1>2, PTL DEF Spec

\* Writing and reading back keep to their state: the place of the next part is on the
\* track, mark_list is never written past its end, the decoder is in a state it knows
\* and at a part of the track, and the cylinder and head in its list of sectors are
\* numbers, whatever bytes the decoder of the format was given for a header.
THEOREM TypeCorrect == Spec => []TypeOK
<1>1. TypeInv => TypeOK
  <2> SUFFICES ASSUME TypeInv PROVE TypeOK
    OBVIOUS
  <2>1. /\ pc \in {"cyl", "track", "entry", "written", "done", "exit"}
        /\ start \in 0 .. track_length /\ special_list_ndx \in 0 .. MAX_SECTORS * 5
    BY DEF TypeInv, WriterInv, WriterType
  <2>2. slot.sector \in Sectors /\ slot.used \subseteq Sectors
    BY DEF TypeInv, WriterInv, SlotInv, SlotTypeOK
  <2>3. ASSUME reader # Idle
        PROVE  /\ reader.state \in States /\ reader.part \in 1 .. Len(track) + 1
               /\ DOMAIN reader.list = Sectors
               /\ \A i \in Sectors : reader.list[i].cyl >= 0 /\ reader.list[i].head >= 0
    BY <2>3 DEF TypeInv, ReaderInv, ReaderOK, ListOK, StatusOK
  <2> QED BY <2>1, <2>2, <2>3 DEF TypeOK
<1> QED BY <1>1, TypeInvAlways, PTL

-----------------------------------------------------------------------------

(* What the reader writes stays on the track.                                  *)

\* A sector is one of the track, or was found not to be.
Settled(s) ==
  \/ s.status \cap {"SECT_BAD_HEADER", "SECT_BAD_SECTOR_NUMBER"} # {}
  \/ s.ignore
  \/ s.cyl = cyl /\ s.head = head /\ InRange(read_params, s)

Inside(r) == ~ r.sector_status.is_lba /\ DOMAIN r.file \subseteq TrackBlocks

\* After a header the sector is settled.
Home(r) == Inside(r) /\ (r.state \notin {"MARK_ID", "HEADER_SYNC"} => Settled(r.sector_status))

\* More marks on a settled sector leave it settled.
LEMMA MarkSettled ==
  ASSUME NEW s, StatusOK(s), ~ s.is_lba, Settled(s), NEW cond, NEW flags
  PROVE  Settled(MarkIf(cond, s, flags)) /\ ~ MarkIf(cond, s, flags).is_lba
<1> DEFINE m == MarkIf(cond, s, flags)
<1>1. /\ s.status \subseteq m.status /\ (m.is_lba <=> s.is_lba) /\ (m.ignore <=> s.ignore)
      /\ m.cyl = s.cyl /\ m.head = s.head /\ m.sector = s.sector
  BY DEF StatusOK, StatusFields, MarkIf, Mark
<1>2. InRange(read_params, s) => InRange(read_params, m)
  BY <1>1 DEF InRange, SectRel0
<1> HIDE DEF m
<1>3. Settled(m) /\ ~ m.is_lba
  BY <1>1, <1>2 DEF Settled
<1> QED BY <1>3 DEF m

\* The first block of a track is a natural number.
LEMMA Blocks == \A x, y, z, w \in Nat : (x * y + z) * w \in Nat
OBVIOUS

\* A sector of the track that is in range has its block there.
LEMMA OffsetInside ==
  ASSUME JobInv, NEW s, ~ s.is_lba, s.cyl = cyl, s.head = head, InRange(read_params, s)
  PROVE  Offset(read_params, s) \in TrackBlocks
<1>1. /\ read_params.num_sectors = num_sectors /\ num_sectors \in Nat
      /\ read_params.num_head = drive_params.num_head /\ drive_params.num_head \in Nat
  BY SectorsOf, JobFacts DEF read_params
<1>2. First \in Nat
  BY <1>1, Blocks DEF First, JobInv
<1>3. Offset(read_params, s) = First + SectRel0(read_params, s)
  BY <1>1 DEF Offset, First
<1>4. SectRel0(read_params, s) \in 0 .. num_sectors - 1
  BY <1>1 DEF InRange
<1> QED BY <1>1, <1>2, <1>3, <1>4 DEF TrackBlocks

\* A sector that is written goes to its place.
LEMMA WriteSectorHome ==
  ASSUME JobInv, NEW r, ReaderOK(r), Inside(r), Settled(r.sector_status), NEW p, NEW at
  PROVE  Home(WriteSector(read_params, r, p, at))
<1> DEFINE s == r.sector_status
           bad == [r EXCEPT !.sector_status = Mark(s, {"SECT_BAD_HEADER"})]
           content == Content(read_params, p, "SECTOR_DATA", at, read_params.sector_size)
           written == mfm_write_sector(read_params, r, content)
<1>1. Home(r)
  BY DEF Home
<1>2. Home(bad)
  <2>1. StatusOK(s) /\ ~ s.is_lba
    BY DEF ReaderOK, Inside
  <2>2. Settled(Mark(s, {"SECT_BAD_HEADER"})) /\ ~ Mark(s, {"SECT_BAD_HEADER"}).is_lba
    BY <2>1 DEF Settled, Mark, StatusOK, StatusFields
  <2> QED BY <2>2 DEF Home, Inside, ReaderOK, ReaderFields
<1>3. ASSUME s.status \cap {"SECT_BAD_HEADER", "SECT_BAD_SECTOR_NUMBER"} = {}, ~ s.ignore
      PROVE  Home(written)
  <2>1. Offset(read_params, s) \in TrackBlocks
    BY <1>3, OffsetInside DEF Settled, Inside
  <2>2. /\ written.sector_status = s /\ written.state = r.state
        /\ written.file \in {r.file, Stored(r.file, Offset(read_params, s), content)}
    <3> HIDE DEF content, s
    <3> QED BY DEF mfm_write_sector, ReaderOK, ReaderFields, s
  <2>3. DOMAIN written.file \subseteq TrackBlocks
    BY <2>1, <2>2 DEF Stored, Inside
  <2> HIDE DEF written
  <2> QED BY <2>2, <2>3 DEF Home, Inside
<1>4. WriteSector(read_params, r, p, at) \in {r, bad}
      \/ /\ s.status \cap {"SECT_BAD_HEADER", "SECT_BAD_SECTOR_NUMBER"} = {} /\ ~ s.ignore
         /\ WriteSector(read_params, r, p, at) = written
  <2> HIDE DEF bad, written
  <2> QED BY DEF WriteSector, bad, written, content
<1> HIDE DEF bad, written
<1> QED BY <1>1, <1>2, <1>3, <1>4

\* A header that is checked is settled.
LEMMA CheckedHome ==
  ASSUME JobInv, NEW r, ReaderOK(r), Inside(r), NEW size
  PROVE  LET n == mfm_check_header_values(read_params, r, size, cyl, head)
         IN Inside(n) /\ Settled(n.sector_status)
<1> DEFINE s == r.sector_status
           found == Expected(read_params, s, r.sector_index)
           outside == \/ ~ InRange(read_params, s) /\ "SECT_BAD_SECTOR_NUMBER" \notin s.status
                      \/ s.head > read_params.num_head
           misplaced == Misplaced(read_params, s, cyl, head)
           seek == SeekError(read_params, s, cyl, head)
           senseless == SenselessLba(read_params, s, cyl) \/ size # read_params.sector_size
           sought == MarkIf(seek, s, {"ANALYZE_WRONG_FORMAT", "SECT_WRONG_CYL"})
           placed == MarkIf(misplaced, sought, {"SECT_BAD_HEADER"})
           sensible == MarkIf(senseless, placed, {"ANALYZE_WRONG_FORMAT"})
           checked == MarkIf(outside, sensible, {"SECT_BAD_HEADER", "ANALYZE_WRONG_FORMAT"})
           n == mfm_check_header_values(read_params, r, size, cyl, head)
<1>1. /\ read_params.sector_numbers = <<>> /\ ~ read_params.ignore_seek_errors
      /\ ~ read_params.ignore_header_mismatch
  BY DEF read_params
<1>2. StatusOK(s) /\ ~ s.is_lba
  BY DEF ReaderOK, Inside
<1>3. CASE s.ignore
  <2>1. n = r
    BY <1>3 DEF mfm_check_header_values
  <2> QED BY <1>3, <2>1 DEF Settled
<1>4. CASE ~ s.ignore
  <2>1. n.sector_status = checked /\ n.file = r.file
    <3> HIDE DEF s, outside, misplaced, seek, senseless
    <3>1. \/ \E d, x, list :
               n = [r EXCEPT !.seek_difference = d, !.sector_index = x, !.sector_status = checked, !.list = list]
      <4> HIDE DEF found, checked
      <4> QED BY <1>1, <1>4, Zenon
            DEF mfm_check_header_values, checked, s, outside, misplaced, seek, senseless, found
    <3> HIDE DEF checked, n
    <3> QED BY <3>1 DEF ReaderOK, ReaderFields
  <2>2. \A t, cond, flags : StatusOK(t) =>
             LET m == MarkIf(cond, t, flags)
             IN /\ StatusOK(m) /\ t.status \subseteq m.status /\ (cond => flags \subseteq m.status)
                /\ (m.is_lba <=> t.is_lba) /\ m.cyl = t.cyl /\ m.head = t.head /\ m.sector = t.sector
    BY DEF StatusOK, StatusFields, MarkIf, Mark
  <2> DEFINE Same(m) == /\ StatusOK(m) /\ s.status \subseteq m.status /\ ~ m.is_lba
                        /\ m.cyl = s.cyl /\ m.head = s.head /\ m.sector = s.sector
  <2> HIDE DEF outside, misplaced, seek, senseless
  <2>3. Same(sought)
    BY <1>2, <2>2
  <2>4. Same(placed) /\ (misplaced => "SECT_BAD_HEADER" \in placed.status)
    <3> HIDE DEF sought
    <3> QED BY <2>2, <2>3
  <2>5. Same(sensible) /\ placed.status \subseteq sensible.status
    <3> HIDE DEF placed
    <3> QED BY <2>2, <2>4
  <2>6. Same(checked) /\ sensible.status \subseteq checked.status
        /\ (outside => "SECT_BAD_HEADER" \in checked.status)
    <3> HIDE DEF sensible
    <3> QED BY <2>2, <2>5
  <2> HIDE DEF checked, sensible, placed, sought
  <2>7. Settled(checked)
    <3>1. misplaced \/ outside => "SECT_BAD_HEADER" \in checked.status
      BY <2>4, <2>5, <2>6
    <3>2. ~ misplaced => s.cyl = cyl /\ s.head = head
      BY <1>1, <1>2 DEF misplaced, Misplaced
    <3>3. ~ outside => InRange(read_params, s) \/ "SECT_BAD_SECTOR_NUMBER" \in checked.status
      BY <2>6 DEF outside
    <3>4. InRange(read_params, s) => InRange(read_params, checked)
      BY <2>6 DEF InRange, SectRel0
    <3> QED BY <2>6, <3>1, <3>2, <3>3, <3>4 DEF Settled
  <2> QED BY <2>1, <2>6, <2>7 DEF Inside
<1> QED BY <1>3, <1>4

\* So is one whose header was taken,
LEMMA TakeHeaderHome ==
  ASSUME JobInv, NEW r, ReaderOK(r), Inside(r), NEW h, NEW s, StatusOK(s), ~ s.is_lba, NEW exp,
         exp.cyl = cyl, exp.head = head
  PROVE  LET n == TakeHeader(read_params, r, h, s, exp)
         IN Inside(n) /\ Settled(n.sector_status)
<1> DEFINE named == IF h.alternate = <<>> THEN r
                    ELSE mfm_handle_alt_track_ch(read_params, r, <<exp.cyl, exp.head>>, h.alternate)
           noted == IF read_params.controller \in XEBEC THEN NoteRemap(read_params, named, h.sector) ELSE named
           size == IF h.size = 0 THEN read_params.sector_size ELSE h.size
           known == [noted EXCEPT !.sector_status = s]
           checked == mfm_check_header_values(read_params, known, size, exp.cyl, exp.head)
           n == TakeHeader(read_params, r, h, s, exp)
<1>1. ReaderOK(named) /\ named.file = r.file
  <2>1. \A bad, good : LET t == mfm_handle_alt_track_ch(read_params, r, bad, good)
                       IN ReaderOK(t) /\ t.file = r.file
    BY DEF mfm_handle_alt_track_ch, ReaderOK, ReaderFields
  <2> QED BY <2>1
<1> HIDE DEF named
<1>2. ReaderOK(noted) /\ noted.file = r.file
  <2>1. ReaderOK(NoteRemap(read_params, named, h.sector))
    BY <1>1, NoteRemapOK DEF GoesOn
  <2>2. NoteRemap(read_params, named, h.sector).file = named.file
    BY <1>1 DEF NoteRemap, ReaderOK, ReaderFields
  <2> QED BY <1>1, <2>1, <2>2
<1> HIDE DEF noted
<1>3. ReaderOK(known) /\ Inside(known)
  BY <1>2 DEF ReaderOK, ReaderFields, Inside
<1> HIDE DEF known, size
<1>4. ReaderOK(checked) /\ Inside(checked) /\ Settled(checked.sector_status)
  BY <1>3, CheckedHome, CheckedOK DEF GoesOn
<1>5. n = [checked EXCEPT !.state = AfterHeader(read_params)]
  BY Zenon DEF TakeHeader, checked, known, noted, named, size
<1> HIDE DEF checked, n
<1>6. n.sector_status = checked.sector_status /\ n.file = checked.file
  BY <1>4, <1>5 DEF ReaderOK, ReaderFields
<1>7. Inside(n) /\ Settled(n.sector_status)
  BY <1>4, <1>6 DEF Inside
<1> QED BY <1>7 DEF n

\* and so the bytes of a header leave the reader at home,
LEMMA HeaderHome ==
  ASSUME JobInv, NEW r, ReaderOK(r), Inside(r), NEW p, NEW base, NEW length, NEW exp, TrackOK(exp),
         exp.cyl = cyl, exp.head = head, read_params.controller # "CONTROLLER_ADAPTEC_4000_18SECTOR_512B"
  PROVE  Home(ProcessHeader(read_params, r, p, base, length, exp))
<1> DEFINE b == Bytes(read_params, p, base)
           h == DecodedHeader(read_params, b, exp, r.sector_index)
           s == HeaderStatus(read_params, h, exp, Ambiguous(read_params, p, base, length))
           blank == [r EXCEPT !.sector_status = s, !.state = "HEADER_SYNC"]
           none == [r EXCEPT !.state = "MARK_ID"]
           taken == TakeHeader(read_params, r, h, s, exp)
           at == base + Info(read_params).data_header_bytes
           new == ProcessHeader(read_params, r, p, base, length, exp)
<1>1. /\ Sectors = 0 .. read_params.num_sectors - 1 /\ read_params.num_head \in Nat
      /\ read_params.controller \in DOMAIN mfm_controller_info \ NotReadable
  BY SectorsOf
<1>2. NumbersOK(h) /\ h.lba = -1
  <2>1. b \in ByteString
    BY BytesRange
  <2> HIDE DEF b
  <2> QED BY <1>1, <2>1, DecodedOK
<1> HIDE DEF b, h
<1>3. StatusOK(s) /\ ~ s.is_lba
  BY <1>2, HeaderStatusOK DEF HeaderStatus, NoSector
<1> HIDE DEF s
<1>4. Home(blank) /\ Home(none)
  BY <1>3 DEF Home, Inside, ReaderOK, ReaderFields
<1>5. ReaderOK(taken) /\ Inside(taken) /\ Settled(taken.sector_status)
  <2>1. ReaderOK(taken)
    BY <1>3, TakeHeaderOK DEF GoesOn
  <2>2. Inside(taken) /\ Settled(taken.sector_status)
    BY <1>3, TakeHeaderHome
  <2> QED BY <2>1, <2>2
<1> HIDE DEF taken, at, blank, none
<1>6. Home(taken) /\ Home(WriteSector(read_params, taken, p, at))
  <2>1. Home(taken)
    BY <1>5 DEF Home
  <2> QED BY <1>5, <2>1, WriteSectorHome
<1>7. new \in {blank, none, taken, WriteSector(read_params, taken, p, at)}
  BY DEF ProcessHeader, HeaderRead, blank, none, taken, at, s, h, b
<1> HIDE DEF new
<1>8. Home(new)
  BY <1>4, <1>6, <1>7
<1> QED BY <1>8 DEF new

\* as do those of its second half,
LEMMA Header2Home ==
  ASSUME NEW r, ReaderOK(r), Inside(r), Settled(r.sector_status), NEW p, NEW base, NEW length
  PROVE  Home(ProcessHeader2(read_params, r, p, base, length))
<1> DEFINE tagged == read_params.controller \in TAGGED
           spoilt == tagged /\ Byte(p, base + 1) # \h43
           wrong == ~ mfm_crc_bytes(read_params, p, FALSE, base, length)
           checked == MarkIf(wrong, r.sector_status, {"SECT_BAD_DATA"})
           s == MarkIf(spoilt, checked, {"SECT_BAD_HEADER"})
           state == IF tagged THEN "MARK_DATA" ELSE "DATA_SYNC"
           after == [r EXCEPT !.sector_status = s, !.state = state]
           at == IF tagged THEN base + 2 ELSE base
           content == Content(read_params, p, "SECTOR_METADATA", at, Info(read_params).metadata_bytes)
           written == mfm_write_metadata(read_params, after, content)
           new == ProcessHeader2(read_params, r, p, base, length)
<1>1. Settled(s) /\ ~ s.is_lba
  <2> HIDE DEF spoilt, wrong
  <2>1. StatusOK(r.sector_status) /\ ~ r.sector_status.is_lba
    BY DEF ReaderOK, Inside
  <2>2. Settled(checked) /\ ~ checked.is_lba
    BY <2>1, MarkSettled
  <2>3. StatusOK(checked)
    BY <2>1, MarkOK
  <2> HIDE DEF checked
  <2> QED BY <2>2, <2>3, MarkSettled
<1> HIDE DEF s, state, content
<1>2. after.sector_status = s /\ after.file = r.file /\ written.sector_status = s /\ written.file = r.file
  BY DEF mfm_write_metadata, ReaderOK, ReaderFields
<1>3. Home(after) /\ Home(written)
  <2> HIDE DEF after, written
  <2> QED BY <1>1, <1>2 DEF Home, Inside
<1>4. new = after \/ new = written
  <2> HIDE DEF checked, at
  <2> QED BY Zenon DEF ProcessHeader2, s, state, content, at, checked
<1> HIDE DEF after, written, new
<1>5. Home(new)
  BY <1>3, <1>4
<1> QED BY <1>5 DEF new

\* and those of the data, which only follow a header.
LEMMA DataHome ==
  ASSUME JobInv, NEW r, ReaderOK(r), Inside(r), Settled(r.sector_status), NEW p, NEW base, NEW length, NEW forced
  PROVE  Home(ProcessData(read_params, r, p, base, length, forced))
<1> DEFINE good == /\ ~ forced
                   /\ mfm_crc_bytes(read_params, p, FALSE, base, length)
                   /\ Byte(p, base + 1) \in DataIds(read_params)
           bad == ~ good
           s == MarkIf(bad, r.sector_status, {"SECT_BAD_DATA"})
           read == [r EXCEPT !.sector_status = s, !.state = "MARK_ID"]
           at == base + Info(read_params).data_header_bytes
<1>1. StatusOK(s) /\ Settled(s) /\ ~ s.is_lba
  <2> HIDE DEF bad
  <2>1. StatusOK(r.sector_status) /\ ~ r.sector_status.is_lba
    BY DEF ReaderOK, Inside
  <2> QED BY <2>1, MarkOK, MarkSettled
<1> HIDE DEF s
<1>2. ReaderOK(read) /\ Inside(read) /\ read.sector_status = s
  BY <1>1 DEF ReaderOK, ReaderFields, Inside, States
<1>3. ProcessData(read_params, r, p, base, length, forced) = WriteSector(read_params, read, p, at)
  BY Zenon DEF ProcessData, s
<1> HIDE DEF read, at
<1> QED BY <1>1, <1>2, <1>3, WriteSectorHome

\* Where a header has a cylinder and a head, the reader is at home.
HomeInv ==
  reader # Idle /\ drive_params.controller # "CONTROLLER_ADAPTEC_4000_18SECTOR_512B" => Home(reader)

\* The bytes of a part are processed, whatever they are.
LEMMA ProcessedHome ==
  ASSUME JobInv, ReaderOK(reader), Home(reader),
         drive_params.controller # "CONTROLLER_ADAPTEC_4000_18SECTOR_512B",
         NEW what \in {"PROCESS_HEADER", "PROCESS_HEADER2", "PROCESS_DATA"},
         Processes(read_params, reader.state) = what,
         NEW p, NEW base, NEW length
  PROVE  Home(mfm_process_bytes(what, p, base, length))
<1> DEFINE exp == [cyl |-> cyl, head |-> head]
           forced == TooFar(read_params, reader, under.at)
<1>1. read_params.controller = drive_params.controller
  BY DEF read_params
<1>2. TrackOK(exp) /\ exp.cyl = cyl /\ exp.head = head
  BY DEF TrackOK, JobInv
<1>3. Inside(reader) /\ (what # "PROCESS_HEADER" => Settled(reader.sector_status))
  BY DEF Home, Processes
<1> HIDE DEF exp, forced
<1>4. CASE what = "PROCESS_HEADER"
  <2>1. Home(ProcessHeader(read_params, reader, p, base, length, exp))
    BY <1>1, <1>2, <1>3, HeaderHome
  <2> QED BY <1>4, <2>1 DEF mfm_process_bytes, exp
<1>5. CASE what = "PROCESS_HEADER2"
  <2>1. Home(ProcessHeader2(read_params, reader, p, base, length))
    BY <1>3, <1>5, Header2Home
  <2> QED BY <1>5, <2>1 DEF mfm_process_bytes
<1>6. CASE what = "PROCESS_DATA"
  <2>1. Home(ProcessData(read_params, reader, p, base, length, forced))
    BY <1>3, <1>6, DataHome
  <2> QED BY <1>6, <2>1 DEF mfm_process_bytes, forced
<1> QED BY <1>4, <1>5, <1>6

\* Where the decoder goes on from says nothing of what it has written.
LEMMA MovedHome ==
  ASSUME NEW after, ReaderOK(after), Home(after), NEW take
  PROVE  Home(Moved(after, take))
<1> DEFINE time == NextHeaderTime(read_params, reader, take.sync, take.end)
           stays == after.state = "DATA_SYNC" /\ read_params.controller \in NORTHSTAR
           part == IF stays THEN after.part ELSE after.part + 1
<1>1. Moved(after, take) = [after EXCEPT !.resume = take.end, !.next_header_time = time,
                                         !.header_at = under.at, !.part = part]
  BY Zenon DEF Moved
<1> HIDE DEF time, part
<1> QED BY <1>1 DEF Home, Inside, ReaderOK, ReaderFields

\* The steps of the reader leave its track, and what is home there, as they are.
LEMMA HomeStays ==
  ASSUME UNCHANGED <<drive_params, cyl, head, num_sectors>>, Home(reader')
  PROVE  Home(reader)'
<1>1. read_params' = read_params /\ TrackBlocks' = TrackBlocks
  BY DEF read_params, controller, TrackBlocks, First
<1>2. InRange(read_params, reader'.sector_status) => InRange(read_params', reader'.sector_status)
  BY <1>1
<1>3. Settled(reader'.sector_status) => Settled(reader.sector_status)'
  BY <1>2 DEF Settled
<1>4. Inside(reader)'
  BY <1>1 DEF Home, Inside
<1> QED BY <1>3, <1>4 DEF Home

\* The reader stays at home, whatever it does.
LEMMA HomeNext ==
  ASSUME WriterInv, ReaderInv, HomeInv, [Next]_vars
  PROVE  HomeInv'
<1>1. JobInv
  BY DEF WriterInv
<1>2. CASE Write
  <2>1. reader = Idle
    BY <1>2 DEF Write, WriteTrack, StartCyl, StartTrack, FillEntry, FieldEntry, AtEntry, EndTrack, ReaderInv
  <2> QED BY <1>2, <2>1 DEF Write, HomeInv, Idle
<1>3. CASE mfm_decode_track
  <2>1. Home(NewReader(read_params))
    BY DEF Home, Inside, NewReader, NoSector
  <2> QED BY <1>3, <2>1, HomeStays DEF mfm_decode_track, HomeInv, writeVars, slotVars, interleaveVars
<1>4. CASE PassPart
  <2>1. ReaderOK(reader) /\ reader # Idle
    BY <1>1, <1>4, BusyReader DEF PassPart, ReaderOK, ReaderFields, Idle
  <2>2. Home(reader) => Home(reader')
    BY <1>4, <2>1 DEF PassPart, Home, Inside, ReaderOK, ReaderFields
  <2> QED BY <1>4, <2>1, <2>2, HomeStays DEF PassPart, HomeInv, writeVars, slotVars, interleaveVars
<1>5. ASSUME NEW what \in {"PROCESS_HEADER", "PROCESS_HEADER2", "PROCESS_DATA"}, ReadPart(what)
      PROVE  HomeInv'
  <2>1. ReaderOK(reader) /\ reader # Idle
    BY <1>1, <1>5, BusyReader DEF ReadPart, ReaderOK, ReaderFields, Idle
  <2>2. SUFFICES ASSUME drive_params.controller # "CONTROLLER_ADAPTEC_4000_18SECTOR_512B"
                 PROVE  Home(reader')
    BY <1>5, HomeStays DEF HomeInv, ReadPart, TakeBytes, writeVars, slotVars, interleaveVars
  <2> DEFINE take == Taken(underPart)
             after == mfm_process_bytes(what, underPart, take.base, take.length)
  <2>3. Home(after)
    BY <1>1, <1>5, <2>1, <2>2, ProcessedHome DEF HomeInv, ReadPart
  <2>4. ReaderOK(after)
    BY <1>1, <2>1, BytesProcessed DEF GoesOn
  <2>5. reader' = Moved(after, take)
    BY <1>5 DEF ReadPart, TakeBytes
  <2> HIDE DEF after, take
  <2> QED BY <2>3, <2>4, <2>5, MovedHome
<1>6. CASE mfm_end_track
  BY <1>6 DEF mfm_end_track, HomeInv
<1>7. CASE NextRead
  BY <1>7 DEF NextRead, ReaderInv, HomeInv
<1>8. CASE UNCHANGED vars
  BY <1>8, HomeStays DEF vars, writeVars, slotVars, interleaveVars, HomeInv
<1> QED BY <1>2, <1>3, <1>4, <1>5, <1>6, <1>7, <1>8 DEF Next

\* mfm_write_sector() never writes into the blocks of another track, whatever the decoders
\* make of the parts: a header that is not of the track, or whose sector is out of range,
\* was marked so by mfm_check_header_values(), and the mark stays up to the data.
THEOREM StaysOnTrackAlways == Spec => []StaysOnTrack
<1>1. Init => HomeInv
  BY Zenon DEF Init, HomeInv
<1>2. TypeInv /\ HomeInv /\ [Next]_vars => HomeInv'
  BY HomeNext DEF TypeInv
<1>3. HomeInv => StaysOnTrack
  BY DEF HomeInv, Home, Inside, StaysOnTrack
<1> QED BY <1>1, <1>2, <1>3, TypeInvAlways, PTL DEF Spec
=============================================================================
