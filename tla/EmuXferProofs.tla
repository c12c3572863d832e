---------------------------- MODULE EmuXferProofs ----------------------------
(***************************************************************************)
(* The handshake of the two PRUs for any number of tracks and words, any   *)
(* size of the queues, and any controller.  What each PRU publishes tells  *)
(* where it is, and the joint invariant says which places of one go with   *)
(* which of the other: PRU 1 is not between the start of a read and its    *)
(* end when PRU 0 sends deltas, and it has the track that PRU 0 selected   *)
(* when a read or write of that track is on its way.                       *)
(***************************************************************************)
EXTENDS EmuXfer, TLAPS

\* What PRU 1 can read of PRU 0's place.
Published0 ==
  /\ p0pc = "idle" => p0state \in {"idle", "readdone"}
  /\ p0pc = "next" => p0state \in {"idle", "readdone", "write"}
  /\ p0pc \in {"waitbit", "waitfill", "read"} => p0state = "read"
  /\ p0pc \in {"stopping", "stepping"} => p0state = "readdone"
  /\ p0pc = "waitwrite" => p0state = "writewait"
  /\ p0pc \in {"capture", "writedone"} => p0state = "write"
  /\ p0pc = "halted" => p0state = "exit"
  /\ p0pc \in {"idle", "next", "waitbit", "waitfill", "read", "stopping", "stepping",
               "waitwrite", "capture", "writedone", "halted"}

\* What PRU 0 can read of PRU 1's.
Published1 ==
  /\ p1pc \in {"waitread", "start", "setbit"} => p1state = "readdone"
  /\ p1pc \in {"bits", "free", "finished"} => p1state \in {"bitset", "filled"}
  /\ p1pc = "writewait" => p1state = "writewait"
  /\ p1pc = "delta" => p1state = "write"
  /\ p1pc = "writedone" => p1state = "writedone"
  /\ p1pc = "done" => p1state \in {"readdone", "bitset", "filled"}
  /\ p1pc \in {"waitread", "start", "setbit", "bits", "free", "finished", "writewait",
               "delta", "writedone", "done"}

\* PRU 0 goes on with a write, and back from it, only with PRU 1.
Together ==
  /\ p0pc \in {"capture", "writedone"} => p1pc \in {"writewait", "delta", "writedone"}
  /\ p1pc \in {"writewait", "delta"} => p0pc \in {"waitwrite", "capture", "writedone"}
  /\ p1pc = "writedone" => p0pc # "idle"
  /\ p0pc \in {"waitfill", "read"} => p1pc \in {"bits", "free", "finished"}
  /\ p0pc = "waitwrite" => p1pc \in {"bits", "free", "finished", "writewait"}
  /\ p1pc = "done" => p0pc = "halted"

\* PRU 1 is at the track PRU 0 selected.
SameTrack ==
  /\ p0pc \in {"waitfill", "read", "waitwrite", "capture", "writedone"} => p1trk = curTrk
  /\ p0pc = "waitbit" /\ p1pc \notin {"waitread", "start"} => p1trk = curTrk
  /\ p0pc = "next" /\ p1pc = "writedone" => p1trk = curTrk

Marked == p1pc \in {"writewait", "delta", "writedone"} => p1trk \in dirty

HandshakeInv == Published0 /\ Published1 /\ Together /\ SameTrack /\ Marked
----------------------------------------------------------------------------

\* Both PRUs start idle.
LEMMA InitHandshake == Init => HandshakeInv
BY DEF Init, HandshakeInv, Published0, Published1, Together, SameTrack, Marked

\* A step of PRU 0 on its way to, in and out of a read.
LEMMA ReadStep0 ==
  ASSUME HandshakeInv,
         Proceed \/ SendTrack \/ GetTrackBit \/ StartOutput \/ OutputWord \/ SelectChange
  PROVE  HandshakeInv'
<1> USE DEF HandshakeInv, Published0, Published1, Together, SameTrack, Marked, p1Vars
<1>1. CASE Proceed
  BY <1>1 DEF Proceed
<1>2. CASE SendTrack
  BY <1>2 DEF SendTrack, Send0, ReadOver
<1>3. CASE GetTrackBit
  BY <1>3 DEF GetTrackBit
<1>4. CASE StartOutput
  BY <1>4 DEF StartOutput
<1>5. CASE OutputWord
  BY <1>5 DEF OutputWord
<1>6. CASE SelectChange
  BY <1>6 DEF SelectChange
<1> QED BY <1>1, <1>2, <1>3, <1>4, <1>5, <1>6

\* A step of PRU 0 in a seek, a write or the exit.
LEMMA OtherStep0 ==
  ASSUME HandshakeInv,
         Stopped \/ Step \/ StepDone \/ SeeExit \/ WriteReady \/ EndWrite \/ WriteDone
  PROVE  HandshakeInv'
<1> USE DEF HandshakeInv, Published0, Published1, Together, SameTrack, Marked, p1Vars
<1>1. CASE Stopped
  BY <1>1 DEF Stopped
<1>2. CASE Step
  BY <1>2 DEF Step
<1>3. CASE StepDone
  BY <1>3 DEF StepDone
<1>4. CASE SeeExit
  BY <1>4 DEF SeeExit, Send0
<1>5. CASE WriteReady
  BY <1>5 DEF WriteReady
<1>6. CASE EndWrite
  BY <1>6 DEF EndWrite, Push
<1>7. CASE WriteDone
  BY <1>7 DEF WriteDone
<1> QED BY <1>1, <1>2, <1>3, <1>4, <1>5, <1>6, <1>7

\* A step of PRU 1.
LEMMA Step1 == ASSUME HandshakeInv, Pru1 PROVE HandshakeInv'
<1> USE DEF HandshakeInv, Published0, Published1, Together, SameTrack, Marked, p0Vars
<1>1. CASE WaitRead
  BY <1>1 DEF WaitRead
<1>2. CASE GetTrack
  BY <1>2 DEF GetTrack
<1>3. CASE SetTrackBit
  BY <1>3 DEF SetTrackBit
<1>4. CASE StoreWord
  BY <1>4 DEF StoreWord
<1>5. CASE WaitFree
  BY <1>5 DEF WaitFree
<1>6. CASE StoreEnd
  BY <1>6 DEF StoreEnd
<1>7. CASE LeaveRead
  BY <1>7 DEF LeaveRead
<1>8. CASE DoWrite
  BY <1>8 DEF DoWrite
<1>9. CASE StartWrite
  BY <1>9 DEF StartWrite
<1>10. CASE TakeDelta
  BY <1>10 DEF TakeDelta
<1>11. CASE RestartRead
  BY <1>11 DEF RestartRead
<1> QED BY <1>1, <1>2, <1>3, <1>4, <1>5, <1>6, <1>7, <1>8, <1>9, <1>10, <1>11 DEF Pru1

\* A step of the controller or the user.
LEMMA LineStep ==
  ASSUME HandshakeInv, ChangeTrack \/ StepFalls \/ BeginWrite \/ WriteData \/ RequestExit
  PROVE  HandshakeInv'
<1> USE DEF HandshakeInv, Published0, Published1, Together, SameTrack, Marked, p0Vars, p1Vars
<1>1. CASE ChangeTrack \/ StepFalls \/ RequestExit
  BY <1>1 DEF ChangeTrack, StepFalls, RequestExit
<1>2. CASE BeginWrite
  BY <1>2 DEF BeginWrite, Send0
<1>3. CASE WriteData
  BY <1>3 DEF WriteData, Push
<1> QED BY <1>1, <1>2, <1>3

\* The handshake of the PRUs holds together under any controller, also one that
\* changes its lines during a write.
THEOREM HandshakeCorrect == Spec => []HandshakeInv
<1>1. HandshakeInv /\ UNCHANGED vars => HandshakeInv'
  BY DEF HandshakeInv, Published0, Published1, Together, SameTrack, Marked, vars, p0Vars, p1Vars
<1>2. HandshakeInv /\ [Next]_vars => HandshakeInv'
  BY <1>1, ReadStep0, OtherStep0, Step1, LineStep DEF Next, Pru0
<1> QED BY <1>2, InitHandshake, PTL DEF Spec

\* At no time do the two PRUs store in the shared RAM together.
THEOREM OneProducerAlways == Spec => []OneProducer
<1>1. HandshakeInv => OneProducer
  BY DEF HandshakeInv, Together, OneProducer
<1> QED BY <1>1, HandshakeCorrect, PTL

\* Whatever PRU 1 writes to is marked, so that the ARM will save it.
THEOREM DirtyAlwaysCovers == Spec => []DirtyCoversWrite
<1>1. HandshakeInv => DirtyCoversWrite
  BY DEF HandshakeInv, Marked, DirtyCoversWrite
<1> QED BY <1>1, HandshakeCorrect, PTL

(***************************************************************************)
(* A write lands where it was meant to.  Between the two offsets are the   *)
(* deltas that PRU 0 has sent and PRU 1 has still to take: the first is    *)
(* for the word PRU 1 is at, each for the word after that of the one       *)
(* before, and TRACK_BIT of PRU 0 for the word after the last.             *)
(***************************************************************************)
Slots == 0 .. WriteSlots - 1

\* How far slot b is ahead of slot a, and the slots from a up to b.
Ahead(a, b) == IF b >= a THEN b - a ELSE b - a + WriteSlots
Between(a, b) == {s \in Slots : Ahead(a, s) < Ahead(a, b)}
Pending == Between(p1off, off0)

FirstPending == p1off # off0 => ram[p1off] \in {Zero, Delta(curTrk, p1word)}

InTurn ==
  \A s \in Pending : NextWrite(s) # off0 =>
     /\ ram[s].kind = "delta"
     /\ ram[NextWrite(s)] \in {Zero, Delta(curTrk, (ram[s].word + 1) % TrackWords)}

LastPending ==
  p0pc = "capture" =>
    /\ p1off = off0 => trackBit = p1word
    /\ \A s \in Pending : /\ ram[s].kind = "delta"
                          /\ NextWrite(s) = off0 => trackBit = (ram[s].word + 1) % TrackWords

Offsets ==
  /\ p0pc = "waitwrite" => p0off = 0 /\ off0 = 0 /\ bitReg = trackBit
  /\ p0pc = "waitwrite" /\ p1pc = "writewait" => p1word = trackBit
  /\ p0pc \in {"capture", "writedone"} => p0off = off0 /\ off0 \in Slots
  /\ p1pc = "writewait" => p1off = 0
  /\ p1pc \in {"writewait", "delta"} => p1off \in Slots

RamOK == ram = [s \in Slots |-> ram[s]]

Writing == p0pc \in {"capture", "writedone"} /\ p1pc \in {"writewait", "delta"}

WriteInv == RamOK /\ Offsets /\ (Writing => FirstPending /\ InTurn /\ LastPending)

\* The offset of the write queue wraps at its end.
LEMMA NextWriteWraps ==
  ASSUME NEW s \in Slots
  PROVE  /\ NextWrite(s) = IF s = WriteSlots - 1 THEN 0 ELSE s + 1
         /\ NextWrite(s) \in Slots
<1>1. WriteSlots \in Nat /\ WriteSlots > 0
  BY QueueAssumption
<1>2. CASE s = WriteSlots - 1
  <2>1. (s + 1) % WriteSlots = 0
    BY <1>1, <1>2
  <2>2. QED BY <1>1, <1>2, <2>1 DEF NextWrite, Slots
<1>3. CASE s # WriteSlots - 1
  <2>1. s + 1 \in 0 .. WriteSlots - 1
    BY <1>1, <1>3 DEF Slots
  <2>2. (s + 1) % WriteSlots = s + 1
    BY <1>1, <2>1
  <2>3. QED BY <1>1, <1>3, <2>1, <2>2 DEF NextWrite, Slots
<1>4. QED BY <1>2, <1>3

\* No two places of the queue come before the same one.
LEMMA NextWriteInjective ==
  ASSUME NEW s \in Slots, NEW t \in Slots, NextWrite(s) = NextWrite(t)
  PROVE  s = t
BY NextWriteWraps, QueueAssumption DEF Slots

\* Sending adds the place at the offset of PRU 0, if there is room.
LEMMA BetweenGrows ==
  ASSUME NEW a \in Slots, NEW b \in Slots, NextWrite(b) # a
  PROVE  /\ Between(a, NextWrite(b)) = Between(a, b) \cup {b}
         /\ b \notin Between(a, b)
<1>1. WriteSlots \in Nat /\ WriteSlots > 0
  BY QueueAssumption
<1>2. Ahead(a, NextWrite(b)) = Ahead(a, b) + 1
  BY <1>1, NextWriteWraps DEF Ahead, Slots
<1>3. \A s \in Slots : Ahead(a, s) \in Nat /\ (Ahead(a, s) = Ahead(a, b) => s = b)
  BY <1>1 DEF Ahead, Slots
<1>4. \A s \in Slots : Ahead(a, s) < Ahead(a, b) + 1 <=> Ahead(a, s) < Ahead(a, b) \/ s = b
  BY <1>3
<1> QED BY <1>2, <1>3, <1>4 DEF Between

\* Taking removes the place at the offset of PRU 1.
LEMMA BetweenShrinks ==
  ASSUME NEW a \in Slots, NEW b \in Slots, a # b
  PROVE  /\ Between(NextWrite(a), b) = Between(a, b) \ {a}
         /\ a \in Between(a, b)
<1>1. WriteSlots \in Nat /\ WriteSlots > 0
  BY QueueAssumption
<1>2. NextWrite(a) \in Slots /\ NextWrite(a) = IF a = WriteSlots - 1 THEN 0 ELSE a + 1
  BY NextWriteWraps
<1>3. \A s \in Slots \ {a} : Ahead(NextWrite(a), s) = Ahead(a, s) - 1
  BY <1>1, <1>2 DEF Ahead, Slots
<1>4. Ahead(NextWrite(a), a) = WriteSlots - 1 /\ Ahead(a, a) = 0 /\ Ahead(a, b) > 0
  BY <1>1, <1>2 DEF Ahead, Slots
<1>5. \A s \in Slots : Ahead(a, s) \in 0 .. WriteSlots - 1
  BY <1>1 DEF Ahead, Slots
<1>6. \A s \in Slots \ {a} : Ahead(NextWrite(a), s) < Ahead(NextWrite(a), b) <=> Ahead(a, s) < Ahead(a, b)
  BY <1>3, <1>5
<1>7. ~ (Ahead(NextWrite(a), a) < Ahead(NextWrite(a), b))
  BY <1>1, <1>3, <1>4, <1>5
<1> QED BY <1>4, <1>6, <1>7 DEF Between

\* After a pending place comes another, or the offset of PRU 0.
LEMMA BetweenIsRun ==
  ASSUME NEW a \in Slots, NEW b \in Slots, NEW s \in Between(a, b)
  PROVE  /\ s \in Slots
         /\ NextWrite(s) # a
         /\ NextWrite(s) # b => NextWrite(s) \in Between(a, b)
<1>1. WriteSlots \in Nat /\ WriteSlots > 0
  BY QueueAssumption
<1>2. s \in Slots /\ Ahead(a, s) < Ahead(a, b)
  BY DEF Between
<1>3. NextWrite(s) \in Slots /\ NextWrite(s) = IF s = WriteSlots - 1 THEN 0 ELSE s + 1
  BY <1>2, NextWriteWraps
<1>4. NextWrite(s) # a
  BY <1>1, <1>2, <1>3 DEF Ahead, Slots
<1>5. Ahead(a, NextWrite(s)) = Ahead(a, s) + 1
  BY <1>1, <1>2, <1>3, <1>4 DEF Ahead, Slots
<1>6. NextWrite(s) # b => Ahead(a, NextWrite(s)) < Ahead(a, b)
  BY <1>1, <1>2, <1>3, <1>5 DEF Ahead, Slots
<1> QED BY <1>2, <1>3, <1>4, <1>6 DEF Between

\* The queue is not in use when the PRUs start.
LEMMA InitWrite == Init => WriteInv
BY DEF Init, WriteInv, RamOK, Offsets, Writing, Slots

\* The steps of PRU 0 and the controller that are not part of a write.
LEMMA WriteInvKept0 ==
  ASSUME HandshakeInv, WriteInv,
         \/ Proceed \/ SendTrack \/ GetTrackBit \/ StartOutput \/ OutputWord \/ SelectChange
         \/ Stopped \/ Step \/ StepDone \/ SeeExit \/ WriteDone
  PROVE  WriteInv'
<1>1. /\ ram' = ram /\ UNCHANGED <<p1pc, p1off>>
      /\ p0pc' \notin {"waitwrite", "capture", "writedone"}
  BY DEF HandshakeInv, Published0, Proceed, SendTrack, GetTrackBit, StartOutput, OutputWord,
         SelectChange, Stopped, Step, StepDone, SeeExit, WriteDone, p1Vars
<1> QED BY <1>1 DEF WriteInv, RamOK, Offsets, Writing

\* What changes lines only does not touch the queue.
LEMMA WriteInvLines ==
  ASSUME WriteInv, ChangeTrack \/ StepFalls \/ RequestExit \/ UNCHANGED vars
  PROVE  WriteInv'
<1>1. UNCHANGED <<ram, bitReg, p0Vars, p1Vars>>
  BY DEF ChangeTrack, StepFalls, RequestExit, vars
<1> QED BY <1>1 DEF WriteInv, RamOK, Offsets, Writing, FirstPending, InTurn, LastPending, Pending,
                    p0Vars, p1Vars

\* A write begins with both offsets at the first place and PRU 1 at TRACK_BIT.
LEMMA WriteInvBegin ==
  ASSUME HandshakeInv, WriteInv, BeginWrite \/ WriteReady
  PROVE  WriteInv'
<1>1. CASE BeginWrite
  BY <1>1 DEF BeginWrite, Send0, HandshakeInv, Together, WriteInv, RamOK, Offsets, Writing, p1Vars
<1>2. CASE WriteReady
  <2>1. p1pc = "writewait" /\ p1off = 0 /\ off0 = 0 /\ p0off = 0 /\ p1word = trackBit
    BY <1>2 DEF WriteReady, HandshakeInv, Published1, Together, WriteInv, Offsets
  <2>2. /\ UNCHANGED <<ram, p1pc, p1off, p1word, off0, p0off, trackBit, curTrk>>
        /\ p0pc' = "capture"
    BY <1>2 DEF WriteReady, p1Vars
  <2>3. 0 \in Slots
    BY QueueAssumption DEF Slots
  <2>4. Pending' = {}
    BY <2>1, <2>2 DEF Pending, Between, Ahead, Slots
  <2> QED
    BY <2>1, <2>2, <2>3, <2>4 DEF WriteInv, RamOK, Offsets, Writing, FirstPending, InTurn, LastPending
<1> QED BY <1>1, <1>2

\* PRU 0 sends a delta for TRACK_BIT, or the zero that ends the write.
LEMMA WriteInvSend ==
  ASSUME HandshakeInv, WriteInv, WriteData \/ EndWrite
  PROVE  WriteInv'
<1>1. /\ p0pc = "capture" /\ RoomForDelta
      /\ off0' = NextWrite(off0) /\ p0off' = NextWrite(off0)
      /\ UNCHANGED <<p1pc, p1off, p1word, curTrk, bitReg>>
      /\ p0pc' \in {"capture", "writedone"}
  BY DEF WriteData, EndWrite, Push, p1Vars
<1>2. p0off = off0 /\ off0 \in Slots
  BY <1>1 DEF WriteInv, Offsets
<1>3. off0' \in Slots /\ RamOK' /\ Offsets'
  <2>1. ram' \in {[ram EXCEPT ![off0] = Zero], [ram EXCEPT ![off0] = Delta(curTrk, trackBit)]}
    BY DEF WriteData, EndWrite, Push
  <2> QED BY <1>1, <1>2, <2>1, NextWriteWraps DEF WriteInv, Offsets, RamOK
<1>4. ASSUME Writing PROVE FirstPending' /\ InTurn' /\ LastPending'
  <2>1. /\ p1off \in Slots /\ NextWrite(off0) # p1off
        /\ FirstPending /\ InTurn /\ LastPending
    BY <1>1, <1>4 DEF RoomForDelta, Writing, WriteInv, Offsets
  <2>2. Pending' = Pending \cup {off0} /\ off0 \notin Pending
    BY <1>1, <1>2, <2>1, BetweenGrows DEF Pending
  <2>3. \A s \in Pending : /\ s \in Slots /\ NextWrite(s) # NextWrite(off0)
                           /\ NextWrite(s) # off0 => NextWrite(s) \in Pending
    BY <1>2, <2>1, <2>2, BetweenIsRun, NextWriteInjective DEF Pending
  <2>4. \A s \in Slots \ {off0} : ram'[s] = ram[s]
    BY <1>2 DEF WriteData, EndWrite, Push, WriteInv, RamOK
  <2>5. p1off # off0 => p1off \in Pending
    BY <1>2, <2>1, BetweenShrinks DEF Pending
  <2>6. CASE WriteData
    <3>1. /\ ram'[off0] = Delta(curTrk, trackBit)
          /\ trackBit' = (trackBit + 1) % TrackWords
      BY <1>2, <2>6 DEF WriteData, Push, WriteInv, RamOK
    <3>2. ram'[off0].kind = "delta" /\ ram'[off0].word = trackBit
      BY <3>1 DEF Delta
    <3>3. FirstPending'
      BY <1>1, <2>1, <2>4, <2>5, <3>1 DEF FirstPending, LastPending
    <3>4. InTurn'
      BY <1>1, <2>1, <2>2, <2>3, <2>4, <3>1 DEF InTurn, LastPending
    <3>5. LastPending'
      BY <1>1, <2>1, <2>2, <2>3, <2>4, <3>1, <3>2 DEF LastPending
    <3> QED BY <3>3, <3>4, <3>5
  <2>7. CASE EndWrite
    <3>1. ram'[off0] = Zero /\ p0pc' = "writedone"
      BY <1>2, <2>7 DEF EndWrite, Push, WriteInv, RamOK
    <3>2. FirstPending'
      BY <1>1, <2>1, <2>4, <2>5, <3>1 DEF FirstPending
    <3>3. InTurn'
      BY <1>1, <2>1, <2>2, <2>3, <2>4, <3>1 DEF InTurn, LastPending
    <3>4. LastPending'
      BY <3>1 DEF LastPending
    <3> QED BY <3>2, <3>3, <3>4
  <2> QED BY <2>6, <2>7
<1>5. Writing' => Writing
  BY <1>1 DEF Writing
<1> QED BY <1>3, <1>4, <1>5 DEF WriteInv

\* The steps of PRU 1 that are not part of a write.
LEMMA WriteInvKept1 ==
  ASSUME HandshakeInv, WriteInv,
         \/ WaitRead \/ GetTrack \/ SetTrackBit \/ StoreWord \/ WaitFree \/ StoreEnd
         \/ LeaveRead \/ RestartRead
  PROVE  WriteInv'
<1>1. /\ p1pc' \notin {"writewait", "delta"}
      /\ UNCHANGED <<p0pc, p0off, off0, trackBit>>
      /\ bitReg' = bitReg \/ p0pc # "waitwrite"
  BY DEF WaitRead, GetTrack, SetTrackBit, StoreWord, WaitFree, StoreEnd, LeaveRead, RestartRead,
         p0Vars, HandshakeInv, Together
<1>2. ram' = ram \/ \E s, x : ram' = [ram EXCEPT ![s] = x]
  BY DEF WaitRead, GetTrack, SetTrackBit, StoreWord, WaitFree, StoreEnd, LeaveRead, RestartRead
<1>3. RamOK'
  BY <1>2 DEF WriteInv, RamOK
<1> QED BY <1>1, <1>3 DEF WriteInv, Offsets, Writing

\* PRU 1 turns to the write, and takes what PRU 0 sent.
LEMMA WriteInvTake ==
  ASSUME HandshakeInv, WriteInv, DoWrite \/ StartWrite \/ TakeDelta
  PROVE  WriteInv'
<1>1. CASE DoWrite
  <2>1. p0pc = "waitwrite" /\ 0 \in Slots
    BY <1>1, QueueAssumption DEF DoWrite, HandshakeInv, Published0, Slots
  <2> QED BY <1>1, <2>1 DEF DoWrite, WriteInv, RamOK, Offsets, Writing, p0Vars
<1>2. CASE StartWrite
  <2>1. p0pc \in {"capture", "writedone"}
    BY <1>2 DEF StartWrite, HandshakeInv, Published0, Together
  <2> QED BY <1>2, <2>1 DEF StartWrite, WriteInv, RamOK, Offsets, Writing, FirstPending, InTurn,
                            LastPending, Pending, p0Vars
<1>3. CASE TakeDelta
  <2>1. /\ p1pc = "delta" /\ p0pc \in {"capture", "writedone"} /\ p0off = off0 /\ off0 \in Slots
        /\ p1off \in Slots /\ p1off # off0
        /\ FirstPending /\ InTurn /\ LastPending
    BY <1>3 DEF TakeDelta, HandshakeInv, Together, WriteInv, Offsets, Writing
  <2>2. UNCHANGED <<ram, p0pc, p0off, off0, trackBit, curTrk, bitReg>>
    BY <1>3 DEF TakeDelta, p0Vars
  <2>3. CASE ram[p1off].kind = "zero"
    BY <1>3, <2>1, <2>2, <2>3 DEF TakeDelta, WriteInv, RamOK, Offsets, Writing
  <2>4. CASE ram[p1off].kind # "zero"
    <3>1. /\ p1off' = NextWrite(p1off) /\ p1word' = (p1word + 1) % TrackWords
          /\ p1pc' = "delta" /\ p1off' \in Slots
      BY <1>3, <2>1, <2>4, NextWriteWraps DEF TakeDelta
    <3>2. ram[p1off] = Delta(curTrk, p1word) /\ ram[p1off].word = p1word
      BY <2>1, <2>4 DEF FirstPending, Zero, Delta
    <3>3. Pending' = Pending \ {p1off} /\ p1off \in Pending
      BY <2>1, <2>2, <3>1, BetweenShrinks DEF Pending
    <3>4. FirstPending'
      BY <2>1, <2>2, <3>1, <3>2, <3>3 DEF FirstPending, InTurn
    <3>5. InTurn'
      BY <2>1, <2>2, <3>3 DEF InTurn
    <3>6. LastPending'
      BY <2>1, <2>2, <3>1, <3>2, <3>3 DEF LastPending
    <3> QED BY <2>1, <2>2, <3>1, <3>4, <3>5, <3>6 DEF WriteInv, RamOK, Offsets
  <2> QED BY <2>3, <2>4
<1> QED BY <1>1, <1>2, <1>3

\* Whatever the lengths of track and queue, and wherever the write begins and ends,
\* The queue of a write is in order throughout.
LEMMA WriteInvariant == Spec => []WriteInv
<1>1. HandshakeInv /\ WriteInv /\ [Next]_vars => WriteInv'
  BY WriteInvKept0, WriteInvLines, WriteInvBegin, WriteInvSend, WriteInvKept1, WriteInvTake
     DEF Next, Pru0, Pru1
<1> QED BY <1>1, InitWrite, HandshakeCorrect, PTL DEF Spec

\* PRU 1 stores each delta at the track and word PRU 0 sent it for.
THEOREM WritesAlwaysLand == Spec => []WritesLand
<1>1. HandshakeInv /\ WriteInv => WritesLand
  <2> SUFFICES ASSUME HandshakeInv, WriteInv, p1pc = "delta", p0off # p1off, ram[p1off] # Zero
               PROVE  ram[p1off] = Delta(p1trk, p1word)
    BY DEF WritesLand
  <2>1. Writing /\ p0off = off0 /\ p1trk = curTrk
    BY DEF HandshakeInv, Together, SameTrack, WriteInv, Offsets, Writing
  <2> QED BY <2>1 DEF WriteInv, FirstPending
<1> QED BY <1>1, WriteInvariant, HandshakeCorrect, PTL

(***************************************************************************)
(* A read shows the words of the track in their order.  Between the offset *)
(* of PRU 0 and that of PRU 1 are the words PRU 1 has looked up and PRU 0  *)
(* has still to output: the first is the one at TRACK_BIT, each is         *)
(* followed by the next of the track, and PRU 1 is at the word after the   *)
(* last.  A read that the end of a write starts finds deltas of that write *)
(* before the words, as many as PRU 1 had taken; they can only keep        *)
(* TRACK_BIT behind.                                                       *)
(***************************************************************************)
ReadPlaces == 0 .. ReadSlots - 1

\* How far place b is ahead of place a in the queue of a read, how many places from a up
\* to b are filled, and which.  Equal offsets mean a full queue except before a store.
ReadAhead(a, b) == IF b >= a THEN b - a ELSE b - a + ReadSlots
Filled(a, b, pc) == IF a = b THEN IF pc = "bits" THEN 0 ELSE ReadSlots ELSE ReadAhead(a, b)
UnreadPlaces(a, b, pc) == {s \in ReadPlaces : ReadAhead(a, s) < Filled(a, b, pc)}
Unread == UnreadPlaces(off0, p1off, p1pc)

\* The positions of a track are its words and, last, its end mark.
NextPos(p) == IF p = TrackWords THEN 0 ELSE p + 1
PosOf(item) == IF item.kind = "zero" THEN TrackWords ELSE item.word
Item(p) == IF p = TrackWords THEN Zero ELSE Pwm(p1trk, p)
Stale(s) == ram[s].kind = "delta"

\* The position PRU 0 outputs next, and the one PRU 1 stores next
OutPos == IF p0pc = "waitbit" THEN bitReg ELSE trackBit
InPos == IF p1pc = "finished" THEN TrackWords ELSE p1word

Reading == p0pc \in {"waitbit", "waitfill", "read"} /\ p1pc \in {"bits", "free", "finished"}

\* What PRU 0 publishes of its offset is at most one word behind, after an end mark; PRU 1
\* never stores where PRU 0 has not been.
ReadOffsets ==
  /\ p0pc \in {"waitbit", "waitfill"} => off0 = 0 /\ p0off = 0
  /\ p0pc = "waitbit" /\ p1pc \in {"bits", "free", "finished"} => p1state = "bitset"
  /\ p0pc = "waitfill" /\ p1state = "filled" => p1off = 0 /\ p1pc \in {"free", "finished"}
  /\ p0pc = "read" =>
       /\ off0 \in ReadPlaces /\ p0off \in ReadPlaces /\ p1off \in ReadPlaces
       /\ \/ p0off = off0
          \/ NextRead(p0off) = off0 /\ off0 # p1off /\ ram[off0].kind = "pwm"
       /\ p1pc = "bits" => p0off # p1off
  /\ p1pc \in {"free", "finished"} => p1off \in ReadPlaces
  /\ p1pc = "bits" => p1off \in Slots /\ (~restarted => p1off \in ReadPlaces)
  /\ p1pc = "finished" => p1word = 0

\* Up to where PRU 1 has taken a write, the queue holds deltas.
StaleWrite ==
  /\ p0pc = "capture" => p1pc # "writedone" /\ \A s \in Slots : s < off0 => Stale(s)
  /\ p0pc = "writedone" => \A z, s \in Slots : NextWrite(z) = off0 /\ s < z => Stale(s)
  /\ p1pc = "writedone" => p1off \in Slots /\ \A s \in Slots : s < p1off => Stale(s)
  /\ p0pc \in {"waitwrite", "capture"} => trackBit \in Words

\* What is not a delta is a word of the track PRU 1 is at, or its end mark.
ItemsOK == \A s \in Unread : Stale(s) \/ ram[s] = Item(PosOf(ram[s]))

\* Deltas come before words.
StaleFirst ==
  \A s, t \in Unread : ReadAhead(off0, s) <= ReadAhead(off0, t) /\ Stale(t) => Stale(s)

\* A word is followed by the next one.
ReadInTurn ==
  \A s \in Unread : NextRead(s) \in Unread /\ NextRead(s) # off0 =>
     IF Stale(s) THEN Stale(NextRead(s)) \/ PosOf(ram[NextRead(s)]) >= OutPos
                 ELSE ram[NextRead(s)] = Item(NextPos(PosOf(ram[s])))

\* TRACK_BIT is not ahead of the first word.
FirstRead == off0 \in Unread => Stale(off0) \/ PosOf(ram[off0]) >= OutPos

\* PRU 1 is at the word after the last.
LastRead ==
  /\ \A s \in Unread : NextRead(s) = p1off =>
       IF Stale(s) THEN InPos >= OutPos ELSE InPos = NextPos(PosOf(ram[s]))
  /\ Unread = {} => InPos >= OutPos
  /\ p1off \notin ReadPlaces => InPos >= OutPos /\ \A s \in ReadPlaces : Stale(s)

\* A read that follows no write has no deltas, and TRACK_BIT is exact.
Fresh ==
  ~restarted => /\ \A s \in Unread : ~Stale(s)
                /\ off0 \in Unread => PosOf(ram[off0]) = OutPos
                /\ Unread = {} => InPos = OutPos

ReadInv == Reading => ItemsOK /\ StaleFirst /\ ReadInTurn /\ FirstRead /\ LastRead /\ Fresh

\* All that a transfer is in, beside the handshake and the queue of a write
TransferInv == TypeOK /\ StaleWrite /\ ReadOffsets /\ ReadInv

\* The queue of a read is a part of that of a write.
LEMMA QueueSizes ==
  /\ ReadSlots \in Nat /\ ReadSlots > 2 /\ WriteSlots \in Nat /\ WriteSlots >= ReadSlots
  /\ TrackWords \in Nat /\ TrackWords > 0
  /\ ReadPlaces \subseteq Slots
<1>1. /\ ReadSlots \in Nat /\ ReadSlots > 2 /\ WriteSlots \in Nat /\ WriteSlots > 0
      /\ TrackWords \in Nat /\ TrackWords > 0 /\ WriteSlots % ReadSlots = 0
  BY QueueAssumption
<1>2. WriteSlots >= ReadSlots
  <2> SUFFICES ASSUME WriteSlots < ReadSlots PROVE FALSE
    BY <1>1
  <2>1. WriteSlots % ReadSlots = WriteSlots
    BY <1>1
  <2>2. QED BY <1>1, <2>1
<1>3. QED BY <1>1, <1>2 DEF ReadPlaces, Slots

\* The offset of the read queue wraps at its end ...
LEMMA NextReadWraps ==
  ASSUME NEW s \in ReadPlaces
  PROVE  /\ NextRead(s) = IF s = ReadSlots - 1 THEN 0 ELSE s + 1
         /\ NextRead(s) \in ReadPlaces /\ NextRead(s) # s
<1>1. ReadSlots \in Nat /\ ReadSlots > 2
  BY QueueSizes
<1>2. CASE s = ReadSlots - 1
  <2>1. (s + 1) % ReadSlots = 0
    BY <1>1, <1>2
  <2>2. QED BY <1>1, <1>2, <2>1 DEF NextRead, ReadPlaces
<1>3. CASE s # ReadSlots - 1
  <2>1. s + 1 \in 0 .. ReadSlots - 1
    BY <1>1, <1>3 DEF ReadPlaces
  <2>2. (s + 1) % ReadSlots = s + 1
    BY <1>1, <2>1
  <2>3. QED BY <1>1, <1>3, <2>1, <2>2 DEF NextRead, ReadPlaces
<1>4. QED BY <1>2, <1>3

\* ... also from a place of the write queue beyond it.
LEMMA NextReadPlace ==
  ASSUME NEW s \in Slots
  PROVE  NextRead(s) \in ReadPlaces
<1>1. /\ ReadSlots \in Nat /\ ReadSlots > 0 /\ s + 1 \in Nat
  BY QueueSizes DEF Slots
<1>2. (s + 1) % ReadSlots \in 0 .. ReadSlots - 1
  BY <1>1
<1>3. QED BY <1>2 DEF NextRead, ReadPlaces

\* No two places of the read queue come before the same one.
LEMMA NextReadInjective ==
  ASSUME NEW s \in ReadPlaces, NEW t \in ReadPlaces, NextRead(s) = NextRead(t)
  PROVE  s = t
BY NextReadWraps, QueueSizes DEF ReadPlaces

\* The words of a track wrap.
LEMMA NextWord ==
  ASSUME NEW w \in Words
  PROVE  /\ (w + 1) % TrackWords = IF w = TrackWords - 1 THEN 0 ELSE w + 1
         /\ (w + 1) % TrackWords \in Words
<1>1. TrackWords \in Nat /\ TrackWords > 0
  BY QueueSizes
<1>2. CASE w = TrackWords - 1
  <2>1. (w + 1) % TrackWords = 0
    BY <1>1, <1>2
  <2>2. QED BY <1>1, <1>2, <2>1 DEF Words
<1>3. CASE w # TrackWords - 1
  <2>1. w + 1 \in 0 .. TrackWords - 1
    BY <1>1, <1>3 DEF Words
  <2>2. (w + 1) % TrackWords = w + 1
    BY <1>1, <2>1
  <2>3. QED BY <1>1, <1>3, <2>1, <2>2 DEF Words
<1>4. QED BY <1>2, <1>3

\* Storing adds the place at the offset of PRU 1, if there is room.
LEMMA UnreadGrows ==
  ASSUME NEW a \in ReadPlaces, NEW b \in ReadPlaces, NEW pc, NEW pc2,
         a = b => pc = "bits", pc2 # "bits"
  PROVE  /\ UnreadPlaces(a, NextRead(b), pc2) = UnreadPlaces(a, b, pc) \cup {b}
         /\ b \notin UnreadPlaces(a, b, pc)
         /\ \A s \in UnreadPlaces(a, b, pc) : ReadAhead(a, s) < ReadAhead(a, b)
         /\ NextRead(b) # a => NextRead(b) \notin UnreadPlaces(a, b, pc)
         /\ a = b => UnreadPlaces(a, b, pc) = {}
<1>1. ReadSlots \in Nat /\ ReadSlots > 2
  BY QueueSizes
<1>2. NextRead(b) = IF b = ReadSlots - 1 THEN 0 ELSE b + 1
  BY NextReadWraps
<1>3. Filled(a, b, pc) = ReadAhead(a, b)
  BY <1>1 DEF Filled, ReadAhead, ReadPlaces
<1>4. Filled(a, NextRead(b), pc2) = ReadAhead(a, b) + 1
  BY <1>1, <1>2 DEF Filled, ReadAhead, ReadPlaces
<1>5. \A s \in ReadPlaces : ReadAhead(a, s) \in Nat /\ (ReadAhead(a, s) = ReadAhead(a, b) => s = b)
  BY <1>1 DEF ReadAhead, ReadPlaces
<1>6. \A s \in ReadPlaces : ReadAhead(a, s) < ReadAhead(a, b) + 1
                              <=> ReadAhead(a, s) < ReadAhead(a, b) \/ s = b
  BY <1>5
<1>7. NextRead(b) # a => ReadAhead(a, NextRead(b)) = ReadAhead(a, b) + 1
  BY <1>1, <1>2 DEF ReadAhead, ReadPlaces
<1>8. ReadAhead(a, b) \in Nat /\ (a = b => ReadAhead(a, b) = 0)
  BY <1>1 DEF ReadAhead, ReadPlaces
<1>9. UnreadPlaces(a, b, pc) = {s \in ReadPlaces : ReadAhead(a, s) < ReadAhead(a, b)}
  BY <1>3 DEF UnreadPlaces
<1>10. UnreadPlaces(a, NextRead(b), pc2)
         = {s \in ReadPlaces : ReadAhead(a, s) < ReadAhead(a, b) + 1}
  BY <1>4 DEF UnreadPlaces
<1>11. NextRead(b) # a => NextRead(b) \notin UnreadPlaces(a, b, pc)
  BY <1>7, <1>8, <1>9
<1>12. a = b => UnreadPlaces(a, b, pc) = {}
  BY <1>5, <1>8, <1>9
<1>13. QED BY <1>5, <1>6, <1>8, <1>9, <1>10, <1>11, <1>12

\* Output removes the place at the offset of PRU 0; one more word is there.
LEMMA UnreadShrinks ==
  ASSUME NEW a \in ReadPlaces, NEW b \in ReadPlaces, NEW pc, NextRead(a) # b,
         a = b => pc # "bits"
  PROVE  /\ UnreadPlaces(NextRead(a), b, pc) = UnreadPlaces(a, b, pc) \ {a}
         /\ a \in UnreadPlaces(a, b, pc) /\ NextRead(a) \in UnreadPlaces(a, b, pc)
         /\ \A s \in UnreadPlaces(a, b, pc) \ {a} : ReadAhead(NextRead(a), s) = ReadAhead(a, s) - 1
         /\ \A s \in UnreadPlaces(a, b, pc) : ReadAhead(a, s) \in Nat
<1>1. ReadSlots \in Nat /\ ReadSlots > 2
  BY QueueSizes
<1>2. /\ NextRead(a) = IF a = ReadSlots - 1 THEN 0 ELSE a + 1
      /\ NextRead(a) \in ReadPlaces
  BY NextReadWraps
<1>3. Filled(a, b, pc) = IF a = b THEN ReadSlots ELSE ReadAhead(a, b)
  BY DEF Filled
<1>4. Filled(NextRead(a), b, pc) = Filled(a, b, pc) - 1 /\ Filled(a, b, pc) > 1
  BY <1>1, <1>2, <1>3 DEF Filled, ReadAhead, ReadPlaces
<1>5. /\ \A s \in ReadPlaces : ReadAhead(a, s) \in Nat
      /\ \A s \in ReadPlaces \ {a} : ReadAhead(NextRead(a), s) = ReadAhead(a, s) - 1
      /\ ReadAhead(a, a) = 0 /\ ReadAhead(a, NextRead(a)) = 1
      /\ ReadAhead(NextRead(a), a) = ReadSlots - 1
  BY <1>1, <1>2 DEF ReadAhead, ReadPlaces
<1>6. Filled(a, b, pc) \in Nat /\ Filled(a, b, pc) <= ReadSlots
  BY <1>1, <1>3 DEF ReadAhead, ReadPlaces
<1>7. \A s \in ReadPlaces : ReadAhead(NextRead(a), s) < Filled(NextRead(a), b, pc)
                              <=> ReadAhead(a, s) < Filled(a, b, pc) /\ s # a
  BY <1>1, <1>4, <1>5, <1>6
<1>8. QED BY <1>1, <1>2, <1>4, <1>5, <1>6, <1>7 DEF UnreadPlaces

\* Only before a store do equal offsets mean an empty queue.
LEMMA UnreadSame ==
  ASSUME NEW a, NEW b, NEW pc, NEW pc2, a # b \/ (pc # "bits" /\ pc2 # "bits")
  PROVE  UnreadPlaces(a, b, pc2) = UnreadPlaces(a, b, pc)
BY DEF UnreadPlaces, Filled

\* A position and what is stored for it determine each other.
LEMMA Positions ==
  /\ \A p : Item(p) = IF p = TrackWords THEN Zero ELSE Pwm(p1trk, p)
  /\ \A p \in 0 .. TrackWords : PosOf(Item(p)) = p /\ Item(p).kind # "delta"
                                /\ (Item(p).kind = "zero" <=> p = TrackWords)
  /\ \A p \in 0 .. TrackWords : NextPos(p) \in 0 .. TrackWords
  /\ \A t, w : Delta(t, w).kind = "delta"
BY QueueSizes DEF Item, PosOf, Zero, Pwm, Delta, NextPos

\* While PRU 0 outputs, PRU 1 fills the queue, and it is not empty.
LEMMA ReadTogether ==
  ASSUME HandshakeInv, ReadOffsets, p0pc = "read"
  PROVE  /\ Reading /\ off0 \in ReadPlaces /\ p1off \in ReadPlaces
         /\ off0 = p1off => p1pc # "bits"
BY DEF HandshakeInv, Together, ReadOffsets, Reading

\* What PRU 0 outputs is a stale delta, or the word at TRACK_BIT or one after it.
LEMMA OutputReads ==
  ASSUME TypeOK, HandshakeInv, ReadOffsets, ReadInv, p0pc = "read", WordReady
  PROVE  /\ off0 \in Unread /\ NextRead(off0) \in Unread
         /\ NextRead(off0) \in ReadPlaces /\ NextRead(off0) # off0
         /\ \/ ram[off0].kind = "delta"
            \/ \E p \in 0 .. TrackWords : trackBit <= p /\ ram[off0] = Item(p)
         /\ ram[off0].kind = "zero" => ram[NextRead(off0)] = Item(0)
<1>1. /\ Reading /\ off0 \in ReadPlaces /\ p1off \in ReadPlaces /\ (off0 = p1off => p1pc # "bits")
  BY ReadTogether
<1>2. /\ off0 \in Unread /\ NextRead(off0) \in Unread
      /\ NextRead(off0) \in ReadPlaces /\ NextRead(off0) # off0
  BY <1>1, UnreadShrinks, NextReadWraps DEF WordReady, Unread
<1>3. OutPos = trackBit
  BY DEF OutPos
<1>4. PosOf(ram[off0]) \in 0 .. TrackWords
  <2>1. ram[off0].word \in Words
    BY <1>1, QueueSizes DEF TypeOK, Slots
  <2>2. QED BY <2>1, QueueSizes DEF PosOf, Words
<1>5. \/ ram[off0].kind = "delta"
      \/ trackBit <= PosOf(ram[off0]) /\ ram[off0] = Item(PosOf(ram[off0]))
  BY <1>1, <1>2, <1>3 DEF ReadInv, FirstRead, ItemsOK, Stale
<1>6. ASSUME ram[off0].kind = "zero" PROVE ram[NextRead(off0)] = Item(0)
  <2>1. PosOf(ram[off0]) = TrackWords
    BY <1>6 DEF PosOf
  <2>2. ram[NextRead(off0)] = Item(NextPos(PosOf(ram[off0])))
    BY <1>1, <1>2, <1>6 DEF ReadInv, ReadInTurn, Stale
  <2>3. QED BY <2>1, <2>2 DEF NextPos
<1>7. QED BY <1>2, <1>4, <1>5, <1>6

\* What is stored has the type of the shared RAM.
LEMMA ItemTypes ==
  ASSUME NEW t \in Tracks, NEW w \in Words
  PROVE  {Zero, Pwm(t, w), Delta(t, w)}
           \subseteq [kind : {"zero", "pwm", "delta"}, trk : Tracks, word : Words]
<1>1. 0 \in Words
  BY QueueSizes DEF Words
<1>2. QED BY <1>1 DEF Zero, Pwm, Delta

\* A step of PRU 0 keeps the types: TRACK_BIT stays within the track.
LEMMA TypeStep0 ==
  ASSUME TypeOK, HandshakeInv, ReadOffsets, ReadInv, Pru0
  PROVE  TypeOK'
<1>1. CASE Proceed \/ GetTrackBit \/ StartOutput \/ Stopped \/ StepDone \/ WriteReady \/ WriteDone
  <2>1. CASE Proceed
    BY <2>1, QueueSizes DEF Proceed, TypeOK, lineVars, p1Vars, Words
  <2>2. CASE GetTrackBit
    BY <2>2, QueueSizes DEF GetTrackBit, TypeOK, lineVars, p1Vars, Words
  <2>3. CASE StartOutput
    BY <2>3, QueueSizes DEF StartOutput, TypeOK, lineVars, p1Vars, Words
  <2>4. CASE Stopped
    BY <2>4, QueueSizes DEF Stopped, TypeOK, lineVars, p1Vars, Words
  <2>5. CASE StepDone
    BY <2>5, QueueSizes DEF StepDone, TypeOK, lineVars, p1Vars, Words
  <2>6. CASE WriteReady
    BY <2>6, QueueSizes DEF WriteReady, TypeOK, lineVars, p1Vars, Words
  <2>7. CASE WriteDone
    BY <2>7, QueueSizes DEF WriteDone, TypeOK, lineVars, p1Vars, Words
  <2>8. QED BY <1>1, <2>1, <2>2, <2>3, <2>4, <2>5, <2>6, <2>7
<1>2. CASE SendTrack \/ SelectChange \/ Step \/ SeeExit
  BY <1>2, QueueSizes DEF TypeOK, SendTrack, SelectChange, Step, SeeExit, Send0, lineVars, p1Vars
<1>3. CASE OutputWord
  <2>1. off0' \in 0 .. WriteSlots - 1 /\ p0off' \in 0 .. WriteSlots - 1
    <3>1. NextRead(off0) \in ReadPlaces
      BY NextReadPlace DEF TypeOK, Slots
    <3>2. NextRead(off0) \in 0 .. WriteSlots - 1
      BY <3>1, QueueSizes DEF Slots
    <3>3. QED BY <1>3, <3>2 DEF OutputWord, TypeOK
  <2>2. trackBit' \in 0 .. TrackWords
    <3>1. CASE ram[off0].kind = "pwm"
      <4>1. PICK p \in 0 .. TrackWords : trackBit <= p /\ ram[off0] = Item(p)
        BY <1>3, <3>1, OutputReads DEF OutputWord
      <4>2. p # TrackWords
        BY <3>1, <4>1, Positions
      <4>3. trackBit' = trackBit + 1
        BY <1>3, <3>1 DEF OutputWord
      <4>4. QED BY <4>1, <4>2, <4>3, QueueSizes DEF TypeOK
    <3>2. CASE ram[off0].kind # "pwm"
      BY <1>3, <3>2, QueueSizes DEF OutputWord, TypeOK
    <3>3. QED BY <3>1, <3>2
  <2>3. QED BY <1>3, <2>1, <2>2 DEF OutputWord, TypeOK, lineVars, p1Vars
<1>4. CASE EndWrite
  <2>1. NextWrite(off0) \in 0 .. WriteSlots - 1 /\ off0 \in 0 .. WriteSlots - 1
    BY NextWriteWraps DEF TypeOK, Slots
  <2>2. Zero \in [kind : {"zero", "pwm", "delta"}, trk : Tracks, word : Words]
    <3>1. 0 \in Words
      BY QueueSizes DEF Words
    <3>2. QED BY <3>1, ItemTypes DEF TypeOK
  <2> HIDE DEF Zero
  <2>3. QED BY <1>4, <2>1, <2>2 DEF EndWrite, Push, TypeOK, lineVars, p1Vars
<1>5. QED BY <1>1, <1>2, <1>3, <1>4 DEF Pru0

\* A step of PRU 1 keeps the types.
LEMMA TypeStep1 ==
  ASSUME TypeOK, WriteInv, ReadOffsets, Pru1
  PROVE  TypeOK'
<1>1. CASE WaitRead \/ GetTrack \/ WaitFree \/ LeaveRead \/ StartWrite
  <2>1. CASE WaitRead
    BY <2>1, QueueSizes DEF WaitRead, TypeOK, ReadOffsets, ReadPlaces, lineVars, p0Vars
  <2>2. CASE GetTrack
    BY <2>2, QueueSizes DEF GetTrack, TypeOK, ReadOffsets, ReadPlaces, lineVars, p0Vars
  <2>3. CASE WaitFree
    BY <2>3, QueueSizes DEF WaitFree, TypeOK, ReadOffsets, ReadPlaces, lineVars, p0Vars
  <2>4. CASE LeaveRead
    BY <2>4, QueueSizes DEF LeaveRead, TypeOK, ReadOffsets, ReadPlaces, lineVars, p0Vars
  <2>5. CASE StartWrite
    BY <2>5, QueueSizes DEF StartWrite, TypeOK, ReadOffsets, ReadPlaces, lineVars, p0Vars
  <2>6. QED BY <1>1, <2>1, <2>2, <2>3, <2>4, <2>5
<1>2. CASE SetTrackBit \/ RestartRead \/ DoWrite
  <2>1. CASE SetTrackBit
    <3>1. p1off' = 0 /\ 0 < ReadSlots /\ 0 \in 0 .. WriteSlots - 1
      BY <2>1, QueueSizes DEF SetTrackBit
    <3>2. QED BY <2>1, <3>1 DEF SetTrackBit, TypeOK, lineVars, p0Vars
  <2>2. CASE RestartRead
    BY <2>2, QueueSizes DEF RestartRead, TypeOK, lineVars, p0Vars
  <2>3. CASE DoWrite
    BY <2>3, QueueSizes DEF DoWrite, TypeOK, lineVars, p0Vars
  <2>4. QED BY <1>2, <2>1, <2>2, <2>3
<1>3. CASE StoreWord \/ StoreEnd
  <2>1. /\ NextRead(p1off) \in ReadPlaces /\ NextRead(p1off) \in 0 .. WriteSlots - 1
        /\ NextRead(p1off) < ReadSlots
    <3>1. NextRead(p1off) \in ReadPlaces
      BY NextReadPlace DEF TypeOK, Slots
    <3>2. QED BY <3>1, QueueSizes DEF ReadPlaces
  <2>2. (p1word + 1) % TrackWords \in Words
    BY NextWord DEF TypeOK
  <2>3. {Zero, Pwm(p1trk, p1word)}
           \subseteq [kind : {"zero", "pwm", "delta"}, trk : Tracks, word : Words]
    BY ItemTypes DEF TypeOK
  <2>4. CASE StoreWord
    BY <2>1, <2>2, <2>3, <2>4 DEF StoreWord, TypeOK, lineVars, p0Vars
  <2>5. CASE StoreEnd
    BY <2>1, <2>3, <2>5 DEF StoreEnd, TypeOK, lineVars, p0Vars
  <2>6. QED BY <1>3, <2>4, <2>5
<1>4. CASE TakeDelta
  <2>1. NextWrite(p1off) \in 0 .. WriteSlots - 1
    BY NextWriteWraps DEF TypeOK, Slots
  <2>2. (p1word + 1) % TrackWords \in Words
    BY NextWord DEF TypeOK
  <2>3. QED BY <1>4, <2>1, <2>2 DEF TakeDelta, TypeOK, lineVars, p0Vars
<1>5. QED BY <1>1, <1>2, <1>3, <1>4 DEF Pru1

\* A step of the controller or the user keeps the types.
LEMMA TypeStepLines ==
  ASSUME TypeOK, StaleWrite, ChangeTrack \/ StepFalls \/ BeginWrite \/ WriteData \/ RequestExit
  PROVE  TypeOK'
<1>1. CASE ChangeTrack \/ StepFalls \/ RequestExit
  <2>1. CASE ChangeTrack
    BY <2>1, QueueAssumption DEF ChangeTrack, Operate, TypeOK, p0Vars, p1Vars
  <2>2. CASE StepFalls
    BY <2>2, QueueAssumption DEF StepFalls, Operate, TypeOK, p0Vars, p1Vars
  <2>3. CASE RequestExit
    BY <2>3, QueueAssumption DEF RequestExit, Operate, TypeOK, p0Vars, p1Vars
  <2>4. QED BY <1>1, <2>1, <2>2, <2>3
<1>2. CASE BeginWrite
  <2>1. trackBit \in Words
    BY <1>2, QueueSizes DEF BeginWrite, TypeOK, Words
  <2>2. QED BY <1>2, <2>1, QueueSizes, QueueAssumption DEF BeginWrite, Operate, Send0, TypeOK, p1Vars
<1>3. CASE WriteData
  <2>1. trackBit \in Words /\ p0pc = "capture"
    BY <1>3 DEF WriteData, StaleWrite
  <2>2. /\ (trackBit + 1) % TrackWords \in Words
        /\ NextWrite(off0) \in 0 .. WriteSlots - 1 /\ off0 \in 0 .. WriteSlots - 1
    BY <2>1, NextWord, NextWriteWraps DEF TypeOK, Slots
  <2>3. Delta(curTrk, trackBit) \in [kind : {"zero", "pwm", "delta"}, trk : Tracks, word : Words]
    BY <2>1, ItemTypes DEF TypeOK
  <2>4. (trackBit + 1) % TrackWords \in 0 .. TrackWords
    BY <2>2, QueueSizes DEF Words
  <2>5. ops' \in 0 .. MaxOps
    BY <1>3, QueueAssumption DEF WriteData, Operate, TypeOK
  <2>6. QED BY <1>3, <2>2, <2>3, <2>4, <2>5 DEF WriteData, Push, TypeOK, p1Vars
<1>4. QED BY <1>1, <1>2, <1>3

\* A step of PRU 0 keeps that the queue of a write holds deltas.
LEMMA StaleStep0 ==
  ASSUME TypeOK, HandshakeInv, WriteInv, StaleWrite, Pru0
  PROVE  StaleWrite'
<1>1. CASE \/ Proceed \/ SendTrack \/ GetTrackBit \/ StartOutput \/ OutputWord \/ SelectChange
           \/ Stopped \/ Step \/ StepDone \/ SeeExit \/ WriteDone
  <2>1. /\ UNCHANGED <<ram, p1pc, p1off>> /\ p0pc' \notin {"waitwrite", "capture", "writedone"}
    BY <1>1 DEF HandshakeInv, Published0, Proceed, SendTrack, GetTrackBit, StartOutput, OutputWord,
                SelectChange, Stopped, Step, StepDone, SeeExit, WriteDone, p1Vars
  <2>2. QED BY <2>1 DEF StaleWrite, Stale
<1>2. CASE WriteReady
  <2>1. /\ UNCHANGED <<ram, p1pc, p1off, off0, trackBit>> /\ p0pc' = "capture"
        /\ off0 = 0 /\ p1pc # "writedone" /\ p0pc = "waitwrite"
    BY <1>2 DEF WriteReady, p1Vars, WriteInv, Offsets, HandshakeInv, Together
  <2>2. \A s \in Slots : ~ (s < 0)
    BY DEF Slots
  <2>3. QED BY <2>1, <2>2 DEF StaleWrite, Stale
<1>3. CASE EndWrite
  <2>1. /\ UNCHANGED <<p1pc, p1off>> /\ p0pc = "capture" /\ p0pc' = "writedone"
        /\ ram' = [ram EXCEPT ![off0] = Zero] /\ off0' = NextWrite(off0)
    BY <1>3 DEF EndWrite, Push, p1Vars
  <2>2. off0 \in Slots /\ ram = [s \in Slots |-> ram[s]]
    BY <2>1 DEF WriteInv, RamOK, TypeOK, Slots
  <2>3. \A s \in Slots : s < off0 => ram'[s] = ram[s]
    BY <2>1, <2>2, QueueAssumption DEF Slots
  <2>4. \A z \in Slots : NextWrite(z) = NextWrite(off0) => z = off0
    BY <2>2, NextWriteInjective
  <2>5. QED BY <2>1, <2>3, <2>4 DEF StaleWrite, Stale
<1>4. QED BY <1>1, <1>2, <1>3 DEF Pru0

\* A step of PRU 1 does.
LEMMA StaleStep1 ==
  ASSUME TypeOK, HandshakeInv, WriteInv, StaleWrite, Pru1
  PROVE  StaleWrite'
<1>1. CASE StoreWord \/ StoreEnd
  <2>1. /\ UNCHANGED <<p0pc, trackBit>> /\ p1pc' # "writedone"
        /\ p0pc \notin {"capture", "writedone"}
    BY <1>1 DEF StoreWord, StoreEnd, p0Vars, HandshakeInv, Together
  <2>2. QED BY <2>1 DEF StaleWrite
<1>2. CASE \/ WaitRead \/ GetTrack \/ SetTrackBit \/ WaitFree \/ LeaveRead \/ DoWrite \/ StartWrite
           \/ RestartRead
  <2>1. /\ UNCHANGED <<p0pc, off0, trackBit, ram>> /\ p1pc' # "writedone"
    BY <1>2 DEF WaitRead, GetTrack, SetTrackBit, WaitFree, LeaveRead, DoWrite, StartWrite,
                RestartRead, p0Vars
  <2>2. QED BY <2>1 DEF StaleWrite, Stale
<1>3. CASE TakeDelta /\ ram[p1off].kind # "zero"
  <2>1. /\ UNCHANGED <<p0pc, off0, trackBit, ram>> /\ p1pc' = p1pc /\ p1pc = "delta"
    BY <1>3 DEF TakeDelta, p0Vars
  <2>2. QED BY <2>1 DEF StaleWrite, Stale
<1>4. CASE TakeDelta /\ ram[p1off].kind = "zero"
  <2>1. /\ UNCHANGED <<p0pc, off0, trackBit, ram, p1off>> /\ p1pc' = "writedone" /\ p1pc = "delta"
        /\ p0off # p1off
    BY <1>4 DEF TakeDelta, p0Vars
  <2>2. Writing /\ p0off = off0 /\ off0 \in Slots /\ p1off \in Slots
    BY <2>1 DEF HandshakeInv, Together, Writing, WriteInv, Offsets
  <2>3. p1off \in Pending
    BY <2>1, <2>2, BetweenShrinks DEF Pending
  <2>4. p0pc # "capture"
    BY <1>4, <2>2, <2>3 DEF WriteInv, LastPending
  <2>5. NextWrite(p1off) = off0
    BY <1>4, <2>2, <2>3 DEF WriteInv, InTurn
  <2>6. p0pc = "writedone"
    BY <2>2, <2>4 DEF Writing
  <2>7. QED BY <2>1, <2>2, <2>5, <2>6 DEF StaleWrite, Stale
<1>5. QED BY <1>1, <1>2, <1>3, <1>4 DEF Pru1

\* A step of the controller or the user does.
LEMMA StaleStepLines ==
  ASSUME TypeOK, HandshakeInv, WriteInv, StaleWrite,
         ChangeTrack \/ StepFalls \/ BeginWrite \/ WriteData \/ RequestExit
  PROVE  StaleWrite'
<1>1. CASE ChangeTrack \/ StepFalls \/ RequestExit
  BY <1>1 DEF ChangeTrack, StepFalls, RequestExit, p0Vars, p1Vars, StaleWrite, Stale
<1>2. CASE BeginWrite
  <2>1. trackBit' \in Words
    BY <1>2, QueueSizes DEF BeginWrite, TypeOK, Words
  <2>2. QED BY <1>2, <2>1 DEF BeginWrite, Send0, StaleWrite, Stale, p1Vars
<1>3. CASE WriteData
  <2>1. /\ UNCHANGED <<p1pc, p1off, p0pc>> /\ p0pc = "capture"
        /\ ram' = [ram EXCEPT ![off0] = Delta(curTrk, trackBit)] /\ off0' = NextWrite(off0)
        /\ trackBit' = (trackBit + 1) % TrackWords
    BY <1>3 DEF WriteData, Push, p1Vars
  <2>2. off0 \in Slots /\ ram = [s \in Slots |-> ram[s]]
    BY <2>1 DEF WriteInv, RamOK, TypeOK, Slots
  <2>3. trackBit' \in Words
    BY <2>1, NextWord DEF StaleWrite
  <2>4. ram'[off0].kind = "delta" /\ \A s \in Slots : s # off0 => ram'[s] = ram[s]
    BY <2>1, <2>2, Positions
  <2>5. \A s \in Slots : s < NextWrite(off0) => s < off0 \/ s = off0
    BY <2>2, NextWriteWraps, QueueSizes DEF Slots
  <2>6. \A s \in Slots : s < off0' => ram'[s].kind = "delta"
    BY <2>1, <2>4, <2>5 DEF StaleWrite, Stale
  <2>7. QED BY <2>1, <2>3, <2>6 DEF StaleWrite, Stale
<1>4. QED BY <1>1, <1>2, <1>3

\* A step of PRU 0 keeps the offsets of a read.
LEMMA OffsetsStep0 ==
  ASSUME TypeOK, HandshakeInv, WriteInv, StaleWrite, ReadOffsets, ReadInv, Pru0
  PROVE  ReadOffsets'
<1>1. CASE \/ Proceed \/ SelectChange \/ Stopped \/ Step \/ StepDone \/ SeeExit
           \/ WriteReady \/ EndWrite \/ WriteDone
  <2>1. /\ UNCHANGED <<p1pc, p1off, p1word, restarted>>
        /\ p0pc' \notin {"waitbit", "waitfill", "read"}
    BY <1>1 DEF Proceed, SelectChange, Stopped, Step, StepDone, SeeExit, WriteReady, EndWrite,
                WriteDone, p1Vars
  <2>2. QED BY <2>1 DEF ReadOffsets
<1>2. CASE SendTrack
  BY <1>2 DEF SendTrack, ReadOver, Send0, ReadOffsets, p1Vars
<1>3. CASE GetTrackBit
  BY <1>3 DEF GetTrackBit, ReadOffsets, p1Vars
<1>4. CASE StartOutput
  <2>1. 0 \in ReadPlaces
    BY QueueSizes DEF ReadPlaces
  <2>2. QED BY <1>4, <2>1 DEF StartOutput, ReadOffsets, p1Vars
<1>5. CASE OutputWord
  <2>1. /\ UNCHANGED <<p1pc, p1off, p1word, restarted, ram>> /\ off0' = NextRead(off0)
        /\ p0pc = "read" /\ WordReady
    BY <1>5 DEF OutputWord, p1Vars
  <2>2. NextRead(off0) \in ReadPlaces /\ NextRead(off0) # p1off
    BY <2>1, OutputReads DEF WordReady
  <2>3. CASE p0pc' = "halted"
    BY <2>1, <2>3 DEF ReadOffsets
  <2>4. CASE p0off' = off0' /\ p0pc' = "read"
    BY <2>1, <2>2, <2>4 DEF ReadOffsets
  <2>5. CASE ram[off0].kind = "zero" /\ p0off' = p0off /\ p0pc' = "read"
    <3>1. p0off = off0
      BY <2>1, <2>5 DEF ReadOffsets
    <3>2. ram[NextRead(off0)].kind = "pwm"
      BY <2>1, <2>5, OutputReads, QueueSizes DEF Item, Pwm
    <3>3. QED BY <2>1, <2>2, <2>5, <3>1, <3>2 DEF ReadOffsets
  <2>6. QED BY <1>5, <2>1, <2>3, <2>4, <2>5 DEF OutputWord
<1>6. QED BY <1>1, <1>2, <1>3, <1>4, <1>5 DEF Pru0

\* A step of PRU 1 does.
LEMMA OffsetsStep1 ==
  ASSUME TypeOK, HandshakeInv, WriteInv, StaleWrite, ReadOffsets, ReadInv, Pru1
  PROVE  ReadOffsets'
<1>1. CASE WaitRead \/ GetTrack \/ LeaveRead \/ DoWrite \/ StartWrite \/ TakeDelta
  <2>1. /\ UNCHANGED <<ram, p0Vars>> /\ p1pc' \notin {"bits", "free", "finished"}
    BY <1>1 DEF WaitRead, GetTrack, LeaveRead, DoWrite, StartWrite, TakeDelta, HandshakeInv,
                Published0, Together, p0Vars
  <2>2. p0pc \notin {"waitfill", "read"}
    <3>1. p0pc \in {"waitfill", "read"} => p1pc \in {"bits", "free", "finished"} /\ p0state = "read"
      BY DEF HandshakeInv, Published0, Together
    <3>2. ~ (p1pc \in {"bits", "free", "finished"} /\ p0state = "read")
      BY <1>1 DEF WaitRead, GetTrack, LeaveRead, DoWrite, StartWrite, TakeDelta
    <3>3. QED BY <3>1, <3>2
  <2>3. QED BY <2>1, <2>2 DEF ReadOffsets, p0Vars
<1>2. CASE SetTrackBit \/ RestartRead
  <2>1. /\ UNCHANGED <<ram, p0Vars>> /\ p1pc' = "bits" /\ p1state' = "bitset"
        /\ p0pc \notin {"waitfill", "read"}
    BY <1>2 DEF SetTrackBit, RestartRead, HandshakeInv, Together, p0Vars
  <2>2. p1off' \in Slots /\ (~restarted' => p1off' \in ReadPlaces)
    BY <1>2, QueueSizes DEF SetTrackBit, RestartRead, StaleWrite, ReadPlaces, Slots
  <2>3. QED BY <2>1, <2>2 DEF ReadOffsets, p0Vars
<1>3. CASE StoreWord
  <2>1. /\ UNCHANGED <<p0Vars, p1state>> /\ p1pc = "bits" /\ p1pc' \in {"free", "finished"}
        /\ p1off' = NextRead(p1off) /\ p1off \in Slots
        /\ p1pc' = "finished" => p1word' = 0
    <3>1. p1word = TrackWords - 1 => (p1word + 1) % TrackWords = 0
      BY NextWord DEF TypeOK
    <3>2. QED BY <1>3, <3>1 DEF StoreWord, ReadOffsets
  <2>2. NextRead(p1off) \in ReadPlaces
    BY <2>1, NextReadPlace
  <2>3. CASE p0pc = "read"
    <3>1. /\ off0 \in ReadPlaces /\ p0off \in ReadPlaces /\ p1off \in ReadPlaces
          /\ p0off # p1off /\ off0 # p1off
      BY <2>1, <2>3 DEF ReadOffsets
    <3>2. \/ p0off = off0
          \/ NextRead(p0off) = off0 /\ NextRead(p1off) # off0 /\ ram[off0].kind = "pwm"
      BY <2>3, <3>1, NextReadInjective DEF ReadOffsets
    <3>3. ram'[off0] = ram[off0]
      BY <1>3, <3>1, QueueSizes DEF StoreWord, TypeOK, Slots
    <3>4. QED BY <2>1, <2>2, <2>3, <3>1, <3>2, <3>3 DEF ReadOffsets, p0Vars
  <2>4. CASE p0pc # "read"
    <3>1. p0pc = "waitfill" /\ p1state = "filled" => FALSE
      BY <2>1 DEF ReadOffsets
    <3>2. QED BY <2>1, <2>2, <2>4, <3>1 DEF ReadOffsets, p0Vars
  <2>5. QED BY <2>3, <2>4
<1>4. CASE StoreEnd /\ p0off # p1off
  <2>1. /\ UNCHANGED <<p0Vars, p1state, p1word, restarted>>
        /\ p1pc = "finished" /\ p1pc' = "free"
        /\ p1off' = NextRead(p1off) /\ p1off \in ReadPlaces
        /\ ram' = [ram EXCEPT ![p1off] = Zero]
    BY <1>4 DEF StoreEnd, ReadOffsets
  <2>2. NextRead(p1off) \in ReadPlaces
    BY <2>1, NextReadWraps
  <2>3. CASE p0pc = "read"
    <3>1. off0 \in ReadPlaces /\ p0off \in ReadPlaces
      BY <2>3 DEF ReadOffsets
    <3>2. \/ p0off = off0
          \/ /\ NextRead(p0off) = off0 /\ NextRead(p1off) # off0 /\ off0 # p1off
             /\ ram[off0].kind = "pwm"
      BY <1>4, <2>1, <2>3, <3>1, NextReadInjective DEF ReadOffsets
    <3>3. off0 # p1off => ram'[off0] = ram[off0]
      BY <2>1, <3>1, QueueSizes DEF TypeOK, Slots
    <3>4. QED BY <2>1, <2>2, <2>3, <3>1, <3>2, <3>3 DEF ReadOffsets, p0Vars
  <2>4. CASE p0pc # "read"
    <3>1. p0pc = "waitfill" /\ p1state = "filled" => FALSE
      BY <1>4, <2>1 DEF ReadOffsets
    <3>2. QED BY <2>1, <2>2, <2>4, <3>1 DEF ReadOffsets, p0Vars
  <2>5. QED BY <2>3, <2>4
<1>5. CASE WaitFree \/ (StoreEnd /\ p0off = p1off)
  <2>1. /\ UNCHANGED <<ram, p0Vars, p1off, p1word, restarted>>
        /\ p1pc \in {"free", "finished"} /\ p1pc' \in {"bits", "free", "finished"}
        /\ p1pc' = "finished" => p1pc = "finished"
        /\ p1pc' = "bits" => p0off # p1off /\ p1state' = p1state
        /\ \/ p1state' = p1state
           \/ p0pc # "waitbit" /\ p1state' = "filled" /\ p0off = p1off
        /\ p1off \in ReadPlaces
    BY <1>5 DEF StoreEnd, WaitFree, FillIsSlow, ReadOffsets
  <2>2. p1off \in Slots
    BY <2>1, QueueSizes
  <2>3. CASE p0pc = "read"
    BY <2>1, <2>2, <2>3 DEF ReadOffsets, p0Vars
  <2>4. CASE p0pc # "read"
    <3>1. p0pc = "waitbit" /\ p1pc' \in {"bits", "free", "finished"} => p1state' = "bitset"
      BY <2>1 DEF ReadOffsets
    <3>2. p0pc = "waitfill" /\ p1state' = "filled" => p1off = 0 /\ p1pc' \in {"free", "finished"}
      BY <2>1 DEF ReadOffsets
    <3>3. QED BY <2>1, <2>2, <2>4, <3>1, <3>2 DEF ReadOffsets, p0Vars
  <2>5. QED BY <2>3, <2>4
<1>6. QED BY <1>1, <1>2, <1>3, <1>4, <1>5 DEF Pru1

\* A step of the controller or the user does.
LEMMA OffsetsStepLines ==
  ASSUME ReadOffsets, ChangeTrack \/ StepFalls \/ BeginWrite \/ WriteData \/ RequestExit
  PROVE  ReadOffsets'
<1>1. CASE ChangeTrack \/ StepFalls \/ RequestExit
  BY <1>1 DEF ChangeTrack, StepFalls, RequestExit, p0Vars, p1Vars, ReadOffsets
<1>2. CASE BeginWrite \/ WriteData
  <2>1. UNCHANGED p1Vars /\ p0pc' \in {"waitwrite", "capture"}
    BY <1>2 DEF BeginWrite, WriteData
  <2>2. QED BY <2>1 DEF ReadOffsets, p1Vars
<1>3. QED BY <1>1, <1>2

\* A step that leaves queue and positions keeps the order.
LEMMA ReadSame ==
  ASSUME ReadInv, Reading, UNCHANGED <<ram, off0, p1off, restarted, p1trk>>,
         Unread' = Unread, OutPos' = OutPos, InPos' = InPos
  PROVE  ReadInv'
<1>1. \A p : Item(p)' = Item(p)
  BY DEF Item, Pwm
<1>2. QED BY <1>1 DEF ReadInv, ItemsOK, StaleFirst, ReadInTurn, FirstRead, LastRead, Fresh, Stale

\* PRU 0 outputs a word: the next one is the next of the track.
LEMMA ReadOutput ==
  ASSUME TypeOK, HandshakeInv, ReadOffsets, ReadInv, OutputWord
  PROVE  ReadInv'
<1>1. /\ UNCHANGED <<p1Vars, ram, p1trk, p1off, restarted, p1pc, p1word>>
      /\ off0' = NextRead(off0) /\ p0pc = "read" /\ WordReady
      /\ trackBit' = CASE ram[off0].kind = "zero" -> 0
                       [] ram[off0].kind = "pwm" -> trackBit + 1
                       [] OTHER -> trackBit
  BY DEF OutputWord, p1Vars
<1>2. /\ Reading /\ off0 \in ReadPlaces /\ p1off \in ReadPlaces /\ NextRead(off0) # p1off
      /\ off0 = p1off => p1pc # "bits"
  BY <1>1, ReadTogether DEF WordReady
<1>3. /\ off0 \in Unread /\ NextRead(off0) \in Unread /\ NextRead(off0) # off0
      /\ \/ ram[off0].kind = "delta"
         \/ \E p \in 0 .. TrackWords : trackBit <= p /\ ram[off0] = Item(p)
  BY <1>1, OutputReads
<1>4. /\ Unread' = Unread \ {off0}
      /\ \A s \in Unread \ {off0} : ReadAhead(off0', s) = ReadAhead(off0, s) - 1
      /\ \A s \in Unread : ReadAhead(off0, s) \in Nat
      /\ ReadAhead(off0, off0) = 0
  <2>1. ReadAhead(off0, off0) = 0
    BY <1>2, QueueSizes DEF ReadAhead, ReadPlaces
  <2>2. QED BY <1>1, <1>2, <2>1, UnreadShrinks DEF Unread
<1>5. OutPos = trackBit /\ InPos' = InPos
  BY <1>1 DEF OutPos, InPos
<1>6. SUFFICES ASSUME p0pc' = "read" PROVE ReadInv'
  BY <1>1 DEF OutputWord, ReadInv, Reading
<1>7. OutPos' = trackBit'
  BY <1>6 DEF OutPos
<1>8. (\A p : Item(p)' = Item(p)) /\ Unread' # {}
  BY <1>1, <1>3, <1>4 DEF Item, Pwm
<1>9. ItemsOK'
  BY <1>1, <1>2, <1>4, <1>8 DEF ReadInv, ItemsOK, Stale
<1>10. StaleFirst'
  <2>1. ASSUME NEW s \in Unread', NEW t \in Unread', ReadAhead(off0', s) <= ReadAhead(off0', t)
        PROVE  s \in Unread /\ t \in Unread /\ ReadAhead(off0, s) <= ReadAhead(off0, t)
    BY <1>4, <2>1
  <2>2. QED BY <1>1, <1>2, <2>1 DEF ReadInv, StaleFirst, Stale
<1>11. \A s \in Unread' : NextRead(s) \in Unread' => NextRead(s) \in Unread /\ NextRead(s) # off0
  BY <1>4
<1>12. trackBit \in Int
  BY DEF TypeOK
<1>13. CASE ram[off0].kind = "delta"
  <2>1. trackBit' = trackBit /\ restarted
    BY <1>1, <1>2, <1>3, <1>13 DEF ReadInv, Fresh, Stale
  <2>2. ReadInTurn'
    BY <1>1, <1>2, <1>4, <1>5, <1>7, <1>8, <1>11, <2>1 DEF ReadInv, ReadInTurn, Stale
  <2>3. FirstRead'
    BY <1>1, <1>2, <1>3, <1>5, <1>7, <1>13, <2>1 DEF ReadInv, ReadInTurn, FirstRead, Stale
  <2>4. LastRead'
    BY <1>1, <1>2, <1>4, <1>5, <1>7, <1>8, <2>1 DEF ReadInv, LastRead, Stale
  <2>5. Fresh'
    BY <1>1, <2>1 DEF Fresh
  <2>6. QED BY <1>9, <1>10, <2>2, <2>3, <2>4, <2>5 DEF ReadInv
<1>14. CASE ram[off0].kind # "delta"
  <2>1. PICK q \in 0 .. TrackWords : trackBit <= q /\ ram[off0] = Item(q)
    BY <1>3, <1>14
  <2>2. PosOf(ram[off0]) = q /\ (ram[off0].kind = "zero" <=> q = TrackWords)
    BY <2>1, Positions
  <2>3. ram[off0].kind \in {"zero", "pwm"}
    BY <1>2, <1>14, QueueSizes DEF TypeOK, Slots
  <2>4. \A t \in Unread : ram[t].kind # "delta"
    BY <1>2, <1>3, <1>4, <1>14 DEF ReadInv, StaleFirst, Stale
  <2>5. trackBit' = IF q = TrackWords THEN 0 ELSE trackBit + 1
    BY <1>1, <2>2, <2>3
  <2>6. ram[NextRead(off0)] = Item(NextPos(q))
    BY <1>2, <1>3, <1>14, <2>2 DEF ReadInv, ReadInTurn, Stale
  <2>7. PosOf(ram[NextRead(off0)]) = NextPos(q)
    BY <2>6, Positions
  <2>8. NextPos(q) >= trackBit' /\ (q = trackBit => NextPos(q) = trackBit')
    BY <1>12, <2>1, <2>5, QueueSizes DEF NextPos
  <2>9. ReadInTurn'
    BY <1>1, <1>2, <1>4, <1>8, <1>11, <2>4 DEF ReadInv, ReadInTurn, Stale
  <2>10. FirstRead'
    BY <1>1, <1>7, <2>7, <2>8 DEF FirstRead
  <2>11. LastRead'
    BY <1>1, <1>2, <1>4, <1>5, <1>8, <2>4 DEF ReadInv, LastRead, Stale
  <2>12. Fresh'
    <3>1. SUFFICES ASSUME ~ restarted PROVE Fresh'
      BY <1>1 DEF Fresh
    <3>2. q = trackBit
      BY <1>2, <1>3, <1>5, <2>2, <3>1 DEF ReadInv, Fresh
    <3>3. QED BY <1>1, <1>4, <1>7, <1>8, <2>4, <2>7, <2>8, <3>2 DEF Fresh, Stale
  <2>13. QED BY <1>9, <1>10, <2>9, <2>10, <2>11, <2>12 DEF ReadInv
<1>15. QED BY <1>13, <1>14

\* A step of PRU 0 keeps the order of a read.
LEMMA OrderStep0 ==
  ASSUME TypeOK, HandshakeInv, ReadOffsets, ReadInv, Pru0
  PROVE  ReadInv'
<1>1. CASE \/ Proceed \/ SendTrack \/ SelectChange \/ Stopped \/ Step \/ StepDone \/ SeeExit
           \/ WriteReady \/ EndWrite \/ WriteDone
  BY <1>1 DEF Proceed, SendTrack, ReadOver, SelectChange, Stopped, Step, StepDone, SeeExit,
              WriteReady, EndWrite, WriteDone, p1Vars, ReadInv, Reading
<1>2. CASE GetTrackBit \/ StartOutput
  <2>1. /\ UNCHANGED <<ram, off0, p1off, p1pc, p1word, restarted, p1trk>>
        /\ p1pc \in {"bits", "free", "finished"} => Reading
        /\ p0pc = "waitbit" => trackBit' = bitReg
        /\ p0pc # "waitbit" => trackBit' = trackBit
        /\ p0pc' \in {"waitfill", "read"}
    BY <1>2 DEF GetTrackBit, StartOutput, p1Vars, Reading
  <2>2. Unread' = Unread /\ OutPos' = OutPos /\ InPos' = InPos
    BY <2>1 DEF Unread, OutPos, InPos
  <2>3. CASE Reading
    BY <2>1, <2>2, <2>3, ReadSame
  <2>4. CASE ~ Reading
    BY <2>1, <2>4 DEF ReadInv, Reading
  <2>5. QED BY <2>3, <2>4
<1>3. QED BY <1>1, <1>2, ReadOutput DEF Pru0

\* PRU 1 stores the next word, or the end mark, at its offset.
LEMMA ReadStore ==
  ASSUME TypeOK, HandshakeInv, ReadOffsets, ReadInv, Reading, p1off \in ReadPlaces,
         off0 = p1off => p1pc = "bits",
         UNCHANGED <<off0, p0pc, bitReg, trackBit, restarted, p1trk>>,
         ram' = [ram EXCEPT ![p1off] = Item(InPos)],
         p1off' = NextRead(p1off), p1pc' \in {"free", "finished"},
         InPos \in 0 .. TrackWords, InPos' = NextPos(InPos)
  PROVE  ReadInv'
<1>1. off0 \in ReadPlaces /\ 0 \in ReadPlaces
  BY QueueSizes DEF Reading, ReadOffsets, ReadPlaces
<1>2. /\ Unread' = Unread \cup {p1off} /\ p1off \notin Unread
      /\ \A s \in Unread : ReadAhead(off0, s) < ReadAhead(off0, p1off)
      /\ NextRead(p1off) # off0 => NextRead(p1off) \notin Unread
      /\ off0 = p1off => Unread = {}
  <2>1. p1pc' # "bits"
    OBVIOUS
  <2>2. Unread' = UnreadPlaces(off0, NextRead(p1off), p1pc')
    BY DEF Unread
  <2>3. QED BY <1>1, <2>1, <2>2, UnreadGrows, SMTT(30) DEF Unread
<1>3. /\ Unread \in SUBSET ReadPlaces /\ NextRead(p1off) \in ReadPlaces /\ NextRead(p1off) # p1off
      /\ \A s \in ReadPlaces : ReadAhead(off0, s) \in Int
  <2>1. \A s \in ReadPlaces : ReadAhead(off0, s) \in Int
    BY <1>1, QueueSizes DEF ReadAhead, ReadPlaces
  <2>2. QED BY <2>1, NextReadWraps DEF Unread, UnreadPlaces
<1>4. (\A p : Item(p)' = Item(p)) /\ OutPos' = OutPos
  BY DEF Item, Pwm, OutPos
<1>5. /\ ram'[p1off] = Item(InPos)
      /\ \A s \in ReadPlaces \ {p1off} : ram'[s] = ram[s]
  BY QueueSizes DEF TypeOK, Slots
<1>6. PosOf(Item(InPos)) = InPos /\ Item(InPos).kind # "delta"
  BY Positions
<1>7. ItemsOK'
  BY <1>2, <1>3, <1>4, <1>5, <1>6 DEF ReadInv, ItemsOK, Stale
<1>8. StaleFirst'
  BY <1>2, <1>3, <1>5, <1>6 DEF ReadInv, StaleFirst, Stale
<1>9. ReadInTurn'
  <2> SUFFICES ASSUME NEW s \in Unread', NextRead(s) \in Unread', NextRead(s) # off0
               PROVE  IF ram'[s].kind = "delta"
                      THEN ram'[NextRead(s)].kind = "delta" \/ PosOf(ram'[NextRead(s)]) >= OutPos
                      ELSE ram'[NextRead(s)] = Item(NextPos(PosOf(ram'[s])))
    BY <1>4 DEF ReadInTurn, Stale
  <2>1. s # p1off
    BY <1>2, <1>3
  <2>2. s \in Unread /\ ram'[s] = ram[s]
    BY <1>2, <1>3, <1>5, <2>1
  <2>3. CASE NextRead(s) = p1off
    BY <1>5, <1>6, <2>2, <2>3 DEF ReadInv, LastRead, Stale
  <2>4. CASE NextRead(s) # p1off
    <3>1. NextRead(s) \in Unread /\ ram'[NextRead(s)] = ram[NextRead(s)]
      BY <1>2, <1>3, <1>5, <2>4
    <3>2. QED BY <2>2, <3>1 DEF ReadInv, ReadInTurn, Stale
  <2>5. QED BY <2>3, <2>4
<1>10. FirstRead'
  <2>1. CASE off0 = p1off
    <3>1. InPos >= OutPos
      BY <1>2, <2>1 DEF ReadInv, LastRead
    <3>2. QED BY <1>4, <1>5, <1>6, <2>1, <3>1 DEF FirstRead, Stale
  <2>2. CASE off0 # p1off
    BY <1>1, <1>2, <1>4, <1>5, <2>2 DEF ReadInv, FirstRead, Stale
  <2>3. QED BY <2>1, <2>2
<1>11. LastRead'
  <2>1. \A s \in Unread' : NextRead(s) = NextRead(p1off) => s = p1off
    BY <1>2, <1>3, NextReadInjective
  <2>2. QED BY <1>2, <1>3, <1>5, <1>6, <2>1 DEF LastRead, Stale
<1>12. Fresh'
  <2>1. SUFFICES ASSUME ~ restarted PROVE Fresh'
    BY DEF Fresh
  <2>2. \A s \in Unread' : ~ (ram'[s].kind = "delta")
    BY <1>2, <1>3, <1>5, <1>6, <2>1 DEF ReadInv, Fresh, Stale
  <2>3. off0 \in Unread' => PosOf(ram'[off0]) = OutPos
    <3>1. CASE off0 = p1off
      BY <1>2, <1>5, <1>6, <2>1, <3>1 DEF ReadInv, Fresh
    <3>2. CASE off0 # p1off
      BY <1>1, <1>2, <1>5, <2>1, <3>2 DEF ReadInv, Fresh
    <3>3. QED BY <3>1, <3>2
  <2>4. QED BY <1>2, <1>4, <2>2, <2>3 DEF Fresh, Stale
<1>13. QED BY <1>7, <1>8, <1>9, <1>10, <1>11, <1>12 DEF ReadInv

\* It goes on from a write beyond the places of a read.
LEMMA ReadBeyond ==
  ASSUME TypeOK, HandshakeInv, ReadOffsets, ReadInv, Reading, p1off \notin ReadPlaces, StoreWord
  PROVE  ReadInv'
<1>1. /\ UNCHANGED <<off0, p0pc, bitReg, trackBit, restarted, p1trk>>
      /\ p1pc = "bits" /\ p1pc' \in {"free", "finished"}
      /\ p1off' = NextRead(p1off) /\ p1off \in Slots /\ p1word \in Words
      /\ ram' = [ram EXCEPT ![p1off] = Pwm(p1trk, p1word)]
      /\ p1word' = (p1word + 1) % TrackWords
      /\ p1pc' = IF p1word = TrackWords - 1 THEN "finished" ELSE "free"
  BY DEF StoreWord, p0Vars, TypeOK, ReadOffsets
<1>2. restarted
  BY <1>1 DEF ReadOffsets
<1>3. Unread' \in SUBSET ReadPlaces
  BY DEF Unread, UnreadPlaces
<1>4. \A s \in ReadPlaces : ram'[s] = ram[s] /\ ram[s].kind = "delta"
  BY <1>1, QueueSizes DEF ReadInv, LastRead, Stale, TypeOK, Slots
<1>5. InPos = p1word /\ OutPos' = OutPos /\ InPos >= OutPos
  BY <1>1 DEF OutPos, InPos, ReadInv, LastRead
<1>6. InPos' >= InPos
  BY <1>1, NextWord, QueueSizes DEF InPos, Words
<1>7. OutPos \in Int /\ InPos' \in Int /\ InPos \in Int
  BY <1>1, NextWord, QueueSizes DEF OutPos, InPos, TypeOK, Words
<1>8. InPos' >= OutPos'
  BY <1>5, <1>6, <1>7
<1>9. \A s \in ReadPlaces : ram'[s].kind = "delta"
  BY <1>4
<1>10. NextRead(p1off) \in ReadPlaces
  BY <1>1, NextReadPlace
<1>11. \A s \in ReadPlaces : NextRead(s) \in ReadPlaces
  BY NextReadWraps
<1>12. QED BY <1>1, <1>2, <1>3, <1>8, <1>9, <1>10, <1>11
       DEF ReadInv, ItemsOK, StaleFirst, ReadInTurn, FirstRead, LastRead, Fresh, Stale

\* A step of PRU 1 keeps the order of a read.
LEMMA OrderStep1 ==
  ASSUME TypeOK, HandshakeInv, StaleWrite, ReadOffsets, ReadInv, Pru1
  PROVE  ReadInv'
<1>1. CASE WaitRead \/ GetTrack \/ LeaveRead \/ DoWrite \/ StartWrite \/ TakeDelta
  BY <1>1 DEF WaitRead, GetTrack, LeaveRead, DoWrite, StartWrite, TakeDelta, ReadInv, Reading
<1>2. CASE SetTrackBit
  <2>1. SUFFICES ASSUME Reading' PROVE ReadInv'
    BY DEF ReadInv
  <2>2. PICK w \in Words : p1word' = w /\ bitReg' = w
    BY <1>2 DEF SetTrackBit
  <2>3. /\ UNCHANGED <<off0, p0pc>> /\ p1pc = "setbit" /\ p1pc' = "bits" /\ p1off' = 0
    BY <1>2 DEF SetTrackBit, p0Vars
  <2>4. p0pc = "waitbit" /\ off0 = 0 /\ 0 \in ReadPlaces
    BY <2>1, <2>3, QueueSizes DEF Reading, HandshakeInv, Together, ReadOffsets, ReadPlaces
  <2>5. Unread' = {}
    BY <2>3, <2>4, QueueSizes DEF Unread, UnreadPlaces, Filled, ReadAhead, ReadPlaces
  <2>6. InPos' = w /\ OutPos' = w /\ w \in Int
    BY <2>2, <2>3, <2>4 DEF InPos, OutPos, Words
  <2>7. QED BY <2>3, <2>4, <2>5, <2>6
        DEF ReadInv, ItemsOK, StaleFirst, ReadInTurn, FirstRead, LastRead, Fresh
<1>3. CASE RestartRead
  <2>1. SUFFICES ASSUME Reading' PROVE ReadInv'
    BY DEF ReadInv
  <2>2. PICK w \in Words : p1word' = w /\ bitReg' = w
    BY <1>3 DEF RestartRead
  <2>3. /\ UNCHANGED <<off0, p0pc, ram, p1off>>
        /\ p1pc = "writedone" /\ p1pc' = "bits" /\ restarted'
    BY <1>3 DEF RestartRead, p0Vars
  <2>4. p0pc = "waitbit" /\ off0 = 0 /\ 0 \in ReadPlaces
    BY <2>1, <2>3, QueueSizes DEF Reading, HandshakeInv, Together, ReadOffsets, ReadPlaces
  <2>5. p1off \in Slots /\ \A s \in Slots : s < p1off => ram[s].kind = "delta"
    BY <2>3 DEF StaleWrite, Stale
  <2>6. Unread' \in SUBSET ReadPlaces /\ \A s \in Unread' : s < p1off
    BY <2>3, <2>4, <2>5, QueueSizes DEF Unread, UnreadPlaces, Filled, ReadAhead, ReadPlaces, Slots
  <2>7. p1off \notin ReadPlaces => \A s \in ReadPlaces : s < p1off
    BY <2>5, QueueSizes DEF ReadPlaces, Slots
  <2>8. /\ \A s \in Unread' : ram'[s].kind = "delta"
        /\ p1off' \notin ReadPlaces => \A s \in ReadPlaces : ram'[s].kind = "delta"
    BY <2>3, <2>5, <2>6, <2>7, QueueSizes
  <2>9. InPos' = w /\ OutPos' = w /\ w \in Int
    BY <2>2, <2>3, <2>4 DEF InPos, OutPos, Words
  <2>10. QED BY <2>3, <2>4, <2>8, <2>9
         DEF ReadInv, ItemsOK, StaleFirst, ReadInTurn, FirstRead, LastRead, Fresh, Stale
<1>4. CASE StoreWord
  <2>1. CASE Reading /\ p1off \in ReadPlaces
    <3>1. /\ UNCHANGED <<off0, p0pc, bitReg, trackBit, restarted, p1trk>>
          /\ ram' = [ram EXCEPT ![p1off] = Pwm(p1trk, p1word)]
          /\ p1pc = "bits" /\ p1off' = NextRead(p1off) /\ p1pc' \in {"free", "finished"}
          /\ p1word \in Words /\ p1word' = (p1word + 1) % TrackWords
          /\ p1pc' = IF p1word = TrackWords - 1 THEN "finished" ELSE "free"
      BY <1>4 DEF StoreWord, p0Vars, TypeOK
    <3>2. InPos = p1word /\ InPos \in 0 .. TrackWords /\ Item(InPos) = Pwm(p1trk, p1word)
      BY <3>1, QueueSizes DEF InPos, Item, Words
    <3>3. InPos' = NextPos(InPos)
      BY <3>1, <3>2, NextWord, QueueSizes DEF InPos, NextPos, Words
    <3>4. QED BY <2>1, <3>1, <3>2, <3>3, ReadStore
  <2>2. CASE Reading /\ p1off \notin ReadPlaces
    BY <1>4, <2>2, ReadBeyond
  <2>3. CASE ~ Reading
    BY <1>4, <2>3 DEF StoreWord, p0Vars, Reading, ReadInv
  <2>4. QED BY <2>1, <2>2, <2>3
<1>5. CASE StoreEnd /\ p0off # p1off
  <2>1. CASE Reading
    <3>1. /\ UNCHANGED <<off0, p0pc, bitReg, trackBit, restarted, p1trk, p1word>>
          /\ ram' = [ram EXCEPT ![p1off] = Zero]
          /\ p1pc = "finished" /\ p1off' = NextRead(p1off) /\ p1pc' = "free"
      BY <1>5 DEF StoreEnd, p0Vars
    <3>2. p1off \in ReadPlaces /\ p1word = 0 /\ off0 # p1off
      BY <1>5, <2>1, <3>1 DEF ReadOffsets, Reading
    <3>3. /\ InPos = TrackWords /\ InPos \in 0 .. TrackWords /\ Item(InPos) = Zero
          /\ InPos' = NextPos(InPos)
      BY <3>1, <3>2, QueueSizes DEF InPos, NextPos, Item
    <3>4. QED BY <2>1, <3>1, <3>2, <3>3, ReadStore
  <2>2. CASE ~ Reading
    BY <1>5, <2>2 DEF StoreEnd, p0Vars, Reading, ReadInv
  <2>3. QED BY <2>1, <2>2
<1>6. CASE WaitFree \/ (StoreEnd /\ p0off = p1off)
  <2>1. /\ UNCHANGED <<ram, p0pc, off0, bitReg, trackBit, p1off, p1word, restarted, p1trk>>
        /\ p1pc \in {"free", "finished"} /\ p1pc' \in {"bits", "free", "finished"}
        /\ p1pc' = "finished" <=> p1pc = "finished"
        /\ p1pc' = "bits" => p0off # p1off
    BY <1>6 DEF StoreEnd, WaitFree, p0Vars
  <2>2. CASE Reading
    <3>1. p1pc' = "bits" => off0 # p1off
      BY <2>1, <2>2 DEF Reading, ReadOffsets
    <3>2. Unread' = Unread
      BY <2>1, <3>1, UnreadSame DEF Unread
    <3>3. OutPos' = OutPos /\ InPos' = InPos
      BY <2>1 DEF OutPos, InPos
    <3>4. QED BY <2>1, <2>2, <3>2, <3>3, ReadSame
  <2>3. CASE ~ Reading
    BY <2>1, <2>3 DEF Reading, ReadInv
  <2>4. QED BY <2>2, <2>3
<1>7. QED BY <1>1, <1>2, <1>3, <1>4, <1>5, <1>6 DEF Pru1

\* A step of the controller or the user does.
LEMMA OrderStepLines ==
  ASSUME ReadInv,
         ChangeTrack \/ StepFalls \/ BeginWrite \/ WriteData \/ RequestExit \/ UNCHANGED vars
  PROVE  ReadInv'
<1>1. CASE ChangeTrack \/ StepFalls \/ RequestExit \/ UNCHANGED vars
  <2>1. UNCHANGED <<ram, bitReg, p0Vars, p1Vars>>
    BY <1>1 DEF ChangeTrack, StepFalls, RequestExit, vars
  <2>2. Unread' = Unread /\ OutPos' = OutPos /\ InPos' = InPos
    BY <2>1 DEF Unread, OutPos, InPos, p0Vars, p1Vars
  <2>3. CASE Reading
    BY <2>1, <2>2, <2>3, ReadSame DEF p0Vars, p1Vars
  <2>4. CASE ~ Reading
    BY <2>1, <2>4 DEF ReadInv, Reading, p0Vars, p1Vars
  <2>5. QED BY <2>3, <2>4
<1>2. CASE BeginWrite \/ WriteData
  BY <1>2 DEF BeginWrite, WriteData, ReadInv, Reading
<1>3. QED BY <1>1, <1>2

\* The PRUs start with nothing in the queues.
LEMMA TransferInit == Init => TransferInv
<1> SUFFICES ASSUME Init PROVE TransferInv
  OBVIOUS
<1>1. TypeOK
  <2>1. 0 \in Words /\ 0 \in 0 .. WriteSlots - 1 /\ 0 \in 0 .. TrackWords /\ 0 \in 0 .. MaxOps
    BY QueueSizes, QueueAssumption DEF Words
  <2>2. selLine \in Tracks /\ ram = [s \in 0 .. WriteSlots - 1 |-> Zero]
    BY DEF Init
  <2>3. Zero \in [kind : {"zero", "pwm", "delta"}, trk : Tracks, word : Words]
    BY <2>1, <2>2, ItemTypes
  <2>4. QED BY <2>1, <2>2, <2>3 DEF Init, TypeOK
<1>2. StaleWrite /\ ReadOffsets /\ ReadInv
  BY DEF Init, StaleWrite, ReadOffsets, ReadInv, Reading
<1>3. QED BY <1>1, <1>2 DEF TransferInv

\* Every step keeps the invariant.
LEMMA TransferStep ==
  TransferInv /\ HandshakeInv /\ WriteInv /\ [Next]_vars => TransferInv'
<1> SUFFICES ASSUME TransferInv, HandshakeInv, WriteInv, [Next]_vars PROVE TransferInv'
  OBVIOUS
<1> USE DEF TransferInv
<1>1. CASE Pru0
  BY <1>1, TypeStep0, StaleStep0, OffsetsStep0, OrderStep0
<1>2. CASE Pru1
  BY <1>2, TypeStep1, StaleStep1, OffsetsStep1, OrderStep1
<1>3. CASE ChangeTrack \/ StepFalls \/ BeginWrite \/ WriteData \/ RequestExit
  BY <1>3, TypeStepLines, StaleStepLines, OffsetsStepLines, OrderStepLines
<1>4. CASE UNCHANGED vars
  <2>1. TypeOK'
    BY <1>4 DEF TypeOK, vars, lineVars, p0Vars, p1Vars
  <2>2. StaleWrite' /\ ReadOffsets'
    BY <1>4 DEF StaleWrite, ReadOffsets, Stale, vars, p0Vars, p1Vars
  <2>3. QED BY <1>4, <2>1, <2>2, OrderStepLines
<1>5. QED BY <1>1, <1>2, <1>3, <1>4 DEF Next

\* Types, offsets, the queue of a read and the handshake are right throughout, for any
\* queue sizes and any controller.
THEOREM TransferCorrect == Spec => [](TransferInv /\ HandshakeInv)
<1>1. QED BY TransferInit, TransferStep, HandshakeCorrect, WriteInvariant, PTL DEF Spec

\* The variables keep their types: TRACK_BIT never leaves the track, also when a read
\* after a write shows deltas, and no offset leaves its queue.
THEOREM TypeCorrect == Spec => []TypeOK
<1>1. QED BY TransferCorrect, PTL DEF TransferInv

\* A read that follows no write shows the words of the selected track in their order, for
\* any number of words and tracks, any queue sizes and any rotation at its start.
THEOREM ReadsInOrderAlways == Spec => []FreshReadsInOrder
<1>1. TransferInv /\ HandshakeInv => FreshReadsInOrder
  <2> SUFFICES ASSUME TransferInv, HandshakeInv, ~ restarted, p0pc = "read", WordReady
               PROVE  ram[off0] = IF trackBit = TrackWords THEN Zero ELSE Pwm(curTrk, trackBit)
    BY DEF FreshReadsInOrder, NextIsRight
  <2>1. Reading /\ off0 \in Unread
    BY ReadTogether, OutputReads DEF TransferInv
  <2>2. ram[off0] = Item(PosOf(ram[off0])) /\ PosOf(ram[off0]) = trackBit
    BY <2>1 DEF TransferInv, ReadInv, ItemsOK, Fresh, OutPos
  <2>3. p1trk = curTrk
    BY DEF HandshakeInv, SameTrack
  <2>4. QED BY <2>2, <2>3 DEF Item
<1>2. QED BY <1>1, TransferCorrect, PTL
=============================================================================
