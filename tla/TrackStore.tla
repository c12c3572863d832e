----------------------------- MODULE TrackStore -----------------------------
(***************************************************************************)
(* What the drive emulator promises the disk controller, with no threads,  *)
(* no track buffer and no cylinder buffer: a store of tracks in which a    *)
(* drive that presents a cylinder presents the data last written to it,    *)
(* however often the heads have been moved since, and which, once closed,  *)
(* holds in its image file the data last written to every track.           *)
(*                                                                         *)
(* EmuThreads implements this with the threads, buffers and file of        *)
(* emu/mfm_emu.c; the refinement mapping stands at the end of that module. *)
(***************************************************************************)
EXTENDS Integers

CONSTANTS Drives,   \* The emulated drives
          Cyls,     \* The cylinders of a drive
          Heads,    \* The tracks of a cylinder
          Data,     \* What a track may hold
          NoCyl,    \* Not a cylinder: the heads are moving
          NotSaved  \* Not an image: the file has not been closed

VARIABLES latest,  \* latest[d][c][h]: the data last written to the track
          at,      \* at[d]: the cylinder the drive presents, or NoCyl
          image    \* The contents of the image file once it is closed

storeVars == <<latest, at, image>>

Init == /\ latest \in [Drives -> [Cyls -> [Heads -> Data]]]
        /\ at = [d \in Drives |-> NoCyl]
        /\ image = NotSaved

Leave(d) == /\ at[d] # NoCyl
            /\ at' = [at EXCEPT ![d] = NoCyl]
            /\ UNCHANGED <<latest, image>>

Seek(d, c) == /\ at[d] = NoCyl
              /\ at' = [at EXCEPT ![d] = c]
              /\ UNCHANGED <<latest, image>>

Write(d, h, v) == /\ at[d] # NoCyl
                  /\ image = NotSaved
                  /\ latest' = [latest EXCEPT ![d][at[d]][h] = v]
                  /\ UNCHANGED <<at, image>>

Close == /\ image = NotSaved
         /\ image' = latest
         /\ UNCHANGED <<latest, at>>

Next == \/ Close
        \/ \E d \in Drives :
              \/ Leave(d)
              \/ \E c \in Cyls : Seek(d, c)
              \/ \E h \in Heads, v \in Data : Write(d, h, v)

Spec == Init /\ [][Next]_storeVars
=============================================================================
