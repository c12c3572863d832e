----------------------------- MODULE BestReads -----------------------------
(***************************************************************************)
(* What mfm_read promises of its extracted file: each sector of the disk   *)
(* holds the best of the reads made of it, best first a read that needed   *)
(* no correction, then shorter corrections before longer, then one whose   *)
(* check failed.                                                           *)
(***************************************************************************)
EXTENDS Naturals

CONSTANTS Places,  \* The sectors of the disk
          Ranks    \* The bits a read needed corrected, a number for a failed read above them

Unread == 101 \* Above every rank

VARIABLE store

Init == store = [p \in Places |-> Unread]

\* A better read of a sector.
Improve(place) ==
  /\ store'[place] \in Ranks
  /\ store'[place] < store[place]
  /\ store' = [store EXCEPT ![place] = store'[place]]

Next == \E place \in Places : Improve(place)

Spec == Init /\ [][Next]_store
=============================================================================
