---------------------------- MODULE MCEmuThreads ----------------------------
(* EmuThreads on small sets, for the runs of EmuThreads*.cfg. *)
EXTENDS EmuThreads, TLC

DataSymmetry == Permutations(Data)
=============================================================================
