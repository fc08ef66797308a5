------------------------- MODULE MCCrossDayTracker -------------------------
(* A small instance of the tracker for TLC. *)
EXTENDS CrossDayTracker, TLC

(* The processes are alike: no definition names one of them *)
ProcessSymmetry == Permutations(Processes)
=============================================================================
