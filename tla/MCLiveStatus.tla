---------------------------- MODULE MCLiveStatus ----------------------------
(***************************************************************************)
(* Instances of LiveStatus for TLC.  Runs are interchangeable, and so are   *)
(* calls of loadMonitors.                                                   *)
(***************************************************************************)
EXTENDS LiveStatus, TLC

Symmetry == Permutations(Runs) \union Permutations(Loads)
=============================================================================
