---------------------------- MODULE MCPartitions ---------------------------
(***************************************************************************)
(* Instances of Partitions for TLC.  Runs are interchangeable.              *)
(***************************************************************************)
EXTENDS Partitions, TLC

RunSymmetry == Permutations(Workers)
=============================================================================
