---------------------------- MODULE MCSchedules -----------------------------
(***************************************************************************)
(* Instances of Schedules for TLC.  Nothing is declared interchangeable:    *)
(* symmetry is unsound for the liveness property of the same run.           *)
(***************************************************************************)
EXTENDS Schedules
=============================================================================
