------------------------------ MODULE MCIncidents ---------------------------
(***************************************************************************)
(* Instances of Incidents for TLC.  No process is declared interchangeable:*)
(* symmetry is unsound for the liveness property of the same run.           *)
(***************************************************************************)
EXTENDS Incidents
=============================================================================
