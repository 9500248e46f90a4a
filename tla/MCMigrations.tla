----------------------------- MODULE MCMigrations ---------------------------
(***************************************************************************)
(* Instances of Migrations for TLC.  No process is declared interchangeable:*)
(* symmetry is unsound for the liveness property of the same run.           *)
(***************************************************************************)
EXTENDS Migrations

\* The expand step, and a target that stops nowhere, as no target does.
ExpandOrNowhere == {Text(3), <<3>>}
=============================================================================
