-------------------------- MODULE MCMonitorConfig ---------------------------
(***************************************************************************)
(* Instances of MonitorConfig for TLC.  Requests are interchangeable, and   *)
(* so are accounts.                                                         *)
(***************************************************************************)
EXTENDS MonitorConfig, TLC

Symmetry == Permutations(Requests) \union Permutations(Accounts)
=============================================================================
