---------------------------- MODULE MCDashboard -----------------------------
(***************************************************************************)
(* Instances of Dashboard for TLC.  Calls are interchangeable, and so are   *)
(* sockets.                                                                 *)
(***************************************************************************)
EXTENDS Dashboard, TLC

CONSTANTS a, b

\* The account of key a has two monitors, that of key b one.
Owned == a :> {"a1", "a2"} @@ b :> {"b1"}

Symmetry == Permutations(Calls) \union Permutations(Sockets)
=============================================================================
