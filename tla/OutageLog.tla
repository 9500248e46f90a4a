----------------------------- MODULE OutageLog -----------------------------
(***************************************************************************)
(* What recording checks promises about outages, with no transactions, no   *)
(* locks and no workers in sight: a monitor has at most one open incident,  *)
(* an incident is opened once and resolved at most once, it belongs to one  *)
(* monitor, its id is never reused, and deleting a monitor removes all of   *)
(* its incidents in the same step.                                          *)
(***************************************************************************)
CONSTANTS Monitors, Incident, None

VARIABLES known,    \* the monitors that exist
          outage,   \* monitor -> its open incident, or None
          history,  \* monitor -> its resolved incidents
          used      \* every incident id ever handed out

vars == <<known, outage, history, used>>

Init ==
    /\ known = {}
    /\ outage = [m \in Monitors |-> None]
    /\ history = [m \in Monitors |-> {}]
    /\ used = {}

Add(m) ==
    /\ m \notin known
    /\ known' = known \union {m}
    /\ UNCHANGED <<outage, history, used>>

\* A monitor that is fine, or not checked yet, is found to be down.
Fail(m, i) ==
    /\ m \in known
    /\ outage[m] = None
    /\ i \notin used
    /\ outage' = [outage EXCEPT ![m] = i]
    /\ used' = used \union {i}
    /\ UNCHANGED <<known, history>>

Recover(m) ==
    /\ m \in known
    /\ outage[m] # None
    /\ outage' = [outage EXCEPT ![m] = None]
    /\ history' = [history EXCEPT ![m] = @ \union {outage[m]}]
    /\ UNCHANGED <<known, used>>

Remove(m) ==
    /\ m \in known
    /\ known' = known \ {m}
    /\ outage' = [outage EXCEPT ![m] = None]
    /\ history' = [history EXCEPT ![m] = {}]
    /\ UNCHANGED used

Next ==
    \E m \in Monitors :
        \/ Add(m)
        \/ \E i \in Incident : Fail(m, i)
        \/ Recover(m)
        \/ Remove(m)

Spec == Init /\ [][Next]_vars
=============================================================================
