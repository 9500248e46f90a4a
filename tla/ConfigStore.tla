---------------------------- MODULE ConfigStore ----------------------------
(***************************************************************************)
(* What the monitors API promises about configurations, with no             *)
(* transactions and no locks: each request takes effect or is refused in    *)
(* one step between its arrival and its answer, or it fails.  A caller      *)
(* changes and sees its own account's monitors only, a PATCH replaces the   *)
(* columns it names and no others, and it is judged by the row it is        *)
(* applied to.  A request that fails took effect wholly or not at all, and  *)
(* its caller is not told which.                                            *)
(***************************************************************************)
EXTENDS Naturals

CONSTANTS Monitors, Accounts, Requests, Request, None,
          Usual     \* the row's columns where a POST names none

VARIABLES row,      \* monitor -> [owner, interval, timeout], owner None if it does not exist
          request,  \* what each caller has asked, None if nothing
          answer    \* what it will be told, None before the request took effect

vars == <<row, request, answer>>

Blank == [owner |-> None, interval |-> None, timeout |-> None]

Init ==
    /\ row = [m \in Monitors |-> Blank]
    /\ request = [q \in Requests |-> None]
    /\ answer = [q \in Requests |-> None]

Pending(q, kind) == request[q] # None /\ answer[q] = None /\ request[q].kind = kind
Mine(q) == row[request[q].monitor].owner = request[q].account
Merge(columns, body) ==
    [c \in {"interval", "timeout"} |-> IF body[c] = None THEN columns[c] ELSE body[c]]
Obeys(columns) == columns.timeout < 1000 * columns.interval
Row(owner, columns) == [owner |-> owner, interval |-> columns.interval, timeout |-> columns.timeout]

Answer(q, text) == answer' = [answer EXCEPT ![q] = text] /\ UNCHANGED request
Refuse(q, text) == Answer(q, text) /\ UNCHANGED row
Put(m, columns) == row' = [row EXCEPT ![m] = columns]

Arrive(q) ==
    /\ request[q] = None
    /\ \E r \in Request : request' = [request EXCEPT ![q] = r]
    /\ UNCHANGED <<row, answer>>

Post(q) ==
    /\ Pending(q, "post")
    /\ LET new == Merge(Usual, request[q].body) IN
          \/ /\ Obeys(new)
             /\ \E m \in Monitors : row[m] = Blank /\ Put(m, Row(request[q].account, new))
             /\ Answer(q, "created")
          \/ ~Obeys(new) /\ Refuse(q, "invalid")

Get(q) ==
    /\ Pending(q, "get")
    /\ Refuse(q, IF Mine(q) THEN "found" ELSE "not found")

Patch(q) ==
    /\ Pending(q, "patch")
    /\ LET m == request[q].monitor
           new == Merge(row[m], request[q].body)
       IN \/ ~Mine(q) /\ Refuse(q, "not found")
          \/ Mine(q) /\ ~Obeys(new) /\ Refuse(q, "invalid")
          \/ Mine(q) /\ Obeys(new) /\ Put(m, Row(row[m].owner, new)) /\ Answer(q, "updated")

Delete(q) ==
    /\ Pending(q, "delete")
    /\ \/ ~Mine(q) /\ Refuse(q, "not found")
       \/ Mine(q) /\ Put(request[q].monitor, Blank) /\ Answer(q, "deleted")

\* An error changes nothing itself, but it may follow the effect and hide it.
Fail(q) ==
    /\ request[q] # None
    /\ Refuse(q, "error")

Reply(q) ==
    /\ answer[q] # None
    /\ request' = [request EXCEPT ![q] = None]
    /\ answer' = [answer EXCEPT ![q] = None]
    /\ UNCHANGED row

Next ==
    \E q \in Requests :
        \/ Arrive(q)
        \/ Post(q)
        \/ Get(q)
        \/ Patch(q)
        \/ Delete(q)
        \/ Fail(q)
        \/ Reply(q)

Spec == Init /\ [][Next]_vars
=============================================================================
