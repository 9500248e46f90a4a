--------------------------- MODULE MonitorConfig ----------------------------
(***************************************************************************)
(* The configuration columns of the monitors table under concurrent         *)
(* requests (services/monitors.ts, routes/monitors.ts, schemas/monitors.ts).*)
(*                                                                          *)
(* A PATCH is a transaction: it reads the row under its lock, judges the    *)
(* values the row would then have, writes the columns that were sent and    *)
(* commits.  Every other operation is one statement.  An error answers 500, *)
(* before the change as after it: the schedule is brought up to date after  *)
(* the COMMIT, by module Schedules, and that may fail on its own.           *)
(***************************************************************************)
EXTENDS Naturals

CONSTANTS Monitors,   \* monitor ids
          Accounts,
          Requests,   \* requests that may be in flight at once
          Intervals,  \* values of interval_seconds
          Timeouts,   \* values of timeout_ms
          DefaultInterval, DefaultTimeout,
          None

\* One of the two is sent at least; None stands for a field that was not sent.
Bodies == [interval : Intervals \union {None}, timeout : Timeouts \union {None}]
Request ==
    [kind : {"post"}, account : Accounts, monitor : {None}, body : Bodies]
        \union [kind : {"get", "delete"}, account : Accounts, monitor : Monitors, body : {None}]
        \union [kind : {"patch"}, account : Accounts, monitor : Monitors,
                body : Bodies \ {[interval |-> None, timeout |-> None]}]

Columns == [interval : Intervals, timeout : Timeouts]
Answers == {"created", "found", "updated", "deleted", "invalid", "not found", "error"}

ASSUME ConfigAssumptions ==
    /\ Intervals \subseteq Nat /\ DefaultInterval \in Intervals
    /\ Timeouts \subseteq Nat /\ DefaultTimeout \in Timeouts
    /\ None \notin Intervals \union Timeouts \union Accounts \union Requests
    /\ None \notin Request \union Columns \union Answers

VARIABLES owner,     \* monitors.account_id; None when there is no row
          interval,  \* monitors.interval_seconds
          timeout,   \* monitors.timeout_ms
          used,      \* monitor ids ever generated
          lock,      \* the request whose transaction holds the row lock, or None
          request,   \* the request being handled: kind, account, id and body; or None
          existing,  \* the row a PATCH read: None before, [interval, timeout] after
          answer     \* the response about to be sent, or None

columns == <<owner, interval, timeout>>
vars == <<columns, used, lock, request, existing, answer>>

Or(sent, kept) == IF sent = None THEN kept ELSE sent    \* sent ?? kept

TooLong(timeoutMs, seconds) == timeoutMs >= seconds * 1000

Owned_AnyAccount(q) == owner[request[q].monitor] # None
\* WHERE id = $1 AND account_id = $2
Owned(q) == owner[request[q].monitor] = request[q].account

RowFree_NoForUpdate(m) == TRUE
RowFree(m) == lock[m] = None

Handling(q, kind) == request[q] # None /\ request[q].kind = kind /\ answer[q] = None
Respond(q, text) == answer' = [answer EXCEPT ![q] = text]

Unlocked_Never(q) == lock
Unlocked(q) == [m \in Monitors |-> IF lock[m] = q THEN None ELSE lock[m]]

-----------------------------------------------------------------------------
Init ==
    /\ owner = [m \in Monitors |-> None]
    /\ interval = [m \in Monitors |-> None]
    /\ timeout = [m \in Monitors |-> None]
    /\ used = {}
    /\ lock = [m \in Monitors |-> None]
    /\ request = [q \in Requests |-> None]
    /\ existing = [q \in Requests |-> None]
    /\ answer = [q \in Requests |-> None]

Receive(q) ==
    /\ request[q] = None
    /\ \E r \in Request : request' = [request EXCEPT ![q] = r]
    /\ UNCHANGED <<columns, used, lock, existing, answer>>

\* createMonitorSchema fills in defaults before it applies the rule.
createMonitor(q) ==
    /\ Handling(q, "post")
    /\ LET seconds == Or(request[q].body.interval, DefaultInterval)
           millis == Or(request[q].body.timeout, DefaultTimeout)
       IN \/ /\ ~TooLong(millis, seconds)
             /\ \E m \in Monitors \ used :
                   /\ used' = used \union {m}
                   /\ owner' = [owner EXCEPT ![m] = request[q].account]
                   /\ interval' = [interval EXCEPT ![m] = seconds]
                   /\ timeout' = [timeout EXCEPT ![m] = millis]
             /\ Respond(q, "created")
          \/ /\ TooLong(millis, seconds)
             /\ Respond(q, "invalid")
             /\ UNCHANGED <<columns, used>>
    /\ UNCHANGED <<lock, request, existing>>

getMonitorForOwner(q) ==
    /\ Handling(q, "get")
    /\ Respond(q, IF Owned(q) THEN "found" ELSE "not found")
    /\ UNCHANGED <<columns, used, lock, request, existing>>

\* BEGIN; SELECT ... FOR UPDATE.  No row of the caller's: ROLLBACK.
SelectForUpdate(q) ==
    LET m == request[q].monitor IN
    /\ Handling(q, "patch") /\ existing[q] = None
    /\ \/ /\ Owned(q)
          /\ RowFree(m)
          /\ lock' = [lock EXCEPT ![m] = q]
          /\ existing' = [existing EXCEPT ![q] = [interval |-> interval[m], timeout |-> timeout[m]]]
          /\ UNCHANGED answer
       \/ ~Owned(q) /\ Respond(q, "not found") /\ UNCHANGED <<lock, existing>>
    /\ UNCHANGED <<columns, used, request>>

\* The rule on the merged values, then UPDATE ... WHERE id and COMMIT, or ROLLBACK.
updateMonitor(q) ==
    LET m == request[q].monitor
        body == request[q].body
        invalid == TooLong(Or(body.timeout, existing[q].timeout), Or(body.interval, existing[q].interval))
    IN  /\ Handling(q, "patch") /\ existing[q] # None
        /\ \/ invalid /\ Respond(q, "invalid") /\ UNCHANGED columns
           \/ /\ ~invalid
              /\ interval' = [interval EXCEPT ![m] = Or(body.interval, @)]
              /\ timeout' = [timeout EXCEPT ![m] = Or(body.timeout, @)]
              /\ Respond(q, "updated")
              /\ UNCHANGED owner
        /\ lock' = Unlocked(q)
        /\ UNCHANGED <<used, request, existing>>

deleteMonitor(q) ==
    LET m == request[q].monitor IN
    /\ Handling(q, "delete")
    /\ \/ /\ Owned(q)
          /\ RowFree(m)
          /\ owner' = [owner EXCEPT ![m] = None]
          /\ interval' = [interval EXCEPT ![m] = None]
          /\ timeout' = [timeout EXCEPT ![m] = None]
          /\ Respond(q, "deleted")
       \/ ~Owned(q) /\ Respond(q, "not found") /\ UNCHANGED columns
    /\ UNCHANGED <<used, lock, request, existing>>

\* A database error before the change: ROLLBACK, and errorHandler answers 500.
FailRequest(q) ==
    /\ request[q] # None /\ answer[q] = None
    /\ Respond(q, "error")
    /\ lock' = Unlocked(q)
    /\ UNCHANGED <<columns, used, request, existing>>

\* After the change, scheduleMonitor or unscheduleMonitor throws, or the answer
\* to the COMMIT is lost: a 500, and the change stays.  A DELETE that found no
\* row of its account may fail after that too, on its way to an orphaned schedule.
ScheduleFails(q) ==
    /\ \/ answer[q] \in {"created", "updated", "deleted"}
       \/ answer[q] = "not found" /\ request[q].kind = "delete"
    /\ Respond(q, "error")
    /\ UNCHANGED <<columns, used, lock, request, existing>>

SendResponse(q) ==
    /\ answer[q] # None
    /\ request' = [request EXCEPT ![q] = None]
    /\ existing' = [existing EXCEPT ![q] = None]
    /\ answer' = [answer EXCEPT ![q] = None]
    /\ UNCHANGED <<columns, used, lock>>

Next ==
    \E q \in Requests :
        \/ Receive(q)
        \/ createMonitor(q)
        \/ getMonitorForOwner(q)
        \/ SelectForUpdate(q)
        \/ updateMonitor(q)
        \/ deleteMonitor(q)
        \/ FailRequest(q)
        \/ ScheduleFails(q)
        \/ SendResponse(q)

Spec == Init /\ [][Next]_vars

-----------------------------------------------------------------------------
(***************************************************************************)
(* Properties                                                               *)
(***************************************************************************)

\* A row lock belongs to a PATCH of that row that is not answered yet, and a row
\* has either all of its columns or none.
TypeOK ==
    /\ owner \in [Monitors -> Accounts \union {None}]
    /\ interval \in [Monitors -> Intervals \union {None}]
    /\ timeout \in [Monitors -> Timeouts \union {None}]
    /\ used \subseteq Monitors
    /\ lock \in [Monitors -> Requests \union {None}]
    /\ request \in [Requests -> Request \union {None}]
    /\ existing \in [Requests -> Columns \union {None}]
    /\ answer \in [Requests -> Answers \union {None}]
    /\ \A m \in Monitors : lock[m] # None =>
          Handling(lock[m], "patch") /\ request[lock[m]].monitor = m
    /\ \A m \in Monitors : owner[m] # None <=> interval[m] # None
    /\ \A m \in Monitors : owner[m] # None <=> timeout[m] # None

\* timeout_ms < interval_seconds * 1000 spans two columns that two callers may
\* change separately, each by a valid request; it holds of every row at all
\* times.
RuleHolds ==
    \A m \in Monitors : owner[m] # None => timeout[m] < 1000 * interval[m]

\* Concurrent requests behave as if each took effect wholly at one moment, or
\* not at all: no change is lost or judged by an outdated row, and a caller can
\* neither change nor tell apart from a missing one what is not its account's.
\* Every answer is true of that moment except a 500, which a request that took
\* effect and one that did not may both get.
Store == INSTANCE ConfigStore WITH
    row <- [m \in Monitors |-> [owner |-> owner[m], interval |-> interval[m], timeout |-> timeout[m]]],
    Usual <- [interval |-> DefaultInterval, timeout |-> DefaultTimeout]
ImplementsConfigStore == Store!Spec
=============================================================================
