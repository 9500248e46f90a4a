----------------------------- MODULE Incidents -----------------------------
(***************************************************************************)
(* Recording the result of a check (checks/runCheck.ts, services/checks.ts, *)
(* queue/checkWorker.ts) while other checks of the same monitor, the API    *)
(* handlers that pause or delete it, and worker crashes interleave with it. *)
(*                                                                          *)
(* A run is one execution of the check worker's job handler.  It loads the  *)
(* monitor, probes it with no transaction open, then records the result in  *)
(* one transaction that holds the monitor's row lock from SELECT ... FOR    *)
(* UPDATE to COMMIT.  The transaction is two steps here, taking the lock    *)
(* (which reads the previous status) and committing: what it writes in      *)
(* between is visible to nobody else, and whatever would conflict with it   *)
(* waits for the lock.                                                      *)
(***************************************************************************)
EXTENDS FiniteSets, Naturals

CONSTANTS Monitors,  \* monitor ids
          Runs,      \* check jobs that may execute at once, over all workers
          Incident,  \* incident ids; bounds how many outages a behaviour has
          None

Alert == Incident \X {"opened", "resolved"}

ASSUME NoneAssumption ==
    None \notin Runs /\ None \notin Monitors /\ None \notin Incident /\ None \notin Alert

VARIABLES row,       \* the monitors row: absent, active, paused (is_active) or deleted
          status,    \* monitors.current_status
          lock,      \* the run whose transaction holds the row lock, or None
          owner,     \* incidents.monitor_id, None for an unused id
          phase,     \* the incidents row: unused, open, resolved or deleted by cascade
          pc,        \* where each run is
          job,       \* job.data.monitorId of each run
          result,    \* what its probe found
          seen,      \* the status it read under the lock
          change,    \* RecordResult.incident: the transition it committed, or None
          enqueued,  \* alerts handed to the alert queue
          lost       \* alerts of runs that died after COMMIT, before enqueueAlert

dbVars  == <<row, status, lock, owner, phase>>
runVars == <<pc, job, result, seen, change>>
alertVars == <<enqueued, lost>>
vars == <<dbVars, runVars, alertVars>>

Live == {"active", "paused"}

Answers == {"expected", "unexpected", "unreachable"}

(***************************************************************************)
(* Helpers of recordCheck and probe.                                        *)
(***************************************************************************)
Outcome_UnreachableIsError(answer) ==
    CASE answer = "expected" -> "up"
      [] answer = "unexpected" -> "down"
      [] answer = "unreachable" -> "error"

\* A probe that cannot reach the target is a result, not a failure of the job.
Outcome(answer) == IF answer = "expected" THEN "up" ELSE "down"

Open(m) == {i \in Incident : owner[i] = m /\ phase[i] = "open"}

wentDown_NoPrevious(r) == result[r] = "down"
wentDown(r) == result[r] = "down" /\ seen[r] # "down"

recovered(r) == result[r] = "up" /\ seen[r] = "down"

RowFree_NoForUpdate(m) == TRUE
RowFree(m) == lock[m] = None

Released_KeepsLock(r) == lock
Released(r) == [m \in Monitors |-> IF lock[m] = r THEN None ELSE lock[m]]

\* The incident ids left cover every run that is under way, so that running
\* out of ids never blocks a transaction.
IncidentBound ==
    Cardinality({r \in Runs : pc[r] # "idle"}) < Cardinality({i \in Incident : phase[i] = "unused"})

Finished(r) ==
    /\ pc' = [pc EXCEPT ![r] = "idle"]
    /\ job' = [job EXCEPT ![r] = None]
    /\ result' = [result EXCEPT ![r] = "none"]
    /\ seen' = [seen EXCEPT ![r] = "none"]
    /\ change' = [change EXCEPT ![r] = None]

-----------------------------------------------------------------------------
Init ==
    /\ row = [m \in Monitors |-> "absent"]
    /\ status = [m \in Monitors |-> "unknown"]
    /\ lock = [m \in Monitors |-> None]
    /\ owner = [i \in Incident |-> None]
    /\ phase = [i \in Incident |-> "unused"]
    /\ pc = [r \in Runs |-> "idle"]
    /\ job = [r \in Runs |-> None]
    /\ result = [r \in Runs |-> "none"]
    /\ seen = [r \in Runs |-> "none"]
    /\ change = [r \in Runs |-> None]
    /\ enqueued = {}
    /\ lost = {}

(***************************************************************************)
(* The API's handlers.  Ids are generated, so a deleted monitor's id never  *)
(* comes back; UPDATE and DELETE wait for the row lock.                     *)
(***************************************************************************)
createMonitor(m) ==
    /\ row[m] = "absent"
    /\ row' = [row EXCEPT ![m] = "active"]
    /\ UNCHANGED <<status, lock, owner, phase, runVars, alertVars>>

updateMonitor(m) ==
    /\ row[m] \in Live
    /\ RowFree(m)
    /\ \E state \in Live : row' = [row EXCEPT ![m] = state]
    /\ UNCHANGED <<status, lock, owner, phase, runVars, alertVars>>

CascadedPhases(m) ==
    [i \in Incident |-> IF owner[i] = m THEN "deleted" ELSE phase[i]]

\* ON DELETE CASCADE takes the monitor's incidents with it.
deleteMonitor(m) ==
    /\ row[m] \in Live
    /\ RowFree(m)
    /\ row' = [row EXCEPT ![m] = "deleted"]
    /\ phase' = CascadedPhases(m)
    /\ UNCHANGED <<status, lock, owner, runVars, alertVars>>

(***************************************************************************)
(* One check.  A run that finds no row, or a paused one, touches nothing    *)
(* modelled here (its schedule is in module Schedules).                     *)
(***************************************************************************)
LoadMonitor(r, m) ==
    /\ pc[r] = "idle"
    /\ row[m] = "active"
    /\ IncidentBound
    /\ pc' = [pc EXCEPT ![r] = "probing"]
    /\ job' = [job EXCEPT ![r] = m]
    /\ UNCHANGED <<dbVars, result, seen, change, alertVars>>

probe(r) ==
    /\ pc[r] = "probing"
    /\ \E answer \in Answers : result' = [result EXCEPT ![r] = Outcome(answer)]
    /\ pc' = [pc EXCEPT ![r] = "probed"]
    /\ UNCHANGED <<dbVars, job, seen, change, alertVars>>

\* BEGIN; SELECT current_status ... FOR UPDATE finds the row.
LockMonitor(r) ==
    /\ pc[r] = "probed"
    /\ row[job[r]] \in Live
    /\ RowFree(job[r])
    /\ lock' = [lock EXCEPT ![job[r]] = r]
    /\ seen' = [seen EXCEPT ![r] = status[job[r]]]
    /\ pc' = [pc EXCEPT ![r] = "locked"]
    /\ UNCHANGED <<row, status, owner, phase, job, result, change, alertVars>>

\* The row is gone: ROLLBACK, { recorded: false }.
SkipDeleted(r) ==
    /\ pc[r] = "probed"
    /\ row[job[r]] = "deleted"
    /\ Finished(r)
    /\ UNCHANGED <<dbVars, alertVars>>

\* INSERT INTO incidents: the partial unique index admits one open incident
\* per monitor (a rejected insert throws, which is FailCheck).
OpenIncident(r) ==
    /\ wentDown(r)
    /\ Open(job[r]) = {}
    /\ \E i \in Incident :
          /\ phase[i] = "unused"
          /\ owner' = [owner EXCEPT ![i] = job[r]]
          /\ phase' = [phase EXCEPT ![i] = "open"]
          /\ change' = [change EXCEPT ![r] = <<i, "opened">>]

ResolvedPhases_All(m) ==
    [i \in Incident |-> IF phase[i] = "open" THEN "resolved" ELSE phase[i]]
ResolvedPhases(m) == [i \in Incident |-> IF i \in Open(m) THEN "resolved" ELSE phase[i]]

\* rows[0] of RETURNING id, if there is one.
ReturnedRows(m) == IF Open(m) = {} THEN {None} ELSE Open(m) \X {"resolved"}

\* UPDATE incidents ... WHERE monitor_id = $1 AND resolved_at IS NULL.
ResolveIncident(r) ==
    /\ ~wentDown(r)
    /\ recovered(r)
    /\ phase' = ResolvedPhases(job[r])
    /\ \E incident \in ReturnedRows(job[r]) : change' = [change EXCEPT ![r] = incident]
    /\ UNCHANGED owner

NoTransition(r) ==
    /\ ~wentDown(r)
    /\ ~recovered(r)
    /\ UNCHANGED <<owner, phase, change>>

\* The rest of the transaction and its COMMIT.  The foreign keys to monitors
\* need the row to be there still.
CommitCheck(r) ==
    /\ pc[r] = "locked"
    /\ row[job[r]] \in Live
    /\ status' = [status EXCEPT ![job[r]] = result[r]]
    /\ OpenIncident(r) \/ ResolveIncident(r) \/ NoTransition(r)
    /\ lock' = Released(r)
    /\ pc' = [pc EXCEPT ![r] = "committed"]
    /\ UNCHANGED <<row, job, result, seen, alertVars>>

Handed_OnlyOpened(r) == {change[r]} \intersect (Incident \X {"opened"})
Handed(r) == {change[r]} \ {None}

\* Back in checkWorker: publish (best effort), then enqueueAlert if the check
\* changed an incident.  Adding a job whose id exists already changes nothing.
EnqueueAlert(r) ==
    /\ pc[r] = "committed"
    /\ enqueued' = enqueued \union Handed(r)
    /\ Finished(r)
    /\ UNCHANGED <<dbVars, lost>>

\* An error or the death of the process, at any point: Postgres rolls an open
\* transaction back and releases its lock; after COMMIT only the alert is lost.
FailCheck(r) ==
    /\ pc[r] # "idle"
    /\ lock' = Released(r)
    /\ lost' = lost \union ({change[r]} \ {None})
    /\ Finished(r)
    /\ UNCHANGED <<row, status, owner, phase, enqueued>>

RunStep(r) ==
    \/ probe(r)
    \/ LockMonitor(r)
    \/ SkipDeleted(r)
    \/ CommitCheck(r)
    \/ EnqueueAlert(r)

Next ==
    \/ \E m \in Monitors : createMonitor(m) \/ updateMonitor(m) \/ deleteMonitor(m)
    \/ \E r \in Runs :
          \/ \E m \in Monitors : LoadMonitor(r, m)
          \/ RunStep(r)
          \/ FailCheck(r)

Spec == Init /\ [][Next]_vars

(***************************************************************************)
(* Fairness: AbortSignal.timeout ends every probe, a transaction and Redis  *)
(* make progress, and Postgres grants a row lock in the order it was asked  *)
(* for, so a run cannot be overtaken forever (strong fairness on the lock). *)
(* Nothing is assumed of the API's callers, of the scheduler or of crashes. *)
(***************************************************************************)
Fairness ==
    \A r \in Runs :
        /\ WF_vars(probe(r))
        /\ SF_vars(LockMonitor(r))
        /\ WF_vars(SkipDeleted(r))
        /\ WF_vars(CommitCheck(r))
        /\ WF_vars(EnqueueAlert(r))

FairSpec == Spec /\ Fairness

-----------------------------------------------------------------------------
(***************************************************************************)
(* Properties                                                               *)
(***************************************************************************)

\* Every variable stays within the values the schema and the code allow
\* (monitors.current_status is only ever unknown, up or down).
TypeOK ==
    /\ row \in [Monitors -> {"absent", "active", "paused", "deleted"}]
    /\ status \in [Monitors -> {"unknown", "up", "down"}]
    /\ lock \in [Monitors -> Runs \union {None}]
    /\ owner \in [Incident -> Monitors \union {None}]
    /\ phase \in [Incident -> {"unused", "open", "resolved", "deleted"}]
    /\ pc \in [Runs -> {"idle", "probing", "probed", "locked", "committed"}]
    /\ job \in [Runs -> Monitors \union {None}]
    /\ result \in [Runs -> {"none", "up", "down"}]
    /\ seen \in [Runs -> {"none", "unknown", "up", "down"}]
    /\ change \in [Runs -> Alert \union {None}]
    /\ enqueued \subseteq Alert
    /\ lost \subseteq Alert

\* current_status and the incidents table, written by separate statements and
\* read by separate endpoints, never disagree: an existing monitor is down
\* exactly when it has an open incident, and a deleted one leaves none behind.
DownMeansOpenIncident ==
    \A m \in Monitors :
        /\ row[m] \in Live => (status[m] = "down" <=> Open(m) # {})
        /\ row[m] = "deleted" => Open(m) = {}

\* recordCheck decides from the previous status alone, without looking at the
\* incidents table; it is still always right about it.  A run about to open an
\* incident never meets one that is open (the unique index never rejects its
\* insert) and a run about to resolve finds exactly one to resolve.
TransitionFindsItsIncident ==
    \A r \in Runs : pc[r] = "locked" =>
        /\ wentDown(r) => Open(job[r]) = {}
        /\ recovered(r) => \E i \in Incident : Open(job[r]) = {i}

\* The transitions in the database that somebody has to be told about.
Transitions ==
    {i \in Incident : phase[i] \in {"open", "resolved"}} \X {"opened"}
        \union {i \in Incident : phase[i] = "resolved"} \X {"resolved"}

\* Every committed transition is announced by exactly one run: its alert is
\* queued, or one run still carries it, or that run died with it (the case
\* the sweep of alerts/sweep.ts exists for).  No two runs carry one alert, and
\* none carries one that was queued before.
AnnouncedByOneRun ==
    /\ Transitions \subseteq enqueued \union lost \union {change[r] : r \in Runs}
    /\ enqueued \intersect lost = {}
    /\ \A r \in Runs : change[r] # None =>
          /\ change[r] \notin enqueued \union lost
          /\ \A other \in Runs \ {r} : change[other] # change[r]

AnyOf(S) == IF S = {} THEN None ELSE CHOOSE i \in S : TRUE

\* Runs, row locks, two tables and cascades implement the outage log: each
\* commit is one step of it, every other step is invisible.
Log == INSTANCE OutageLog WITH
    known <- {m \in Monitors : row[m] \in Live},
    outage <- [m \in Monitors |-> AnyOf(Open(m))],
    history <- [m \in Monitors |-> {i \in Incident : owner[i] = m /\ phase[i] = "resolved"}],
    used <- {i \in Incident : phase[i] # "unused"}
ImplementsOutageLog == Log!Spec

\* No check is stuck: whatever it waits for (the target's answer, the row lock
\* other checks and the API compete for), its job ends.  Holds without assuming
\* that other runs fail, and although deletes may overtake it.
ChecksFinish == \A r \in Runs : pc[r] # "idle" ~> pc[r] = "idle"
=============================================================================
