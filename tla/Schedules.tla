----------------------------- MODULE Schedules -----------------------------
(***************************************************************************)
(* The monitors table and the BullMQ job schedulers derived from it.        *)
(*                                                                          *)
(* Every API handler writes Postgres first and Redis second                 *)
(* (routes/monitors.ts), with nothing holding the two together; at start    *)
(* each API process runs a reconcile pass, not awaited (index.ts,           *)
(* queue/reconcile.ts), that compares the two stores while handlers go on;  *)
(* and a check job that finds its monitor gone removes its own scheduler    *)
(* (queue/checkWorker.ts).  All of them may stop between two steps.         *)
(***************************************************************************)
EXTENDS Naturals, Sequences

CONSTANTS Monitors,     \* monitor ids
          Intervals,    \* values of interval_seconds
          Handlers,     \* API requests that may be in flight at once
          Reconcilers,  \* API processes, each with at most one pass under way
          Slots,        \* check jobs that may be active at once
          None,
          MaxFailures   \* bounds the handlers, passes and jobs cut short

ASSUME ScheduleAssumptions ==
    /\ MaxFailures \in Nat
    /\ Intervals \subseteq Nat
    /\ None \notin Nat /\ None \notin Monitors
    /\ Handlers \intersect Slots = {}

VARIABLES row,       \* the monitors row: absent, active, paused or deleted
          interval,  \* monitors.interval_seconds
          sched,     \* Redis: the scheduler's every in ms, None if there is none
          pc,        \* handlers and slots: idle, then where they are
          target,    \* the monitor a handler or a slot works on
          write,     \* the interval a handler or slot is about to schedule (None: remove)
          reads,     \* the stores a pass has still to read; NoPass between passes
          existing,  \* a pass's view of Redis
          wanted,    \* a pass's view of Postgres
          failures,
          \* History, read by no action:
          changed,   \* monitors patched or deleted, or whose POST was cut short
          raced,     \* monitors whose two stores may differ (see Track)
          disturbed  \* of each pass: the monitors written under it

rows     == <<row, interval>>
workers  == <<pc, target, write>>
passes   == <<reads, existing, wanted>>
history  == <<changed, raced, disturbed>>
vars     == <<rows, sched, workers, passes, failures, history>>

Live == {"active", "paused"}
Seconds == Intervals \union {None}
Millis == {1000 * seconds : seconds \in Intervals} \union {None}
NoPass == <<"start">>
Idle(c) == reads[c] = NoPass

EveryOf_Seconds(seconds) == seconds
\* upsertJobScheduler counts in milliseconds, the table in seconds.
EveryOf(seconds) == IF seconds = None THEN None ELSE 1000 * seconds

\* The interval a row asks to be scheduled at, None if it is not to be.
Desired(m) == IF row[m] = "active" THEN interval[m] ELSE None

\* A handler that has written the row of m and not yet its scheduler.
Writing(m) == \E h \in Handlers : pc[h] = "writing" /\ target[h] = m

-----------------------------------------------------------------------------
(***************************************************************************)
(* History.  A monitor is raced once a write to its row overlaps another    *)
(* such write or a pass, or is cut short before it reaches Redis; a pass    *)
(* under which nothing of the monitor was written makes it whole again.     *)
(***************************************************************************)
TrackRowWrite(m) ==
    /\ raced' = IF Writing(m) \/ \E c \in Reconcilers : ~Idle(c) THEN raced \union {m} ELSE raced
    /\ disturbed' = [c \in Reconcilers |-> IF Idle(c) THEN {} ELSE disturbed[c] \union {m}]

TrackPassStart(c) ==
    LET writing == {m \in Monitors : Writing(m)}
    IN  /\ raced' = raced \union writing
        /\ disturbed' = [disturbed EXCEPT ![c] = writing \union UNION {disturbed[d] : d \in Reconcilers}]

TrackPassEnd(c) ==
    /\ raced' = raced \intersect disturbed[c]
    /\ disturbed' = [disturbed EXCEPT ![c] = {}]

-----------------------------------------------------------------------------
Init ==
    /\ row = [m \in Monitors |-> "absent"]
    /\ interval \in [Monitors -> Intervals]
    /\ sched = [m \in Monitors |-> None]
    /\ pc = [w \in Handlers \union Slots |-> "idle"]
    /\ target = [w \in Handlers \union Slots |-> None]
    /\ write = [w \in Handlers \union Slots |-> None]
    /\ reads = [c \in Reconcilers |-> NoPass]
    /\ existing = [c \in Reconcilers |-> [m \in Monitors |-> None]]
    /\ wanted = [c \in Reconcilers |-> [m \in Monitors |-> None]]
    /\ failures = 0
    /\ changed = {}
    /\ raced = {}
    /\ disturbed = [c \in Reconcilers |-> {}]

Begin(w, m, at, every) ==
    /\ pc[w] = "idle"
    /\ pc' = [pc EXCEPT ![w] = at]
    /\ target' = [target EXCEPT ![w] = m]
    /\ write' = [write EXCEPT ![w] = every]

End(w) ==
    /\ pc' = [pc EXCEPT ![w] = "idle"]
    /\ target' = [target EXCEPT ![w] = None]
    /\ write' = [write EXCEPT ![w] = None]

\* POST: createMonitor, then scheduleMonitor.
Post(h, m) ==
    /\ row[m] = "absent"
    /\ row' = [row EXCEPT ![m] = "active"]
    /\ Begin(h, m, "writing", interval[m])
    /\ TrackRowWrite(m)
    /\ UNCHANGED <<interval, sched, passes, failures, changed>>

ScheduleOf(state, every) == IF state = "active" THEN every ELSE None

\* PATCH with interval_seconds or is_active in its body: updateMonitor, then
\* the schedule of the row as committed.
Patch(h, m) ==
    /\ row[m] \in Live
    /\ \E state \in Live, every \in Intervals :
          /\ row' = [row EXCEPT ![m] = state]
          /\ interval' = [interval EXCEPT ![m] = every]
          /\ Begin(h, m, "writing", ScheduleOf(state, every))
    /\ TrackRowWrite(m)
    /\ changed' = changed \union {m}
    /\ UNCHANGED <<sched, passes, failures>>

\* DELETE by the owner: deleteMonitor, then unscheduleMonitor.
Delete(h, m) ==
    /\ row[m] \in Live
    /\ row' = [row EXCEPT ![m] = "deleted"]
    /\ Begin(h, m, "writing", None)
    /\ TrackRowWrite(m)
    /\ changed' = changed \union {m}
    /\ UNCHANGED <<interval, sched, passes, failures>>

\* DELETE that deletes nothing: somebody else's monitor, or one already gone.
DeleteNothing(h, m) ==
    /\ row[m] \in Live \union {"deleted"}
    /\ Begin(h, m, "lookup", None)
    /\ UNCHANGED <<rows, sched, passes, failures, history>>

Orphan_NotMine(m) == TRUE
Orphan(m) == row[m] = "deleted"    \* getMonitorUnscoped finds no row

\* ... whose scheduler is removed only if there is no such monitor at all.
Lookup(h) ==
    /\ pc[h] = "lookup"
    /\ \/ /\ Orphan(target[h])
          /\ pc' = [pc EXCEPT ![h] = "removing"]
          /\ UNCHANGED <<target, write>>
       \/ ~Orphan(target[h]) /\ End(h)
    /\ UNCHANGED <<rows, sched, passes, failures, history>>

\* The Redis half of a handler, or of a job that found its monitor gone.
WriteSchedule(w) ==
    /\ pc[w] \in {"writing", "removing"}
    /\ sched' = [sched EXCEPT ![target[w]] = EveryOf(write[w])]
    /\ End(w)
    /\ UNCHANGED <<rows, passes, failures, history>>

\* The process dies, or Redis refuses the second half of the request.
CutShort(h) ==
    /\ pc[h] # "idle"
    /\ failures < MaxFailures
    /\ failures' = failures + 1
    /\ raced' = IF pc[h] = "writing" THEN raced \union {target[h]} ELSE raced
    /\ changed' = IF pc[h] = "writing" THEN changed \union {target[h]} ELSE changed
    /\ End(h)
    /\ UNCHANGED <<rows, sched, passes, disturbed>>

-----------------------------------------------------------------------------
(***************************************************************************)
(* A reconcile pass: two reads, then one write per difference between them. *)
(***************************************************************************)
ReadOrder_PostgresFirst == <<"postgres", "redis">>
ReadOrder == <<"redis", "postgres">>

StartPass(c) ==
    /\ Idle(c)
    /\ reads' = [reads EXCEPT ![c] = ReadOrder]
    /\ TrackPassStart(c)
    /\ UNCHANGED <<rows, sched, workers, existing, wanted, failures, changed>>

ReadStore(c) ==
    /\ ~Idle(c) /\ reads[c] # <<>>
    /\ reads' = [reads EXCEPT ![c] = Tail(@)]
    /\ \/ Head(reads[c]) = "redis" /\ existing' = [existing EXCEPT ![c] = sched] /\ UNCHANGED wanted
       \/ /\ Head(reads[c]) = "postgres"
          /\ wanted' = [wanted EXCEPT ![c] = [m \in Monitors |-> Desired(m)]]
          /\ UNCHANGED existing
    /\ UNCHANGED <<rows, sched, workers, failures, history>>

Differs(c) == {m \in Monitors : existing[c][m] # EveryOf(wanted[c][m])}

\* Active monitors are scheduled first; what is left has no active monitor.
ApplyFix(c) ==
    /\ reads[c] = <<>>
    /\ \E m \in Differs(c) :
          /\ wanted[c][m] = None => \A n \in Differs(c) : wanted[c][n] = None
          /\ sched' = [sched EXCEPT ![m] = EveryOf(wanted[c][m])]
          /\ existing' = [existing EXCEPT ![c][m] = EveryOf(wanted[c][m])]
    /\ UNCHANGED <<rows, workers, reads, wanted, failures, history>>

ForgetPass(c) ==
    /\ reads' = [reads EXCEPT ![c] = NoPass]
    /\ existing' = [existing EXCEPT ![c] = [m \in Monitors |-> None]]
    /\ wanted' = [wanted EXCEPT ![c] = [m \in Monitors |-> None]]

EndPass(c) ==
    /\ reads[c] = <<>>
    /\ Differs(c) = {}
    /\ ForgetPass(c)
    /\ TrackPassEnd(c)
    /\ UNCHANGED <<rows, sched, workers, failures, changed>>

AbortPass(c) ==
    /\ ~Idle(c)
    /\ failures < MaxFailures
    /\ failures' = failures + 1
    /\ ForgetPass(c)
    /\ disturbed' = [disturbed EXCEPT ![c] = {}]
    /\ UNCHANGED <<rows, sched, workers, changed, raced>>

-----------------------------------------------------------------------------
(***************************************************************************)
(* Check jobs, as far as schedules go.  Removing a scheduler does not stop  *)
(* a job it has already produced.                                           *)
(***************************************************************************)
Fire(s, m) ==
    /\ sched[m] # None
    /\ Begin(s, m, "queued", None)
    /\ UNCHANGED <<rows, sched, passes, failures, history>>

AfterLoad_NotFoundIgnored(m) == IF row[m] = "active" THEN "probing" ELSE "idle"
\* runCheck: not_found unschedules, paused skips, an active monitor is probed.
AfterLoad(m) ==
    IF row[m] = "active" THEN "probing" ELSE IF row[m] = "paused" THEN "idle" ELSE "removing"

LoadMonitor(s) ==
    /\ pc[s] = "queued"
    /\ \/ AfterLoad(target[s]) = "idle" /\ End(s)
       \/ /\ AfterLoad(target[s]) # "idle"
          /\ pc' = [pc EXCEPT ![s] = AfterLoad(target[s])]
          /\ UNCHANGED <<target, write>>
    /\ UNCHANGED <<rows, sched, passes, failures, history>>

\* recordCheck finds the row, or { recorded: false } makes it not_found.
RecordCheck(s) ==
    /\ pc[s] = "probing"
    /\ \/ row[target[s]] = "deleted" /\ pc' = [pc EXCEPT ![s] = "removing"] /\ UNCHANGED <<target, write>>
       \/ row[target[s]] # "deleted" /\ End(s)
    /\ UNCHANGED <<rows, sched, passes, failures, history>>

FailJob(s) ==
    /\ pc[s] # "idle"
    /\ failures < MaxFailures
    /\ failures' = failures + 1
    /\ End(s)
    /\ UNCHANGED <<rows, sched, passes, history>>

-----------------------------------------------------------------------------
HandlerStep(h) == Lookup(h) \/ WriteSchedule(h)
PassStep(c) == ReadStore(c) \/ ApplyFix(c) \/ EndPass(c)
JobStep(s) == LoadMonitor(s) \/ RecordCheck(s) \/ WriteSchedule(s)

Next ==
    \/ \E h \in Handlers :
          \/ \E m \in Monitors : Post(h, m) \/ Patch(h, m) \/ Delete(h, m) \/ DeleteNothing(h, m)
          \/ HandlerStep(h)
          \/ CutShort(h)
    \/ \E c \in Reconcilers : StartPass(c) \/ PassStep(c) \/ AbortPass(c)
    \/ \E s \in Slots :
          \/ \E m \in Monitors : Fire(s, m)
          \/ JobStep(s)
          \/ FailJob(s)

Spec == Init /\ [][Next]_vars

(***************************************************************************)
(* Fairness: what has started goes on (requests, passes, jobs), and a       *)
(* scheduler that exists keeps firing and gets a slot: BullMQ serves its    *)
(* queue first come, first served, so other monitors cannot starve it.      *)
(* No request is ever owed, and no pass: they start when somebody asks.     *)
(***************************************************************************)
Fairness ==
    /\ \A h \in Handlers : WF_vars(HandlerStep(h))
    /\ \A c \in Reconcilers : WF_vars(PassStep(c))
    /\ \A s \in Slots : WF_vars(JobStep(s))
    /\ \A m \in Monitors : SF_vars(\E s \in Slots : Fire(s, m))

FairSpec == Spec /\ Fairness

-----------------------------------------------------------------------------
(***************************************************************************)
(* Properties                                                               *)
(***************************************************************************)

\* Values and control states stay within those the code has; a slot or a
\* lookup never holds anything but a removal.
TypeOK ==
    /\ row \in [Monitors -> {"absent", "active", "paused", "deleted"}]
    /\ interval \in [Monitors -> Intervals]
    /\ sched \in [Monitors -> Millis]
    /\ pc \in [Handlers \union Slots -> {"idle", "writing", "lookup", "removing", "queued", "probing"}]
    /\ target \in [Handlers \union Slots -> Monitors \union {None}]
    /\ write \in [Handlers \union Slots -> Seconds]
    /\ \A w \in Handlers \union Slots : pc[w] # "writing" => write[w] = None
    /\ reads \in [Reconcilers -> {NoPass, <<"redis", "postgres">>, <<"postgres">>, <<>>}]
    /\ existing \in [Reconcilers -> [Monitors -> Millis]]
    /\ wanted \in [Reconcilers -> [Monitors -> Seconds]]
    /\ failures \in 0 .. MaxFailures
    /\ changed \subseteq Monitors
    /\ raced \subseteq Monitors
    /\ disturbed \in [Reconcilers -> SUBSET Monitors]

\* What the read order of a pass is for: once its POST is answered, a monitor
\* nobody edits keeps its scheduler, at its interval, whatever passes overlap
\* the POST, whoever else sends DELETE for it, and whatever its jobs do.
PostedStaysScheduled ==
    \A m \in Monitors \ changed :
        row[m] = "active" /\ ~Writing(m) => sched[m] = 1000 * interval[m]

InSync(m) == sched[m] = IF row[m] = "active" THEN 1000 * interval[m] ELSE None

\* Redis differs from Postgres only where a request was cut short or
\* overlapped another request or a pass; a pass that nothing overlaps repairs
\* all of it.
InSyncUnlessRaced ==
    \A m \in Monitors \ raced : ~Writing(m) => InSync(m)

\* A deleted monitor stops being scheduled, even if the DELETE died half-way
\* or a pass brings the scheduler back: its own job removes it.
DeletedStopsFiring ==
    \A m \in Monitors : <>[](row[m] = "deleted" => sched[m] = None)

\* queue/reconcile.ts:12-13 says that a pass makes Redis match Postgres and is
\* safe to run at any time and from several processes: when no request and no
\* pass is under way, every active monitor has a scheduler.
ActiveIsScheduled ==
    (\A h \in Handlers : pc[h] = "idle") /\ (\A c \in Reconcilers : Idle(c))
        => \A m \in Monitors : row[m] = "active" => sched[m] # None
=============================================================================
